SPECIFICATION SpecAll
CONSTANTS
    Start = 2
    Steps = 4
    APIs <- Intervals
    Samples <- Sampled
    MaxInterrupts = 1
    Changed <- Seven
    Problems <- Arrays
    MaxTuples = 60
    Op <- Operations
    Method <- Methods
    Path <- Paths
    Param <- Owners
    Body <- Fields
    Resource <- Named
    Ids <- Identifiers
    Configured <- Bindings
    Fixed <- Values
    Poll <- Polls
    Selected <- Inspected
    MaxLinks = 1
    Languages <- FlatAndValued
INVARIANTS BoundsAreRight RejectionIsMinimal PrefixCovered PlanIsRight Expressible 
PROPERTIES AlgorithmsEnd
CHECK_DEADLOCK FALSE
