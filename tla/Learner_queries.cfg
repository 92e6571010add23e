CONSTANTS
    a = a
    b = b
    v = v
    absent = absent
    null = null
    Rules <- MCRules
    Inputs <- MCInputs
    Satisfies <- MCSatisfies
    Planned <- MCPlanned
    MaxInconclusive = 1
SPECIFICATION Spec
INVARIANTS Inv ConvergedIsRight
PROPERTIES QueryTeaches Settles
CHECK_DEADLOCK FALSE
