CONSTANTS
    a = a
    b = b
    v = v
    absent = absent
    null = null
    None = None
    Field <- MCField
    State <- MCState
    Absent = absent
    Null = null
    Nested = {}
    InteractionOrder = 2
    Ranked <- MCRanked
    Baselines <- MCEither
    Planned <- PlannedTwo
    Searched <- SearchedB
    Active = TRUE
    Surprising <- SurpriseB
    Cost = 1
    Extra = 1
    ConfirmationReserve = 0
    Settings <- MCSettings
    APIs <- AnyAPI
    Bounds <- MCBounds
SPECIFICATION Spec
INVARIANTS IInv CompleteIsEarned NoCounterexample
PROPERTIES ProbedOnce ReserveKept SessionAdvances
