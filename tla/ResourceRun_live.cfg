SPECIFICATION FairSpec
CONSTANTS
  Op = {"postOrg","postUser","deleteOrg","deleteUser","patchOrg"}
  NoOp = "none"
  Role <- MCRole
  Producers <- MCProducers
  DeleteOf <- MCDeleteOf
  Target <- MCTarget
  Polled = {"postUser","deleteOrg"}
  Attempts = 2
  MaxIds = 4
  MaxExps = 1
  MaxCrashes = 0
INVARIANTS AttemptsBounded CleanStart
PROPERTIES CompleteIsClean ProcessesEnd
