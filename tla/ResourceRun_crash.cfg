SPECIFICATION Spec
CONSTANTS
  Op = {"postFolder","postFile","deleteItem","patchFolder"}
  NoOp = "none"
  Role <- SharedRole
  Producers <- SharedProducers
  DeleteOf <- SharedDeleteOf
  Target <- SharedTarget
  Polled = {"postFile","deleteItem"}
  Attempts = 1
  MaxIds = 4
  MaxExps = 1
  MaxCrashes = 1
INVARIANTS KInv NothingLost NothingForgotten OnlyConfirmedDeleted RecordedDependentsFirst
PROPERTIES ImplementsCustody
