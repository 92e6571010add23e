SPECIFICATION Spec
CONSTANTS
  Op = {"postOrg","postUser","deleteOrg","deleteUser","patchOrg"}
  NoOp = "none"
  Role <- MCRole
  Producers <- MCProducers
  DeleteOf <- MCDeleteOf
  Target <- MCTarget
  Polled = {}
  Attempts = 1
  MaxIds = 4
  MaxExps = 1
  MaxCrashes = 1
INVARIANTS DependentsFirst
