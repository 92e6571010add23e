SPECIFICATION Spec
CONSTANTS
  Proc = {p1, p2}
  NoProc = NoProc
  MaxEvents = 5
  MaxFaults = 1
  MaxLosses = 0
SYMMETRY Perms
INVARIANTS Durable
CHECK_DEADLOCK FALSE
