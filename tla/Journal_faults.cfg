SPECIFICATION Spec
CONSTANTS
  Proc = {p1, p2}
  NoProc = NoProc
  MaxEvents = 5
  MaxFaults = 2
  MaxLosses = 2
SYMMETRY Perms
INVARIANTS JInv CleanKept
CHECK_DEADLOCK FALSE
PROPERTIES ImplementsEventLog
