SPECIFICATION Spec
CONSTANTS
  p1 = p1
  p2 = p2
  Proc = {p1, p2}
  NoProc = NoProc
  NoCred = NoCred
  NoCounts = NoCounts
  MaxRequests <- SameBudget
  Wait = 0
  Buffer = 1
  Lifetime = 2
  MaxRetry = 0
  MaxDispatches = 6
  MaxStarts = 2
  PolledCleanup = FALSE
  Overlap = TRUE
PROPERTIES BudgetKept
