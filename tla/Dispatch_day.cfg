SPECIFICATION Spec
CONSTANTS
  p1 = p1
  p2 = p2
  Proc = {p1, p2}
  NoProc = NoProc
  NoCred = NoCred
  NoCounts = NoCounts
  MaxRequests <- RaisedBudget
  Wait = 2
  Buffer = 1
  Lifetime = 4
  MaxRetry = 3
  MaxDispatches = 8
  MaxStarts = 3
  PolledCleanup = FALSE
  Overlap = FALSE
INVARIANTS IInv CleanupUnimpeded
PROPERTIES BudgetKept Paced BufferSuffices RefusedTokenDropped
