SPECIFICATION Spec
CONSTANTS
  Starter = {a, b}
  Stopper = {s}
  MaxRuns = 2
INVARIANTS AliveIsKnown AliveIsRecorded WokenAfterTheEnd ClosedOnce
PROPERTIES DeadIsNoticed StopReturns
