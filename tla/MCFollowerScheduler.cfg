CONSTANTS
  NTxns = 2
  w1 = w1
  w2 = w2
  Workers <- TwoWorkers
  ThreadCounts = {0, 2}
  MaxPutFailures = 0
SPECIFICATION Spec
SYMMETRY WorkerSymmetry
INVARIANTS
  OnlyAssigned
  SchedulerInv
  
CHECK_DEADLOCK FALSE
