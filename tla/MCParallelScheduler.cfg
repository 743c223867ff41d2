CONSTANTS
  NTxns = 3
  w1 = w1
  w2 = w2
  w3 = w3
  Threads = {w1, w2, w3}
SPECIFICATION FairSpec
INVARIANTS
  TypeOK
  AtMostOnce
  ConflictOrder
  InDegreeAccounting
  FlushComplete
  StopBound
PROPERTIES
  Termination
  ImplementsExecution
CHECK_DEADLOCK FALSE
