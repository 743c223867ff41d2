CONSTANTS
  NTxns = 5
  MemberIds = {1, 2}
SPECIFICATION Spec
INVARIANTS
  ForestInv
  RootsMatch
  TableInv
CHECK_DEADLOCK FALSE
