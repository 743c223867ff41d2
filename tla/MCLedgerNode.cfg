CONSTANTS
  SetupBlocks <- Setups
  TestBlocks <- Tests
  NThreads = 3
  NBlocks = 3
SPECIFICATION LedgerSpec
INVARIANTS
  SerialEquivalence
  Isolated
  NeverBlocked
  LedgerInv
PROPERTIES
  WholeBlocks
CHECK_DEADLOCK FALSE
