CONSTANTS
  Commands <- SomeCommands
  Carts <- SomeCarts
  MaxTxns = 2
  MaxBlocks = 2
  MaxCrashes = 1
  MaxSends <- SomeSends
SPECIFICATION Spec
INVARIANTS
  OneBlockEach
  NothingSkipped
  
  
  PoolDeclared

  
CHECK_DEADLOCK FALSE
