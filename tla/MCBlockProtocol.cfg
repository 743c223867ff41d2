CONSTANTS
  NMembers = 3
  LeaderId = 0
  Blocks <- MayFail
  Orders <- Swapped3
  Modes <- BothModes
  NBlocks = 2
  MaxCrashes = 1
SPECIFICATION Spec
INVARIANTS
  DoneUnlessReassigned
  OneWriter
  DecisionInv
CHECK_DEADLOCK FALSE
