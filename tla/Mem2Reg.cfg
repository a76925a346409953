CONSTANTS
  NumBlocks = 4
  MaxSucc = 2
SPECIFICATION Spec
CHECK_DEADLOCK FALSE
INVARIANTS
  DominanceExact RecordedStoresKept
