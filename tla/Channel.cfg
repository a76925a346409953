CONSTANTS
  Threads = {t1, t2}
  Capacity = 2
  MaxCalls = 5
SPECIFICATION Spec
CHECK_DEADLOCK FALSE
INVARIANTS NoStarvedPair ClosedLeavesNobody ExactlyOnce
PROPERTIES ImplementsBounded CallsReturn
