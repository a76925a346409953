CONSTANTS
  Settlers = {s1, s2, s3}
  Kinds <- AllKinds
  Delayed = TRUE
SPECIFICATION Spec
CHECK_DEADLOCK FALSE
INVARIANTS NoLostWakeupInOrder RejectionSurfaces
PROPERTIES FirstSettlementStands AwaitReturns
