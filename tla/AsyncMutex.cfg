CONSTANTS
  NONE = NONE
  Clients = {k1, k2, k3}
  MaxRequests = 6
SPECIFICATION Spec
CHECK_DEADLOCK FALSE
INVARIANTS MutualExclusion GrantedInOrder
PROPERTY EveryoneGetsIn
