CONSTANTS
  t1 = t1
  t2 = t2
  t3 = t3
  h1 = h1
  h2 = h2
  h3 = h3
  s1 = s1
  s2 = s2
  NONE = NONE
  Creator = t1
  First = h1
  Threads <- ThreeThreads
  Handles <- ThreeHandles
  Slots <- TwoSlots
SYMMETRY Symmetric
SPECIFICATION Spec
CHECK_DEADLOCK FALSE
INVARIANTS OnlyOvertakenLoadsDangle NoLeak
