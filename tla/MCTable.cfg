SPECIFICATION Spec
CONSTANTS
  a1 = a1  a2 = a2  b = b  c = c  v = v  w = w  n1 = n1  n2 = n2  n3 = n3
  Boxes <- MCBoxes
  Values <- MCValues
  Content <- MCContent
  ByContent <- MCByContent
  Hash <- MCHash
  Capacity = 2
  Nodes <- MCNodes
  NULL = NULL
  MaxRefs = 2
INVARIANTS RefsCoverEntries LoopSeesOrder
PROPERTY ImplementsOrderedMap
SYMMETRY Interchangeable
