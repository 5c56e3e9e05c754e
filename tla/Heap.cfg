CONSTANTS
  Blocks = {1, 2}
  BlockSize = 22
  HeaderSize = 3
  SlotSize = 2
  SizeField = 1
  U32 = 256
  Sizes = {3, 5, 18, 22}
  Values = {v1, v2}
  None = None
SPECIFICATION Spec
SYMMETRY ValueSymmetry
INVARIANTS PagesWellFormed ObjectsIntact CountersMatch FreeMapExact
CHECK_DEADLOCK FALSE
