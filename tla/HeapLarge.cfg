CONSTANTS
  Blocks = {1, 2}
  BlockSize = 22
  HeaderSize = 3
  SlotSize = 2
  SizeField = 4
  U32 = 64
  Sizes = {3, 18, 62}
  Values = {v1, v2}
  None = None
SPECIFICATION Spec
INVARIANTS LargeObjectsFit
