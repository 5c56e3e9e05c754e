CONSTANTS
  Keys = {1, 2, 3, 4}
  LeafCapacity = 2
  MaxChildren = 4
  NodeIds = {1, 2, 3, 4, 5, 6, 7, 8, 9, 10, 11, 12, 13, 14}
  Cursors = {c1}
  Temp = Temp
  None = None
  LoadCounts = {1, 3}
SPECIFICATION Spec
INVARIANTS LoadedAsGiven
