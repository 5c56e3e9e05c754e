CONSTANTS
  NodeCapacity = 1
  Cursors = {}
  MaxSize = 3
SPECIFICATION Spec
INVARIANTS EndsHoldValues
