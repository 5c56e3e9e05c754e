CONSTANTS
  MaxBlocks = 6
  None = None
  BlockCapacity = 2
  ChunkSize = 3
  NodeCapacity = 2
  Values = {v1, v2}
SPECIFICATION Spec
INVARIANTS TwoNodesBuffered
