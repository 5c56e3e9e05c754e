CONSTANTS
  RegionSize = 1
  MinChunk = 1
  MaxBlocks = 10
  Arrays = {x, y}
  LinearArrays = {x}
  LinearChunk = 1
  BlockCapacity = 1
  MaxElements = 3
SPECIFICATION Spec
PROPERTIES EveryCallReturns
INVARIANTS MetadataSuffices CountersExact BlocksAccounted ArraysKeepValues
