CONSTANTS
  NumBlocks = 3
  Values = {v0, v1}
  Zero = v0
  CacheBlocks = 2
  PoolSlack = 1
  ReadOnly = FALSE
  MaxRefs = 2
SPECIFICATION Spec
PROPERTIES MissRespectsLimit
