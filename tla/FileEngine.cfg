CONSTANTS
  NumBlocks = 3
  Values = {v0, v1}
  Zero = v0
  CacheBlocks = 1
  PoolSlack = 1
  ReadOnly = FALSE
  MaxRefs = 2
SPECIFICATION Spec
INVARIANTS TypeOK CacheStructure ReadYourWrites CleanBlocksMatchFile
