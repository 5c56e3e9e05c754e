CONSTANTS
  NumBlocks = 2
  Values = {v0, v1}
  Zero = v0
  CacheBlocks = 0
  PoolSlack = 0
  ReadOnly = FALSE
  MaxRefs = 1
  None = None
  Torn = Torn
  GrowOnlyCommits = TRUE
  MaxErrors = 0
SPECIFICATION Spec
INVARIANTS SizeConsistentWithJournal
