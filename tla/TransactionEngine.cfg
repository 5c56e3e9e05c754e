CONSTANTS
  NumBlocks = 2
  Values = {v0, v1}
  Zero = v0
  CacheBlocks = 0
  PoolSlack = 0
  ReadOnly = FALSE
  MaxRefs = 2
  None = None
  Torn = Torn
  GrowOnlyCommits = FALSE
  MaxErrors = 1
SPECIFICATION Spec
INVARIANTS CacheStructure PinCounterExact SizeConsistentWithJournal UnsyncedBlocksAreLogged
PROPERTIES ImplementsTransactionalStore
