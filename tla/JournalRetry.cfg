CONSTANTS
  Blocks = {0, 1}
  Sizes = {1, 2}
  Values = {1, 2}
  None = None
  Torn = Torn
  BufferCells = 4
  MaxCells = 14
  TornWrites = "prefix"
  MaxErrors = 1
  Assertions = TRUE
  RetryAfterError = TRUE
SPECIFICATION Spec
INVARIANTS IndexMatchesLog
