CONSTANTS
  Keys = {0, 1, 3, 4, 5}
  HashRange = 4
  Payloads = {p1, p2}
  BucketCapacity = 1
  RangeRepeat = 1
  RangeMaxPower = 1
  Unused = Unused
  MaxLost = 2
SPECIFICATION Spec
SYMMETRY PayloadSymmetry
INVARIANTS EmptyTableIsReset
