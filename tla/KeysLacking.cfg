SPECIFICATION Spec
CONSTANTS
  Addr = {}
  Key = {k1, k2}
  UintMax = 1
  UlongMax = 1
  Empty = Empty
  MaxNames = 2
  MaxKeys = 2
INVARIANTS
  OnlyWithTheKey
