SPECIFICATION Spec
CONSTANTS
  Addr = {}
  Key = {k1, k2}
  UintMax = 1
  UlongMax = 1
  Empty = Empty
  MaxNames = 3
  MaxKeys = 3
INVARIANTS
  TheKeyIsEnough
