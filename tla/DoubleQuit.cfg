SPECIFICATION Spec
CONSTANTS
  a1 = a1
  a2 = a2
  a3 = a3
  n1 = n1
  n2 = n2
  n3 = n3
  Addr = {a1, a2}
  Fds = {4, 5}
  Nick = {n1, n2}
  ChanName = {c1}
  Key = {}
  Empty = Empty
  NULL = NULL
  Lower <- DistinctLower
  UintMax = 1
  UlongMax = 2
  LimitArg = {}
  Commands = {"PASS", "NICK", "USER", "QUIT"}
  ModeChars = {}
  Hazards = {"pipeline"}
  MaxModes = 1
  MaxTargets = 1
  MaxMarks = 2
SYMMETRY FullSymmetry
PROPERTIES
  RemovalKeepsServing
