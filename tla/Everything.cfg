SPECIFICATION Spec
CONSTANTS
  a1 = a1
  a2 = a2
  a3 = a3
  n1 = n1
  n2 = n2
  n3 = n3
  Addr = {a1, a2}
  Fds = {4, 5}
  Nick = {n1, n2}
  ChanName = {c1}
  Key = {k1}
  Empty = Empty
  NULL = NULL
  Lower <- SharedLower
  UintMax = 2
  UlongMax = 3
  LimitArg = {0, 1, 2, 3}
  Commands = {"PASS", "NICK", "USER", "JOIN", "PART", "KICK", "QUIT", "PRIVMSG", "NAMES", "TOPIC", "INVITE", "OTHER", "MODE"}
  ModeChars = {"i", "k", "l", "o", "?"}
  Hazards = {"eof", "reset", "overrun", "sendfail", "sendblock", "pipeline", "inviteUnknown", "emptyBegin"}
  MaxModes = 1
  MaxTargets = 2
  MaxMarks = 2
SYMMETRY FullSymmetry
INVARIANTS
  IndInv
  PollfdsMatchClients
  NoDanglingChannel
  ChannelsAreInhabited
  OperatorsAreUsers
  NicknamesAreUnique
PROPERTIES
  EntrantsHaveRegistered
  JoinHonoursLimitAndInvite
