SPECIFICATION Spec
CONSTANTS
  Text = {x, Quit}
  Quit = Quit
  CR = CR
  LF = LF
  ReadSize = 3
  MaxRecvBuf = 6
  LineLimit = 3
  SizeMax = 15
  MaxSent = 7
  Hazards = {"long", "empty", "spurious"}
INVARIANTS
  BufferIsBounded
  GoodClientsStay
PROPERTIES
  LinesAreHandledInOrder
  LinesAreServed
CHECK_DEADLOCK FALSE
