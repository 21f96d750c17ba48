SPECIFICATION Spec
CONSTANTS
  Text = {x, Quit}
  Quit = Quit
  CR = CR
  LF = LF
  ReadSize = 5
  MaxRecvBuf = 8
  LineLimit = 3
  SizeMax = 15
  MaxSent = 5
  Hazards = {"empty"}
PROPERTIES
  EveryLineIsHandled
CHECK_DEADLOCK FALSE
