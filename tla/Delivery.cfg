SPECIFICATION Spec
CONSTANTS
  Fds = {f1, f2}
  Listener = Listener
  Reply = 1
  Room = 1
  MaxLines = 2
  Watched = {f1}
  Hazards = {"failure", "close", "reset", "quit", "pressure", "signal"}
INVARIANTS
  OpenArePolled
  PolloutWhilePending
  NothingLeftOpen
PROPERTIES
  MarkedForCause
  RepliesArrive
  LinesAreRead
  ResetConnectionsGo
  ClosedConnectionsGo
  StopsWithNextEvent
