SPECIFICATION Spec
CONSTANTS
  Fds = {f1}
  Listener = Listener
  Reply = 1
  Room = 1
  MaxLines = 1
  Watched = {f1}
  Hazards = {"signal"}
PROPERTIES
  SignalStopsServer
