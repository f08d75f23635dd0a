CONSTANTS
  Client = Client
  Session = Session
  FIN = FIN
  RST = RST
  ClientBytes = 0
  SessionBytes = 2
  Lens = {2}
  Window = 1
  IntMax = 7
  SigPipe = "ignored"
SPECIFICATION Spec
PROPERTIES ReceiveWakes TimedReceiveReturns
CHECK_DEADLOCK FALSE
