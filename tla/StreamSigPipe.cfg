CONSTANTS
  Client = Client
  Session = Session
  FIN = FIN
  RST = RST
  ClientBytes = 1
  SessionBytes = 1
  Lens = {1}
  Window = 2
  IntMax = 7
  SigPipe = "kills"
SPECIFICATION Spec
INVARIANT SendThrows
CHECK_DEADLOCK FALSE
