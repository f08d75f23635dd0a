CONSTANTS
  Client = Client
  Session = Session
  FIN = FIN
  RST = RST
  ClientBytes = 0
  SessionBytes = 2
  Lens = {1, 2}
  Window = 2
  IntMax = 7
  SigPipe = "kills"
SPECIFICATION Spec
INVARIANTS TypeOK StreamOrder SendOutcome FlagMeansPeerGone ZeroMeansTimeoutOrPeer EndOfStream CountIsRead
PROPERTY ImplementsByteStream
CHECK_DEADLOCK FALSE
