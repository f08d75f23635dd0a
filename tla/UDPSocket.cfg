CONSTANTS
  Threads = {t1}
  Peers = {p1, p2}
  Nobody = Nobody
  Sizes = {2}
  Lens = {1}
  QueueLimit = 2
SPECIFICATION Spec
INVARIANTS TypeOK AnsweredAtOnce
PROPERTIES NoDatagramMissed ImplementsDatagramBox TimedReceiveReturns
