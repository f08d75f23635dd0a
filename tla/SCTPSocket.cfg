CONSTANTS
  Hosts = {a1, a2, a3}
  Sizes = {1, 2, 3}
  QueueLimit = 2
SPECIFICATION Spec
INVARIANTS FlagMeansPeerShut AnsweredAtOnce
PROPERTIES ThrowSentNothing AllOrNothing
CHECK_DEADLOCK FALSE
