CONSTANTS
  Threads = {t1, t2, t3}
  Blocking = {t3}
  Clients = {c1, c2}
  Backlogs = {0, 1}
  Timeout = 2
  Invalid = Invalid
  Signals = TRUE
SPECIFICATION Spec
PROPERTIES GivesUpInVain EveryoneIsServed
INVARIANT WithinTimeout
