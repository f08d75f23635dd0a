CONSTANTS
  Threads = {t1, t2, t3}
  Handles = {h1, h2, h3}
  Sockets = {s1, s2}
  Fds = {f1, f2, f3, f4}
  NoFd = NoFd
  Absent = Absent
  Nobody = Nobody
  RetryOnEINTR = FALSE
  EINTRFromClose = "released"
SYMMETRY Symmetry
SPECIFICATION Spec
INVARIANTS AtMostOneOwner HeldIsOpen OpenIsHeld IInv
PROPERTY ImplementsStrictOwnership
