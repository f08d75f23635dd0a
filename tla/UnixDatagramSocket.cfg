CONSTANTS
  Sockets = {s1, s2}
  Paths = {p1}
  Unnamed = Unnamed
  Nobody = Nobody
  Dead = Dead
  File = File
  QueueLimit = 1
SYMMETRY Symmetry
SPECIFICATION Spec
INVARIANT TypeOK
PROPERTIES PathIsKept FlagHasReason LostOnlyIfUnnamed
CHECK_DEADLOCK FALSE
