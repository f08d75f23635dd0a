CONSTANTS
  Names = {can0, can1}
  NoName = NoName
  LongName = LongName
  MaxIndex = 2
  PtrSize = 4
  Lens = {0, 1, 2}
  QueueLimit = 2
SPECIFICATION Spec
INVARIANT BoundAsAsked
PROPERTIES LostOnlyWithInterface ImplementsDatagramBox ReceiveWakes
CHECK_DEADLOCK FALSE
