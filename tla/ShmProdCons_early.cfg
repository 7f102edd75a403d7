CONSTANTS
  Producers = {0, 1}
  BUF_SIZE = 2
  MaxItems = 2
  AttachEarly = TRUE
  MayKill = FALSE
SPECIFICATION Spec
INVARIANTS
  ReceivedInOrder
CHECK_DEADLOCK FALSE
