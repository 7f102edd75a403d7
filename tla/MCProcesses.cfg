CONSTANTS
  ROUNDS = 20
  DATA_LEN = 20
  CHUNKSIZE = 8
  LoggerClients = {u1, u2, u3}
  MAX_USERS = 2
  MAXMSG = 2
  ROWS = 3
  Producers = {0, 1}
  BUF_SIZE = 2
  MaxItems = 3
  AttachEarly = FALSE
  MayKill = TRUE
  ITERATIONS = 2
  CHUNKS = 2
SPECIFICATION Spec
INVARIANTS
  TypeOK
  SlotsConserved
  OrderKept
PROPERTIES
  ImplementsBoundedBuffer
  ScreenCatchesUp
  EndsInTime
CHECK_DEADLOCK FALSE
