CONSTANTS
  Clients = {c1}
  LongClient = c1
  MAXTRIES = 1
  PIPE_MSGS = 1
  MaxStarts = 2
SPECIFICATION Spec
PROPERTY PublicFifoRemoved
CHECK_DEADLOCK FALSE
