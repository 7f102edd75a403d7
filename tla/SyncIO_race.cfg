CONSTANTS
  ROUNDS = 3
  DATA_LEN = 20
  CHUNKSIZE = 8
SPECIFICATION Spec
INVARIANTS
  NobodyWaitsForEver
CHECK_DEADLOCK FALSE
