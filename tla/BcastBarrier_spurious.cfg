CONSTANTS
  Threads = {t1, t2, t3}
  None = none
SPECIFICATION SpuriousSpec
INVARIANTS
  AllArrived
CHECK_DEADLOCK FALSE
