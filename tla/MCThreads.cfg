CONSTANTS
  Threads = {t1, t2, t3}
  None = none
  FULL = 2
  Works = {1, 2}
  nreaders = 2
  nwriters = 2
  arraysize = 2
  reader_preference = FALSE
  MaxThreads = 5
  BOUND = 4
SPECIFICATION Spec
INVARIANTS
  BarriersHold
  WorkAccounted
  SnapshotWhileReading
  SumOfArray
PROPERTIES
  AllThreadsEnd
  WritersNotStarved
CHECK_DEADLOCK FALSE
