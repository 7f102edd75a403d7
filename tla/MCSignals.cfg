CONSTANTS
  Sig = {"INT", "QUIT", "TERM", "HUP", "TSTP", "CONT", "ALRM", "FPE", "USR1", "USR2", "RT0", "RT1", "RT2", "RT3"}
  MaxSent = 2
  MaxFired = 2
  ROUNDS = 2
  FULL = 2
  Capacity = 3
  MaxTyped = 2
  MaxKilled = 3
SPECIFICATION Spec
INVARIANTS
  SignalsCounted
  BarDrawnRight
  OverrunsAddUp
  NothingCutShort
  PipesDeliver
  StatusesTold
PROPERTIES
  ProgramsEnd
CHECK_DEADLOCK FALSE
