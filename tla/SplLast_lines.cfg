CONSTANTS
  Terminals = {l1}
  NoLine = none
  MaxRecords = 4
  show_sys_events = TRUE
SPECIFICATION Spec
INVARIANTS
  OneLinePerLogin
CHECK_DEADLOCK FALSE
