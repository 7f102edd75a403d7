CONSTANTS
  Terminals = {l1, l2}
  NoLine = none
  MaxRecords = 4
  show_sys_events = TRUE
  Items = {1, 2, 5, 13, 21, 34}
  WORD = 6
  Hash_Constant = 38
  initial_size = 3
  numfiles = 2
  nochange_limit = 2
  MaxSize = 1
  MaxChanges = 1
  NUM_CHILDREN = 3
  MaxStops = 2
  MaxLength = 5
  BUFFER_SIZE = 2
  MaxPid = 4
  AtStart = {1, 2, 3}
  Spaced = {4}
  hz = 10
  MaxEvents = 2
  Reach = 1
  Rates = {0, 300, 230400, 9}
  Characters = {0, 3, 26, 97}
  MaxCommands = 2
  MaxNodes = 5
  MAXDEPTH = 4
  Inodes = {2, 3}
  MaxDirs = 4
  MaxFront = 5
  MaxMoves = 1
  TOP_ROW = 2
  numrows = 4
  numcols = 2
  MaxKeys = 2
  LineSize = 5
SPECIFICATION Spec
INVARIANTS
  SessionsMatched
  IsTheSet
  HandlersSafe
  TreesWalked
  ProcessesListed
  ScreensRight
PROPERTIES
  EndsInTime
  CopyCompletes
CHECK_DEADLOCK FALSE
