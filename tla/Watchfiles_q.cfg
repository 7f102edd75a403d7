CONSTANTS
  numfiles = 2
  nochange_limit = 2
  MaxSize = 1
  MaxChanges = 1
SPECIFICATION FairSpec
PROPERTIES
  QuitsOnQ
CHECK_DEADLOCK FALSE
