CONSTANTS
  Clients = {c1, c2}
  LongClient = c1
  MAXTRIES = 1
  PIPE_MSGS = 1
  MaxStarts = 2
SPECIFICATION Spec
INVARIANTS
  OutputIsConverted
  LocaleOfAClientServed
  NoPrivateFifoLeft
PROPERTIES
  SessionsEnd
  NoZombieStays
  MessagesHandled
CHECK_DEADLOCK FALSE
