CONSTANTS
  numProducers = 2
  numConsumers = 2
  BUFFER_SIZE = 2
  MaxItems = 3
  SpuriousWakeups = TRUE
SPECIFICATION MCSpec
INVARIANTS
  TypeOK
  CompleteAtExit
  CountsExact
  LastProducerDrains
PROPERTIES
  ImplementsBoundedBuffer
  KeepsMoving
  MainExits
