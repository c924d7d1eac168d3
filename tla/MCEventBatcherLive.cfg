SPECIFICATION FairSpec
CONSTANTS
  p1 = p1
  p2 = p2
  Producers = {p1}
  Capacities = {2}
  MaxSize = 2
  FlushEvery = 1
  MaxBackoff = 4
  Batch = TRUE
  MaxEvents = 3
  MaxPersistFails = 1
  MaxPostFails = 2
  MaxStarts = 2
PROPERTIES Drains ShutdownFlushEnds
CHECK_DEADLOCK FALSE
