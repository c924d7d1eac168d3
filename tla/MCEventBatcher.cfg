SPECIFICATION Spec
CONSTANTS
  p1 = p1
  p2 = p2
  Producers = {p1, p2}
  Capacities = {2, 3}
  MaxSize = 2
  FlushEvery = 1
  MaxBackoff = 2
  Batch = FALSE
  MaxEvents = 4
  MaxPersistFails = 1
  MaxPostFails = 1
  MaxStarts = 3
SYMMETRY Symmetry
INVARIANTS EveryLossCounted BatchInFlight PendingIsDurable NoLostWakeup BackoffFollowsFailures
PROPERTIES FirstDeliveryInOrder ImplementsOutbox
CHECK_DEADLOCK FALSE
