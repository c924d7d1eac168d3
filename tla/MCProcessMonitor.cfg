SPECIFICATION FairSpec
CONSTANTS
  a = a
  b = b
  Pids = {a, b}
  MaxStarts = 1
  ChanCap = 2
  MaxBorn = 3
  MaxExecs = 1
  MaxMissed = 1
INVARIANT SeenIsTold
PROPERTY Reconciles
