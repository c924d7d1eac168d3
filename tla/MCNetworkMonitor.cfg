SPECIFICATION MCSpec
CONSTANTS
  office = office
  home = home
  busy = busy
  Hosts = {office, home, busy}
  Reading <- MCReading
  None = None
  c1 = c1
  c2 = c2
  Callbacks = {c1, c2}
  Main = Main
  Free = Free
  SignalCap = 1
  OutCap = 1
  MaxChanges = 2
  MaxFailures = 1
INVARIANT PanicNeedsLateCallback
PROPERTIES StopsOnCancel SummaryConverges
CHECK_DEADLOCK FALSE
