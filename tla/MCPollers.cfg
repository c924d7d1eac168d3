SPECIFICATION Spec
CONSTANTS
  AddrKind <- MCAddrKind
  Systems = {"darwin", "windows"}
  Rows <- MCRows
  Names = {"dns"}
  MaxPerPoll = 1
  MaxMoves = 4
  MaxListFailures = 1
  Apps <- MCApps
  MaxSamples = 4
  MaxWindows = 2
  MaxTime = 2
  e1 = e1
  e2 = e2
  e3 = e3
  Events = {e1, e2, e3}
  Unsupported = {e3}
  Turn = Turn
  MaxTurns = 2
  MaxCrashes = 2
  MaxFailures = 1
INVARIANTS OnlyGapsReannounce OneNamePerAddress WindowsAreExact NeverLost
PROPERTY Delivered
CHECK_DEADLOCK FALSE
