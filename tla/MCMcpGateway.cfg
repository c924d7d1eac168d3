SPECIFICATION FairSpec
CONSTANTS
  Policies <- MCPolicies
  Server = "s"
  Tools = {"t", "u"}
  PipeCap = 1
  MaxMsgs = 3
  MaxBad = 1
INVARIANTS BlockedStaysOut AnsweredOnce ReportedFirst
PROPERTIES EveryRequestAnswered EndsAtEof
\* The gateway ends.
CHECK_DEADLOCK FALSE
