CONSTANTS
  standard = standard
  arithmetic = arithmetic
  stop = stop
  Codes <- MCCodes
  CatchLists <- MCCatchLists
  StopExecution <- MCStopExecution
  Tracing = {TRUE}
  MaxDepth = 3
  MaxCleaners = 2
  MaxCalls = 5
SPECIFICATION Spec
CHECK_DEADLOCK FALSE
INVARIANTS
  TypeOK
  JumpTargetsLive
  OwnFrameOnTop
  LaterCleanedFirst
PROPERTIES
  CaughtByType
  NoCleanerSkipped
  ThrowNeverReturns
