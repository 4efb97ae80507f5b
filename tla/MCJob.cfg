CONSTANTS
  Leader = sh
  Members = {m1}
  PipeCap = 2
  Limit = 1
  Escapes = TRUE
SPECIFICATION FairSpec
INVARIANTS
  SignalsOwnGroup
  EndedIsOver
  ExitIsDrained
  CleanedIsGone
PROPERTIES
  SeenExitIsNoTimeout
  WaitSeesExit
  DeadlineKills
  WaitReturns
CHECK_DEADLOCK FALSE
