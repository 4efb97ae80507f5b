CONSTANTS
  Leader = sh
  Members = {m1}
  PipeCap = 1
  Limit = 1
  Escapes = TRUE
SPECIFICATION FairSpec
PROPERTIES
  BashReturns
CHECK_DEADLOCK FALSE
