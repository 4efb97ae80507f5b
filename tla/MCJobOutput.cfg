CONSTANTS
  Leader = sh
  Members = {m1}
  PipeCap = 1
  Limit = 1
  Escapes = FALSE
SPECIFICATION Spec
INVARIANT OutputKept
CHECK_DEADLOCK FALSE
