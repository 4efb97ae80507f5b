CONSTANTS
  short = short
  old = old
  new = new
  long = long
  Values <- Bundles
  Size <- Lens
  Unit = 2
  MaxChunks = 3
  None = None
SPECIFICATION Spec
INVARIANT TornIsDetected
CHECK_DEADLOCK FALSE
