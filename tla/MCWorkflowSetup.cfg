CONSTANTS
  MaxPrompts = 2
  MaxProcesses = 2
  MaxFailures = 0
  MaxCrashes = 0
  None = None
  Empty = Empty
SPECIFICATION Spec
INVARIANT SetupResumes
CHECK_DEADLOCK FALSE
