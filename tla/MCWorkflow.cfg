CONSTANTS
  MaxPrompts = 3
  MaxProcesses = 5
  MaxFailures = 1
  MaxCrashes = 2
  None = None
  Empty = Empty
SPECIFICATION Spec
INVARIANT OneTurnPerPrompt
PROPERTIES
  NoStartOverLeftovers
  OwnClaim
CHECK_DEADLOCK FALSE
