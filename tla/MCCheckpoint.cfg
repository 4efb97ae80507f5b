CONSTANTS
  Files = {f1, f2}
  Policies <- Rules
  Workers = {w1, w2, w3}
  MaxRuns = 2
  MaxTries = 2
  None = None
SPECIFICATION Spec
INVARIANTS
  SavedIsWhole
  SavedUnderPolicy
PROPERTIES
  RefusedByStale
CHECK_DEADLOCK FALSE
