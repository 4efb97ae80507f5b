CONSTANTS
  Watchers <- Both
  Bytes = 4
  Chunk = 2
  Carry = 2
  None = None
SPECIFICATION FairSpec
INVARIANTS
  NoMissedMatch
  TieKept
PROPERTIES
  MatchEnds
CHECK_DEADLOCK FALSE
