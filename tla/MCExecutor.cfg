CONSTANTS
  Keys = {k1, k2, k3}
  Receipts = {r1}
  MaxInFlight = 2
  MaxRefusals = 2
  MaxServes = 2
  None = None
SPECIFICATION FairSpec
INVARIANTS
  EveryIssueInHand
  QueueOnlyWhenFull
  DoubtNeverStarted
  DoneIsSettled
PROPERTIES
  Implements
  KeepsLedger
  IssuesAnswered
  DrainEnds
CHECK_DEADLOCK FALSE
