CONSTANTS
  Tools = {bash}
  Runs = {r1, r2}
  EventCap = 2
  OutCap = 1
  NetCap = 1
  MaxPages = 2
  MaxDeliveries = 2
  None = None
SPECIFICATION FairSpec
INVARIANTS
  AcceptedIsRecorded
  OneOutstanding
  NewestPage
PROPERTIES
  EndedCloses
  DeliveryEnds
CHECK_DEADLOCK FALSE
