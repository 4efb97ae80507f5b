CONSTANTS
  Keys = {k1}
  Requests = {q1, q2}
  Receipts = {r1, r2}
  Handles = {h1}
  Identities = {a, b}
  Instances = {i1, i2, i3}
  MaxEpoch = 3
  None = None
  TeardownVerified = TRUE
SPECIFICATION HSpec
INVARIANTS
  TypeOK
  CrashSafe
  MemoryIsDurable
  LatestOwner
  CleanMeansQuiet
PROPERTIES
  Implements
  KeepsLedger
CHECK_DEADLOCK FALSE
