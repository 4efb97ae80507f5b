CONSTANTS
  Ttl = 3
  CredTtl = 18
  MaxSleep = 1
  CredSleep = 6
  CallTime = 2
  Retry = 2
  MaxBackoff = 2
  MaxBlock = 1
  Latency = 1
  MaxDown = 2
  MaxOutages = 1
  MaxNow = 8
SPECIFICATION Spec
INVARIANTS
  LocalWithin
  NoLateOperation
  EndsInTime
CHECK_DEADLOCK FALSE
