SPECIFICATION QueueSpec
CONSTANTS
  Scan = {1, 2}
  Worker = {w1, w2}
  Bounded = {w2}
  Canceller = {c1}
  MaxScans = 1
  MaxClaimFailures = 1
  MaxPages = 2
  Concurrency = 2
  PageCap = 1
  MaxFaults = 0
  None = None
PROPERTIES
  CancelledStays
CHECK_DEADLOCK FALSE
