SPECIFICATION QueuesSpec
CONSTANTS
  Page = {t1}
  MaxBatch = 2
  MaxPersisted = 2
  MaxAttempts = 1
  MaxEvents = 3
  MaxLoads = 2
  MaxDecisions = 1
  MaxStray = 1
  Nobody = Nobody
  Scan = {1, 2}
  Worker = {w1, w2}
  Bounded = {w2}
  Canceller = {c1}
  MaxScans = 1
  MaxClaimFailures = 1
  MaxPages = 1
  Concurrency = 2
  PageCap = 1
  MaxFaults = 1
  None = None
INVARIANTS
  DrainScheduled
  KeepsWhatItTook
  RetriesBounded
  SessionMatchesEvents
PROPERTIES
  QueueEmpties
  QueueDrains
  EveryScanEnds
CHECK_DEADLOCK FALSE
