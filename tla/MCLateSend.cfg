SPECIFICATION FairSpec
CONSTANTS
  Page = {t1}
  MaxBatch = 2
  MaxPersisted = 2
  MaxAttempts = 1
  MaxEvents = 2
  MaxLoads = 1
  MaxDecisions = 1
  MaxStray = 1
  Nobody = Nobody
PROPERTIES
  SentWithConsent
CHECK_DEADLOCK FALSE
