SPECIFICATION Spec
CONSTANTS
  None = None
  Principal = {p1}
  Purpose = {ads}
  Status <- MCStatus
  Recipient = {r1, r2}
  Active = {r1}
  Authoriser = {a1, a2}
  Submitter = {s1, s2}
  Collector = {c1, c2}
  Ttl = 1
  Skew = 1
  MaxTime = 1
  MaxDecisions = 2
SYMMETRY Interchangeable
INVARIANTS
  OneTransferEach
  AnswersStand
  NotAfterWithdrawal
PROPERTIES
  DeliveredOnce
  ImplementsSingleUse
CHECK_DEADLOCK FALSE
