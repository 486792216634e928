SPECIFICATION ReportsSpec
CONSTANTS
  NoValue = NoValue
  Site = {"a", "b"}
  Approved <- MCApproved
  Purpose = {"m"}
  Host <- MCHost
  Tag <- MCTag
  CalledBy <- MCCalledBy
  PurposeOf <- MCPurposeOf
  ApiHost <- MCApiHost
  Call = {c1, c2}
  MaxInits = 2
  MaxWatches = 2
  MaxSeen = 1
  MaxSending = 1
INVARIANTS
  EnforcesItsPolicy
  EnforcementRestores
  EvidenceSound
CHECK_DEADLOCK FALSE
