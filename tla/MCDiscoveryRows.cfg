SPECIFICATION RowsSpec
CONSTANTS
  NoValue = NoValue
  Site = {"a"}
  Approved <- MCApproved
  Purpose = {"m"}
  Host <- MCTag
  Tag <- MCTag
  CalledBy <- MCCalledBy
  PurposeOf <- MCPurposeOf
  ApiHost <- MCApiHost
  Call = {c1}
  MaxInits = 0
  MaxWatches = 1
  MaxSeen = 1
  MaxSending = 1
  MaxRows = 2
INVARIANT OneRowEach
CHECK_DEADLOCK FALSE
