SPECIFICATION Spec
CONSTANTS
  Approver = {a1}
  MaxDrops = 0
  NoRow = NoRow
  MaxExperiments = 2
  Call = {c1}
  Browser = {b1}
  Arms = {v1, v2, bad}
  Sound = {v1, v2}
  Opening = {1}
  Closing = {None}
  MaxCalls = 4
  MaxTime = 1
  None = None
INVARIANTS
  OneServing
CHECK_DEADLOCK FALSE
