SPECIFICATION Spec
CONSTANTS
  Approver = {a1, a2, a3}
  MaxDrops = 1
  NoRow = NoRow
  MaxExperiments = 1
  Call = {c1, c2}
  Browser = {b1}
  Arms = {v1, v2, bad}
  Sound = {v1, v2}
  Opening = {None}
  Closing = {1}
  MaxCalls = 5
  MaxTime = 1
  None = None
SYMMETRY Alike
INVARIANTS
  ApprovalsSettled
  ShownIsSound
  CountedAsShown
CHECK_DEADLOCK FALSE
