SPECIFICATION Spec
CONSTANTS
  NoRow = NoRow
  Unbound = Unbound
  None = None
  Principal = {p1, p2}
  Mintable = {p1}
  Secret = {s1, s2}
  Session = {t1, t2}
  Opener = {o1, o2}
  Ttl = 1
  MaxDecisions = 1
  MaxTime = 2
  Request <- MCRequest
  Direct = {3}
  Status = {GRANTED}
  Code = {ads}
  Purpose = {ads}
  Notice = {}
  Discloses <- MCDiscloses
  Claim = {3}
  Skew = 1
  MaxAttempts = 2
INVARIANTS
  ChainUnbroken
  ChargedOnce
  PinBounded
  LostOnlyToABurst
  SessionProvesSecret
PROPERTIES
  ImplementsRegister
SYMMETRY Symmetry
CHECK_DEADLOCK FALSE
