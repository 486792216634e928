SPECIFICATION Spec
CONSTANTS
  Tab = {a}
  Call = {c1, c2}
  MaxPrincipals = 2
  MaxSessions = 3
  MaxLoads = 2
  MaxReads = 1
  None = None
SYMMETRY Alike
INVARIANTS
  OneVoice
  OnceEach
  CurrentWhenAlone
  NobodyWaitsForNothing
CHECK_DEADLOCK FALSE
