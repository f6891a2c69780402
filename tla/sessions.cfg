CONSTANTS
  Requests = {r1, r2}
  Operators = {o1, o2}
  MaxTokens = 3
  MaxChanges = 2
  MaxFaults = 1
SPECIFICATION Spec
SYMMETRY Alike
INVARIANTS
  OneSessionPerBranch
  RevokedFamilyEnds
  SuspendedGetsNothing
  AuditTrailReplays
CHECK_DEADLOCK FALSE
