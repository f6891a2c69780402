CONSTANTS
  Requests = {r1, r2}
  Operators = {o1, o2}
  MaxTokens = 3
  MaxChanges = 2
  MaxFaults = 0
SPECIFICATION Spec
INVARIANT ReuseEndsAll
CHECK_DEADLOCK FALSE
