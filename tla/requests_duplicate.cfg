CONSTANTS
  Keys = {k1}
  Merchants = {m1, m2}
  Handlers = {h1, h2}
  Connections = {c1}
  MaxFaults = 1
SPECIFICATION SameDaySpec
INVARIANT TakesEffectOnce
CHECK_DEADLOCK FALSE
