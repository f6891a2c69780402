CONSTANTS
  Keys = {k1, k2}
  Merchants = {m1, m2}
  Handlers = {h1, h2}
  Connections = {c1}
  MaxFaults = 2
SPECIFICATION FairSpec
INVARIANTS
  QueriesSeeTheirTenant
PROPERTIES
  KeepsPromise
  RetryIsAnswered
CHECK_DEADLOCK FALSE
