CONSTANTS
  Workers = {w1, w2}
  Invoices = {i1, i2, i3}
  Quotes = {1}
  MaxTime = 2
  MaxLapses = 0
  MaxCrashes = 1
SPECIFICATION FairSpec
INVARIANTS
  OpenAmountsDistinct
  SurchargeBounded
PROPERTY LockIsFreed
