CONSTANTS
  Workers = {w1, w2}
  Invoices = {i1, i2}
  Quotes = {1}
  MaxTime = 2
  MaxLapses = 1
  MaxCrashes = 0
SPECIFICATION Spec
SYMMETRY PoolSymmetry
INVARIANT SlotsNotShared
