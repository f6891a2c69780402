CONSTANTS
  Workers = {w1, w2}
  Txs = {t1}
  Exchanges = {}
  Reports = {}
  Rails = {"DIRECT_TRANSFER"}
  MaxEvents = 4
  MaxFaults = 1
SPECIFICATION Spec
INVARIANT SkippedIsResolved
