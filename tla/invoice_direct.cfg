CONSTANTS
  Workers = {w1, w2}
  Txs = {t1, t2}
  Exchanges = {}
  Reports = {}
  Rails = {"DIRECT_TRANSFER"}
  MaxEvents = 4
  MaxFaults = 2
SPECIFICATION DirectFairSpec
INVARIANTS
  TypeOK
  DepositsAccounted
  Grounded
  CalmDepositCredited
  ExpirySkipsOnlyResolved
PROPERTIES
  KeepsPromise
  WaitEnds
