CONSTANTS
  Workers = {w1, w2}
  Txs = {t1}
  Exchanges = {}
  Reports = {}
  Rails = {"DIRECT_TRANSFER"}
  MaxEvents = 4
  MaxFaults = 0
SPECIFICATION AllJobsFairSpec
PROPERTY DepositsGetRecorded
