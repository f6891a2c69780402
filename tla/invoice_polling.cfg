CONSTANTS
  Workers = {w1}
  Txs = {}
  Exchanges = {e1}
  Reports = {"confirming", "exchanging", "sending", "finished", "failed", "refunded"}
  Rails = {"SWAP_PROVIDER"}
  MaxEvents = 6
  MaxFaults = 1
SPECIFICATION SweepFairSpec
PROPERTY SweeperAdvances
CHECK_DEADLOCK FALSE
