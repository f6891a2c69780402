CONSTANTS
  Workers = {w1}
  Txs = {}
  Exchanges = {e1}
  Reports = {"confirming", "exchanging", "sending", "finished"}
  Rails = {"SWAP_PROVIDER"}
  MaxEvents = 6
  MaxFaults = 0
SPECIFICATION SweepFairSpec
PROPERTY SweeperCatchesUp
CHECK_DEADLOCK FALSE
