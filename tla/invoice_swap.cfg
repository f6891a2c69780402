CONSTANTS
  Workers = {w1, w2}
  Txs = {}
  Exchanges = {e1}
  Reports = {"confirming", "verifying", "sending", "finished", "refunded"}
  Rails = {"SWAP_PROVIDER"}
  MaxEvents = 4
  MaxFaults = 0
SPECIFICATION OverlapSpec
SYMMETRY WorkerSymmetry
INVARIANTS
  DepositBeforeProgress
  TransitionsHaveCause
PROPERTIES
  KeepsPromise
  SerialUnlessOvertaken
CHECK_DEADLOCK FALSE
