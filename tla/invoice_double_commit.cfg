CONSTANTS
  Workers = {w1, w2}
  Txs = {}
  Exchanges = {e1}
  Reports = {"confirming", "verifying"}
  Rails = {"SWAP_PROVIDER"}
  MaxEvents = 4
  MaxFaults = 0
SPECIFICATION Spec
SYMMETRY WorkerSymmetry
PROPERTY NotifiedIffChanged
CHECK_DEADLOCK FALSE
