CONSTANTS
  Workers = {w1, w2}
  Txs = {}
  Exchanges = {e1}
  Reports = {"confirming", "sending", "finished"}
  Rails = {"SWAP_PROVIDER"}
  MaxEvents = 6
  MaxFaults = 0
SPECIFICATION Spec
SYMMETRY WorkerSymmetry
PROPERTY TerminalStatesRest
CHECK_DEADLOCK FALSE
