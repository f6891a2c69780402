CONSTANTS
  Providers = {"changenow", "simpleswap"}
  Priority <- ChangeNowFirst
  MinSample = 3
  MaxRows = 3
  MaxFaults = 2
SPECIFICATION Spec
INVARIANTS
  ShownIsWhole
  FailsOver
CHECK_DEADLOCK FALSE
