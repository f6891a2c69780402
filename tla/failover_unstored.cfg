CONSTANTS
  Providers = {"changenow", "simpleswap"}
  Priority <- ChangeNowFirst
  MinSample = 3
  MaxRows = 3
  MaxFaults = 1
SPECIFICATION Spec
INVARIANT ShownIsStored
CHECK_DEADLOCK FALSE
