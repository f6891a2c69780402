CONSTANTS
  Providers = {"changenow", "simpleswap"}
  Priority <- ChangeNowFirst
  MinSample = 3
  MaxRows = 3
  MaxFaults = 0
SPECIFICATION Spec
INVARIANT FrozenIsDemoted
CHECK_DEADLOCK FALSE
