CONSTANTS
  Keys = {k1}
  MaxRepeats = 2
  Dispatchers = {d1,d2}
  MaxAttempts = 2
  MaxTries = 2
  Outcomes = {"ok", "lost", "error", "skipped"}
  MaxFaults = 3
  MaxRetries = 1
SPECIFICATION AgainSpec
INVARIANTS
  DeadOnlyAfterFailures
  GapsAreRepeats
PROPERTIES
  EveryRowSettles
  MerchantIsTold
CHECK_DEADLOCK FALSE
