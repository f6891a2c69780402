CONSTANTS
  Keys = {k1}
  MaxRepeats = 2
  Dispatchers = {d1}
  MaxAttempts = 2
  MaxTries = 2
  Outcomes = {"ok", "lost", "error", "skipped"}
  MaxFaults = 0
  MaxRetries = 0
SPECIFICATION Spec
INVARIANT NoSilentGap
