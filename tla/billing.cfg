CONSTANTS
  Requests = {q1, q2}
  Runs = {r1, r2}
  Subs = {s1, s2}
  Emails = {e1}
  Terms <- Monthly
  Start <- January31
  Horizon <- March31
  Batch = 1
  MaxTrouble = 1
SPECIFICATION FairSpec
INVARIANTS
  NoPeriodSkipped
  NoMonthSkipped
  OncePerPeriod
  NoSecondSubscription
  CanceledIsLeftAlone
PROPERTY CursorCatchesUp
CHECK_DEADLOCK FALSE
