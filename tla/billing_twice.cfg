CONSTANTS
  Requests = {q1}
  Runs = {r1}
  Subs = {s1}
  Emails = {e1}
  Terms <- Monthly
  Start <- January31
  Horizon <- March31
  Batch = 1
  MaxTrouble = 1
SPECIFICATION Spec
INVARIANT PeriodInvoicedOnce
CHECK_DEADLOCK FALSE
