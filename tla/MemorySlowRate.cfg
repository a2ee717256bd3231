SPECIFICATION Spec
CONSTANTS
  t1 = t1
  t2 = t2
  Tasks = {t1, t2}
  Algorithm = "token_bucket"
  Interval = 5
  Limit = 1
  Horizon = 3
  MaxConcurrent = 1
INVARIANTS
  RateRespected
