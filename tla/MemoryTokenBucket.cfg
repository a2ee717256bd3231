SPECIFICATION FairSpec
CONSTANTS
  t1 = t1
  t2 = t2
  t3 = t3
  Tasks = {t1, t2, t3}
  Algorithm = "token_bucket"
  Interval = 2
  Limit = 1
  Horizon = 2
  MaxConcurrent = 2
INVARIANTS
  TypeOK
  SlotConservation
  MetricExact
  NoIdlePlace
  LockNotStranded
  QueuesExact
PROPERTIES
  ImplementsPromise
  EveryWaiterServed
