SPECIFICATION Spec
SYMMETRY Symmetry
CONSTANTS
  t1 = t1
  t2 = t2
  t3 = t3
  t4 = t4
  Tasks = {t1, t2, t3, t4}
  Algorithm = "sliding_window"
  Interval = 1
  Limit = 2
  Horizon = 3
  MaxConcurrent = 2
INVARIANTS
  RefusedMeansBusy
PROPERTIES
  ImplementsPromise
