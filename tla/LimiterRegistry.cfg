SPECIFICATION Spec
SYMMETRY Symmetry
CONSTANTS
  t1 = t1
  t2 = t2
  a = a
  b = b
  NoId = NoId
  Tasks = {t1, t2}
  Ids = {a, b}
  Templates = {a}
  MaxConcurrent = 1
  FailClosed = {"redis"}
  Reconfigured = {a}
  MaxConfigs = 2
INVARIANTS
  TypeOK
  OneLimiterPerConfiguration
  OperationsCounted
  AskedWhenAnswered
  InitializeIdempotent
PROPERTIES
  AllInitialized
