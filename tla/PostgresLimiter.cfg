SPECIFICATION ViewSpec
SYMMETRY Symmetry
CONSTANTS
  c1 = c1
  c2 = c2
  Clients = {c1, c2}
  None = None
  Algorithms = {"token_bucket", "sliding_window"}
  PoolSizes = {1, 2}
  Period = 3
  Margin = 0
  Limit = 2
  Window = 2
  MaxConcurrent = 1
  Poll = 1
  MaxTimeout = 1
  MaxDelay = 1
  MaxWait = 2
INVARIANTS
  TypeOK
  RateRespected
  CounterExact
  NoPhantomPlace
  NoCircularWait
  AllowedWasFree
PROPERTIES
  KeepsPromise
