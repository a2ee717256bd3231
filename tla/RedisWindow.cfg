SPECIFICATION ViewSpec
SYMMETRY Symmetry
CONSTANTS
  c1 = c1
  c2 = c2
  Clients = {c1, c2}
  Engines = {"redis", "redis_sliding_window"}
  Limit = 2
  Window = 3
  MaxConcurrent = 1
  Ttl = 4
  Poll = 1
  Recheck = 1
  MaxTimeout = 1
  MaxDelay = 1
  MaxHold = 2
INVARIANTS
  TypeOK
  RateRespected
  CounterExact
  NoPhantomPlace
  AllowedWasFree
PROPERTIES
  KeepsPromise
