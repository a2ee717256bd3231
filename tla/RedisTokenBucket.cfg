SPECIFICATION Spec
SYMMETRY Symmetry
CONSTANTS
  c1 = c1
  c2 = c2
  c3 = c3
  Clients = {c1, c2, c3}
  Period = 3
  Margin = 1
  MaxConcurrent = 2
  Ttl = 4
  FailClosed = TRUE
  Poll = 1
  MaxTimeout = 1
  MaxDelay = 1
  MaxHold = 3
INVARIANTS
  CounterExact
PROPERTIES
  ImplementsPromise
