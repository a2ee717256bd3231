SPECIFICATION FairSpec
CONSTANTS
  c1 = c1
  c2 = c2
  Clients = {c1, c2}
  Period = 3
  Margin = 1
  MaxConcurrent = 1
  Ttl = 4
  FailClosed = FALSE
  Poll = 1
  MaxTimeout = 1
  MaxDelay = 1
  MaxHold = 2
INVARIANTS
  TypeOK
  NoPhantomPlace
PROPERTIES
  SomebodyServed
