SPECIFICATION FairSpec
CONSTANTS
  a = a
  b = b
  e1 = e1
  e2 = e2
  Worker = {a, b}
  Event = {e1, e2}
  Call = {c1, c2, c3}
  Chan = {g1, g2, g3}
  OfA = 1
  OfB = 0
  Prefetch <- MCPrefetch
  Handlers <- MCHandlers
  Changing <- MCChanging
  AutoDelete = {b}
  Overlapping = {b}
  exchange = exchange
  None = None
INVARIANT TypeOK
INVARIANT NeverRefused
INVARIANT StoppedMeansStopped
INVARIANT HandlersBound
PROPERTY CallsSettle
PROPERTY ProviderSpec
CHECK_DEADLOCK FALSE
