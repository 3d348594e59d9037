SPECIFICATION Spec
CONSTANTS
  Msg = {m1}
  Copy = {c1, c2, c3}
  Tag = {t1, t2}
  Chan = {g1, g2}
  e1 = e1
  Event = {e1}
  EventOf <- MCEventOf
  Malformed = {}
  MaxRetries = 2
  InitialDelay = 0
  BackoffFactor = 2
  MaxDelay = 5
  Prefetch = 0
  Controls = {"deadLetter"}
  Undisciplined = TRUE
  LinkFaults = FALSE
  LeakedConnections = TRUE
  None = None
INVARIANT DeliveryInv
INVARIANT NothingLost
INVARIANT RetryCountsFailures
INVARIANT RetryInv
PROPERTY ProviderSpec
CHECK_DEADLOCK FALSE
