SPECIFICATION Spec
CONSTANTS
  Msg = {m1}
  Copy = {c1, c2, c3}
  Tag = {t1, t2, t3}
  Chan = {g1, g2}
  e1 = e1
  Event = {e1}
  EventOf <- MCEventOf
  Malformed = {}
  MaxRetries = 1
  InitialDelay = 1
  BackoffFactor = 2
  MaxDelay = 5
  Prefetch = 0
  Controls = {"nack", "requeue", "deadLetter"}
  Undisciplined = FALSE
  LinkFaults = TRUE
  LeakedConnections = FALSE
  None = None
INVARIANT HealthyMeansConsuming
CHECK_DEADLOCK FALSE
