SPECIFICATION FairSpec
CONSTANTS
  Msg = {m1, m2}
  Copy = {c1, c2, c3, c4, c5, c6}
  Tag = {t1, t2, t3, t4}
  Chan = {g1}
  e1 = e1
  Event = {e1}
  EventOf <- MCEventOf
  Malformed = {}
  MaxRetries = 1
  InitialDelay = 1
  BackoffFactor = 2
  MaxDelay = 5
  Prefetch = 1
  Controls = {"nack", "deadLetter"}
  Undisciplined = FALSE
  LinkFaults = FALSE
  LeakedConnections = FALSE
  None = None
INVARIANT TypeOK
INVARIANT NoDuplicates
INVARIANT AttemptsBounded
INVARIANT AttemptInv
PROPERTY EventuallySettled
CHECK_DEADLOCK FALSE
