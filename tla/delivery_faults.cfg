SPECIFICATION Spec
CONSTANTS
  Msg = {m1, m2}
  Copy = {c1, c2, c3}
  Tag = {t1, t2}
  Chan = {g1, g2}
  e1 = e1
  Event = {e1}
  EventOf <- MCEventOf
  Malformed = {m2}
  MaxRetries = 1
  InitialDelay = 1
  BackoffFactor = 2
  MaxDelay = 5
  Prefetch = 0
  Controls = {"requeue", "deadLetter"}
  Undisciplined = FALSE
  LinkFaults = TRUE
  LeakedConnections = FALSE
  None = None
INVARIANT ConnectionInv
INVARIANT OnlyThrowsLose
INVARIANT DeadLettersJustified
INVARIANT NoProtocolError
INVARIANT AnswerInv
PROPERTY AtLeastOnceSpec
CHECK_DEADLOCK FALSE
