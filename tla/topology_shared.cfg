SPECIFICATION FairSpec
CONSTANTS
  m1 = m1
  quick = quick
  slow = slow
  direct = direct
  shared = shared
  own = own
  Worker = {quick, slow, direct}
  Msg = {m1, m2}
  Event = {shared, own}
  EventOf <- MCEventOf
  Events <- MCEvents
  MaxRetries <- MCMaxRetries
  InitialDelay <- MCInitialDelay
  BackoffFactor <- MCBackoffFactor
  MaxDelay <- MCMaxDelay
INVARIANT TypeOK
INVARIANT EachWorkerServed
INVARIANT WaitBounded
PROPERTY EventuallyDrained
CHECK_DEADLOCK FALSE
