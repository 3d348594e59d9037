SPECIFICATION FairSpec
CONSTANTS
  Socket = {s1, s2, s3}
  Confirm = {f1}
  Loop = {l1, l2, l3}
  Closer = {k1, k2}
  MaxAttempts = 2
  AutoReconnect = TRUE
  ChannelFaults = TRUE
  Closable = TRUE
  None = None
INVARIANT TypeOK
INVARIANT RefsAreOpen
INVARIANT OneLoop
INVARIANT AttemptsBounded
PROPERTY LoopEnds
PROPERTY ProvidesChannels
CHECK_DEADLOCK FALSE
