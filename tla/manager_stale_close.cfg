SPECIFICATION Spec
CONSTANTS
  Socket = {s1, s2}
  Confirm = {f1}
  Loop = {l1, l2}
  Closer = {k1}
  MaxAttempts = 2
  AutoReconnect = TRUE
  ChannelFaults = TRUE
  Closable = FALSE
  None = None
PROPERTY OnlyOwnLossDisconnects
CHECK_DEADLOCK FALSE
