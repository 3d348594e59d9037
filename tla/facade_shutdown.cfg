SPECIFICATION FairSpec
CONSTANTS
  w1 = w1
  w2 = w2
  w3 = w3
  k1 = k1
  k2 = k2
  Worker = {w1, w2, w3}
  Key = {k1, k2}
  KeyOf <- MCKeyOf
  StartRaces = FALSE
  HooksHang = FALSE
  CloseHangs = TRUE
INVARIANT TypeOK
INVARIANT ExitZeroMeansClosed
INVARIANT StoppedBeforeClosing
PROPERTY ShutdownEnds
CHECK_DEADLOCK FALSE
