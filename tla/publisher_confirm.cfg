SPECIFICATION FairSpec
CONSTANTS
  Call = {p1, p2, p3}
  Plain = {p3}
  Chan = {f1, f2}
  LinkFaults = TRUE
  Routed = FALSE
  None = None
INVARIANT TypeOK
INVARIANT ResolvedMeansTaken
PROPERTY CallsSettle
CHECK_DEADLOCK FALSE
