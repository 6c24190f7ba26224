SPECIFICATION Spec
CONSTANTS
  Scans = {s1, s2}
  Ids = {1}
  Areas = {11}
  FileIds = {1}
  ContoursFile = TRUE
  MaxUpdates = 2
  AutoActivate = TRUE
  None = None
INVARIANT PointersLastUntilCleanup
PROPERTIES ReadyMeansLoaded AlertClears
CHECK_DEADLOCK FALSE
