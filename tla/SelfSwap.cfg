SPECIFICATION SwapSpec
CONSTANTS
  j1 = j1
  j2 = j2
  imgA = imgA
  imgB = imgB
  Jobs <- TwoJobs
  Images <- OneImage
  MaxIds = 5
  MaxRequests = 4
  Faults = {"refused"}
  RestoreFaults = {}
  AutoRemove = FALSE
  CrashAt = {}
  OwnRow = TRUE
CHECK_DEADLOCK FALSE
INVARIANTS
  NeverLost
PROPERTIES
  AppComesBack
