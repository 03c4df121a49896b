\* A container started with --rm may be gone for good, and nothing is left to do.
CHECK_DEADLOCK FALSE
SPECIFICATION Spec
CONSTANTS
  j1 = j1
  j2 = j2
  imgA = imgA
  imgB = imgB
  Jobs <- OneJob
  Images <- TwoImages
  MaxIds = 2
  MaxRequests = 1
  Faults = {}
  RestoreFaults = {}
  AutoRemove = TRUE
  CrashAt = {}
PROPERTIES
  FailureKeepsRunning
