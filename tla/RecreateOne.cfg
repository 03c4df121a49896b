SPECIFICATION Spec
CONSTANTS
  j1 = j1
  j2 = j2
  imgA = imgA
  imgB = imgB
  Jobs <- OneJob
  Images <- TwoImages
  MaxIds = 4
  MaxRequests = 3
  Faults = {"refused"}
  RestoreFaults = {}
  AutoRemove = FALSE
  CrashAt = {"inspect", "pull", "stop", "remove"}
INVARIANTS
  NeverBothRunning
  NameKept
PROPERTIES
  FailureRestores
  SuccessReplaces
  ImplementsContract
