SPECIFICATION Spec
CONSTANTS
  j1 = j1
  j2 = j2
  imgA = imgA
  imgB = imgB
  Jobs <- TwoJobs
  Images <- TwoImages
  MaxIds = 3
  MaxRequests = 2
  Faults = {"refused"}
  RestoreFaults = {}
  AutoRemove = FALSE
  CrashAt = {}
INVARIANTS
  NameKept
