\* Once the updates requested are over nothing is left to do.
CHECK_DEADLOCK FALSE
SPECIFICATION FairSpec
CONSTANTS
  before = before
  after = after
  crashing = crashing
  Images <- All
  Broken = {crashing}
  Restart = "on-failure"
  PinnedUnit = FALSE
  MaxIds = 6
  MaxRequests = 3
  Faults = TRUE
PROPERTIES
  DoneMeansRespawned
  FailsLate
  UpdateEnds
