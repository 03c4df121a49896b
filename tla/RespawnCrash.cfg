\* Once the updates requested are over nothing is left to do.
CHECK_DEADLOCK FALSE
SPECIFICATION Spec
CONSTANTS
  before = before
  after = after
  crashing = crashing
  Images <- All
  Broken = {crashing}
  Restart = "always"
  PinnedUnit = FALSE
  MaxIds = 6
  MaxRequests = 1
  Faults = FALSE
PROPERTIES
  CrashLoopFails
