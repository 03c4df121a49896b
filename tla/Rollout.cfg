\* Once the updates requested are over nothing is left to do.
CHECK_DEADLOCK FALSE
SPECIFICATION FairSpec
CONSTANTS
  j1 = j1
  j2 = j2
  good = good
  better = better
  bad = bad
  Jobs <- OneJob
  Images <- Three
  Broken = {bad}
  Flaky = {better}
  Replicas <- TwoTasks
  Actions = {"pause", "rollback", "continue"}
  MaxRequests = 2
  MaxPushes = 1
  Faults = {"refused", "lost"}
  StatusFaults = FALSE
  MayVanish = TRUE
PROPERTIES
  DoneMeansServing
  FailureUndoes
  UpdateRollsOut
  SettledEnds
