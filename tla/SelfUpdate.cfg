SPECIFICATION FairSpec
CONSTANTS
  a1 = a1
  a2 = a2
  Agents <- TwoAgents
  MaxRuns = 1
  HelperFaults = TRUE
  LostReplies <- TheOther
  ByHand <- OneAgent
  DigestKnown = TRUE
CHECK_DEADLOCK FALSE
INVARIANTS
  SettledFirst
  ControllerLast
PROPERTY
  WaitEnds
