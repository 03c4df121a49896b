SPECIFICATION Spec
CONSTANTS
  a1 = a1
  a2 = a2
  Agents <- OneAgent
  MaxRuns = 2
  HelperFaults = FALSE
  LostReplies <- Nobody
  ByHand <- Nobody
  DigestKnown = TRUE
CHECK_DEADLOCK FALSE
INVARIANT SettledFirst
