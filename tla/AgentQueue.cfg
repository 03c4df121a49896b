SPECIFICATION QueueFairSpec
CONSTANTS
  web = web
  db = db
  Workloads <- TwoWorkloads
  MaxIds = 5
  MaxCommands = 2
  MaxLosses = 2
  StoreFails = TRUE
CHECK_DEADLOCK FALSE
INVARIANTS
  AtMostOnce
  DoneMeansReplaced
PROPERTY
  EveryCommandAnswered
