SPECIFICATION QueueSpec
CONSTANTS
  web = web
  db = db
  Workloads <- TwoWorkloads
  MaxIds = 3
  MaxCommands = 1
  MaxLosses = 1
  StoreFails = FALSE
CHECK_DEADLOCK FALSE
INVARIANT JobSettles
