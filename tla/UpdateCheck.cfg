SPECIFICATION FairSpec
CONSTANTS
  web = web
  db = db
  nginx = nginx
  postgres = postgres
  loop = loop
  user = user
  Rows <- TwoRows
  Repos <- TwoRepos
  RepoOf <- OneEach
  Triggers <- TwoTriggers
  MaxRelease = 1
  MaxChanges = 2
INVARIANTS
  OneCheckAtATime
PROPERTIES
  CheckClearsPinned
  CheckIsFresh
  CheckEnds
