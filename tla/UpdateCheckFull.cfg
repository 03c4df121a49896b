SPECIFICATION Spec
CONSTANTS
  web = web
  db = db
  nginx = nginx
  postgres = postgres
  loop = loop
  user = user
  Rows <- TwoRows
  Repos <- TwoRepos
  RepoOf <- BothNginx
  Triggers <- TwoTriggers
  MaxRelease = 1
  MaxChanges = 1
PROPERTY FullCycle
