SPECIFICATION ReadinessFairSpec
CONSTANTS
  engine = engine
  agent = agent
  Engines <- OneEngine
  Agents <- OneAgent
  Snapshots <- Two
  MaxChanges = 2
INVARIANTS
  OnlyManagersServe
PROPERTIES
  ChangeNoticed
