SPECIFICATION ReadinessFairSpec
CONSTANTS
  engine = engine
  agent = agent
  Engines <- NoHosts
  Agents <- OneAgent
  Snapshots <- One
  MaxChanges = 2
PROPERTIES
  AgentReadinessNoticed
