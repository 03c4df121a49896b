SPECIFICATION Spec
CONSTANTS
  local = local
  edge = edge
  remote = remote
  hostA = hostA
  hostB = hostB
  c1 = c1
  c2 = c2
  prime = prime
  Local = local
  Directs <- OneEdge
  Agents <- OneRemote
  Endpoints <- TwoHosts
  Containers = {c1}
  Home <- OneOnA
  Goroutines <- OnePrime
  MaxChanges = 2
INVARIANTS
  DeletedStaysDeleted
