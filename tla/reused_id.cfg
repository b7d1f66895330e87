CONSTANTS
  d = d
  e = e
  nodes = nodes
  edges = edges
  Table <- MCTables
  Joinable = {}
  Node <- MCNode
  Edge <- MCEdge
  GtidMode = {"ON", "OFF"}
  MaxTransaction = 2
  MaxFile = 2
  MaxId = 2
  PosWidth = 100
SPECIFICATION Spec
INVARIANT OnlyHandlesItsTable
