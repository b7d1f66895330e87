CONSTANTS
  d = d
  e = e
  nodes = nodes
  edges = edges
  Table <- MCTables
  Joinable <- MCTwo
  Node <- MCNode
  Edge <- MCEdge
  GtidMode = {"ON", "OFF"}
  MaxTransaction = 2
  MaxFile = 2
  MaxId = 2
  PosWidth = 4
SPECIFICATION FairSpec
INVARIANTS TypeOK  StartsWhereItLooked
PROPERTIES  KeepsReading
