CONSTANTS
  Task = {t1, t2}
  Vid <- MCVids3
  Segment = "_"
  Link <- MCPath
  Attr = {"k"}
  Val = {"x"}
  Payload <- MCNoPayload
  Ops <- MCReshape
SPECIFICATION Spec
SYMMETRY MCTasks
INVARIANTS TypeOK UniqueVids UniqueEdges EdgesJoinTheirVids
 
