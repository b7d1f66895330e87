CONSTANTS
  Task = {t1, t2, t3}
  Vid <- MCVids2
  Segment = "_"
  Link <- MCOneLink
  Attr = {"k"}
  Val = {"x"}
  Payload <- MCNoPayload
  Ops <- MCAll
SPECIFICATION Spec
SYMMETRY MCTasks
INVARIANT NoDeadlock
