CONSTANTS
  Task = {t1, t2}
  Vid <- MCVids2
  Segment = "_"
  Link <- MCBothWays
  Attr = {"k"}
  Val = {"x"}
  Payload <- MCPayload
  Ops <- MCGrow
SPECIFICATION Spec
SYMMETRY MCTasks
INVARIANT CacheCoherent
PROPERTY Linearizable
