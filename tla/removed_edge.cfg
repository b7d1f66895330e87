CONSTANTS
  Task = {t1}
  Vid <- MCVids2
  Segment = "_"
  Link <- MCBothWays
  Attr = {"k"}
  Val = {"x"}
  Payload <- MCNoPayload
  Ops <- MCLinks
SPECIFICATION Spec
PROPERTY RemovedEdgeIsNotUpdated
