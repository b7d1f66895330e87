CONSTANTS
  Task = {t1}
  Vid <- MCVids2
  Segment = "_"
  Link <- MCOneLink
  Attr = {"k"}
  Val = {"x"}
  Payload <- MCNoPayload
  Ops <- MCFind
SPECIFICATION Spec
PROPERTY RemovedNodeIsNotFound
