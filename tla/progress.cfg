CONSTANTS
  Task = {t1, t2}
  Vid <- MCVids2
  Segment = "_"
  Link <- MCOneLink
  Attr = {"k"}
  Val = {"x"}
  Payload <- MCNoPayload
  Ops <- MCAll
SPECIFICATION FairSpec
PROPERTY CallsComplete
