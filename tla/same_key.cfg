CONSTANTS
  Task = {t1}
  Vid <- MCVidsWithSegment
  Segment = "_"
  Link <- MCSameKey
  Attr = {"k"}
  Val = {"x"}
  Payload <- MCNoPayload
  Ops <- MCNested
SPECIFICATION Spec
PROPERTY EdgeExistsMeansEdge
