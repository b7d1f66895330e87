CONSTANTS
  Main = main
  Task = {main, t1, t2}
  Vid <- MCVids
  Segment = "_"
  Link <- MCLink
  Attr = {"k"}
  Val = {"x"}
  Payload <- MCPayload
  Ops <- MCOps
  MaxStatement = 3
SPECIFICATION FairMirrorSpec
INVARIANTS MirrorTypeOK Mirrored 
CHECK_DEADLOCK FALSE
 
