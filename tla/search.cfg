CONSTANTS
  Task = {t, s}
  Searcher = {s}
  Start = 1
  Target = 4
  Rows <- MCRows
  Vid <- MCVids
  Segment = "_"
  Link <- MCLink
  Attr = {"k"}
  Val = {"x"}
  Payload <- MCPayload
  Ops <- MCOps
SPECIFICATION FairSearchSpec
INVARIANTS SearchTypeOK AnswerHolds
PROPERTIES FindCompletes CallsComplete
