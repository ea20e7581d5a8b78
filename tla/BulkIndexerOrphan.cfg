SPECIFICATION Spec
CONSTANTS
  i1 = i1
  i2 = i2
  i3 = i3
  Items = {i1, i2}
  Document <- OneDocument
  HasBody = {i1}
  NumWorkers = 1
  FlushLines = 3
  WriteErrors = TRUE
  CtxCancels = FALSE
  NoDocument = NoDocument
  NoItem = NoItem
INVARIANTS
  SuccessIsReal
CHECK_DEADLOCK FALSE
