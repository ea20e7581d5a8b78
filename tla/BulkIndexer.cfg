SPECIFICATION FairSpec
CONSTANTS
  i1 = i1
  i2 = i2
  i3 = i3
  Items = {i1, i2, i3}
  Document <- OneDocument
  HasBody = {i1}
  NumWorkers = 2
  FlushLines = 3
  WriteErrors = TRUE
  CtxCancels = TRUE
  NoDocument = NoDocument
  NoItem = NoItem
INVARIANTS
  TypeOK
  DocumentOrder
  CloseDrains
  ReportedOnce
PROPERTIES
  CloseReturns
CHECK_DEADLOCK FALSE
