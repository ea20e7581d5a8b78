CONSTANTS
  Urls = {u1, u2}
  SeedUrls = {u1}
  FirstNodes = {u1}
  Ids = {i1, i2}
  MinNodes = 1
  MaxObjects = 3
  ActiveListCap = 2
  MaxEvents = 2
  NoId = NoId
  NoConn = NoConn
SPECIFICATION FairSpec
INVARIANTS TypeOK RebuildSettles
PROPERTIES HealthyKept Converges
CHECK_DEADLOCK FALSE
