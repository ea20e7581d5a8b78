CONSTANTS
  Urls = {u1, u2}
  SeedUrls = {u1}
  FirstNodes = {u1, u2}
  Ids = {i1, i2}
  MinNodes = 1
  MaxObjects = 3
  ActiveListCap = 2
  MaxEvents = 0
  NoId = NoId
  NoConn = NoConn
SPECIFICATION Spec
INVARIANT DeadAreChecked
