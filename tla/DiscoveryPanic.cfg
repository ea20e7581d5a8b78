CONSTANTS
  Urls = {u1, u2}
  SeedUrls = {u1, u2}
  FirstNodes = {u1, u2}
  Ids = {i1, i2}
  MinNodes = 1
  MaxObjects = 3
  ActiveListCap = 2
  MaxEvents = 2
  NoId = NoId
  NoConn = NoConn
SPECIFICATION Spec
INVARIANT NoPanic
