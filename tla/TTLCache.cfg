SPECIFICATION FairSpec
CONSTANTS
  Getters = {g1, g2}
  Keys = {k1}
  Values = {v1, v2, v3}
  Workers = {w1, w2}
  CacheOn = TRUE
  Evicts = TRUE
  NoValue = NoValue
  NoKey = NoKey
  NoOne = NoOne
INVARIANTS
  TypeOK
  RefCountExact
  NothingLeaks
  EveryEntrySwept
PROPERTIES
  ClosedOnceWhenFree
  IdleEvicted
