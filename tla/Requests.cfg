SPECIFICATION FairSpec
CONSTANTS
  Loop = Loop
  Users = {k1}
  MaxCancels = 1
  DefaultCeiling = 4
  Sizes = {1, 2}
  Reqs = {r1}
  MaxRetries = 1
  DisableRetry = FALSE
  EnableRetryOnTimeout = FALSE
  HasBackoff = TRUE
  SeedFallback = {TRUE, FALSE}
  CallerGetBody = FALSE
  DiscoveryLoop = TRUE
  MaxEvents = 2
INVARIANTS
  TypeOK
  ReturnedResponse
  BodyComplete
  InFlightExact
  CwndBounds
  FlightSafe
  
PROPERTIES
  CallersReturn
  Rediscovers
CHECK_DEADLOCK FALSE
