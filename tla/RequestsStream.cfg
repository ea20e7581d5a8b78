SPECIFICATION Spec
CONSTANTS
  Loop = Loop
  Users = {}
  MaxCancels = 0
  DefaultCeiling = 4
  Sizes = {2}
  Reqs = {r1}
  MaxRetries = 1
  DisableRetry = FALSE
  EnableRetryOnTimeout = FALSE
  HasBackoff = TRUE
  SeedFallback = {TRUE, FALSE}
  CallerGetBody = FALSE
  DiscoveryLoop = TRUE
  MaxEvents = 1
INVARIANTS
  StreamUnread
