SPECIFICATION FairSpec
CONSTANTS
  c1 = c1
  c2 = c2
  c3 = c3
  NoConn = NoConn
  k1 = k1
  k2 = k2
  w1 = w1
  Conns = {c1, c2}
  Seeds = {c1}
  Managers = {}
  Weight <- UnitWeights
  ActiveListCap = 1
  HealthCheckConfigured = TRUE
  DrainingChecks = 1
  PromotionChecks = 1
  VerifyDeadAfter = TRUE
  StatsPolling = TRUE
  Clients = {k1, k2}
  Workers = {}
  MaxFaults = 2
INVARIANTS
  ListedOnce
  SentIsProven
PROPERTIES
  QuiesceBlocksResurrection
  PoolRecovers
