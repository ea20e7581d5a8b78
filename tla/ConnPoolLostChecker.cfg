SPECIFICATION FairSpec
CONSTANTS
  c1 = c1
  c2 = c2
  c3 = c3
  k1 = k1
  k2 = k2
  w1 = w1
  NoConn = NoConn
  Conns = {c1, c2}
  Seeds = {c1, c2}
  Managers = {}
  Weight <- UnitWeights
  ActiveListCap = 0
  HealthCheckConfigured = TRUE
  DrainingChecks = 0
  PromotionChecks = 1
  VerifyDeadAfter = FALSE
  StatsPolling = FALSE
  Clients = {k1}
  Workers = {}
  MaxFaults = 2
PROPERTY
  DeadRecovers
