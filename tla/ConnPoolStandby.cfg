SPECIFICATION Spec
CONSTANTS
  c1 = c1
  c2 = c2
  c3 = c3
  NoConn = NoConn
  k1 = k1
  k2 = k2
  w1 = w1
  Conns = {c1, c2, c3}
  Seeds = {c1}
  Managers = {c3}
  Weight <- SkewedWeights
  ActiveListCap = 1
  HealthCheckConfigured = TRUE
  DrainingChecks = 1
  PromotionChecks = 1
  VerifyDeadAfter = TRUE
  StatsPolling = FALSE
  Clients = {k1}
  Workers = {w1}
  MaxFaults = 1
INVARIANTS
  TypeOK
  ListedOnce
  PositionExclusive
PROPERTIES
  ExhaustionIsReal
