SPECIFICATION ServicesSpec
CONSTANTS
  a1 = a1
  a2 = a2
  d1 = d1
  d2 = d2
  e1 = e1
  e2 = e2
  e3 = e3
  k1 = k1
  k2 = k2
  k3 = k3
  p1 = p1
  p2 = p2
  r1 = r1
  r2 = r2
  t1 = t1
  t2 = t2
  v1 = v1
  w1 = w1
  w2 = w2
  Workers = {w1, w2}
  LeaseTime = 2
  MaxTokens = 3
  MaxLeft = 4
  Events = {e1, e2, e3}
  Deliverers = {d1, d2}
  QueueSize = 1
  MaxRetries = 1
  MaxDead = 1
  Tenants = {t1, t2}
  Requests = {r1, r2}
  GlobalBurst = 2
  TenantBurst = 1
  GlobalRate = 1
  TenantRate = 1
  MaxTicks = 3
  Callers = {k1, k2, k3}
  FailureThreshold = 2
  SuccessThreshold = 2
  Reviews = {v1}
  CaseConsumers = {p1, p2}
  CaseAnalysts = {a1, a2}
  MaxCases = 3
  MaxReads = 3
  MaxCaseSteps = 2
  Appenders = {e1, e2, e3}
  Auditors = {t1, t2}
  Deliveries = {d1, d2, d3}
  d3 = d3
  CacheKeys = {k1}
  MaxRestarts = 1
  Scored = {e1, e2, e3}
  ShadowWorkers = {w1, w2}
  ShadowQueue = 1
  Champion <- MCChampion
  Challenger <- MCChallenger
  q1 = q1
  q2 = q2
  m1 = m1
  Askers = {q1, q2}
  Admins = {m1}
  Percentages = {0, 50}
  MinSampleCount = 2
  ErrorLimit = 2
  FailureWindow = 2
  MaxCandidates = 3
  Bucket <- MCBucket
INVARIANTS
  TripZeroesTraffic
  
  LimitsHold
  VerdictsStand
  ShadowAccounts
PROPERTIES
  RollbackHolds
  LockProtects
  EventSettles
  BreakerRecovers
  
  TrailKept
CHECK_DEADLOCK FALSE
