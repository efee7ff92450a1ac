SPECIFICATION FairSpec
CONSTANTS
  w1 = w1
  w2 = w2
  t1 = t1
  t2 = t2
  t3 = t3
  Workers = {w1, w2}
  ConsumerName <- DistinctNames
  MaxJobs = 1
  BatchSize = 2
  BlockMs = 5000
  LegacyRedis = FALSE
  Tokens = {t1, t2, t3}
  NoToken = NoToken
  Nobody = Nobody
  FaultKinds = {"crash"}
  MaxFaults = 1
PROPERTIES
  EveryAcceptedJobFinishes
