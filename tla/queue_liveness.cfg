SPECIFICATION FairSpec
CONSTANTS
  w1 = w1
  w2 = w2
  t1 = t1
  t2 = t2
  t3 = t3
  t4 = t4
  Workers = {w1, w2}
  ConsumerName <- SharedName
  MaxJobs = 2
  BatchSize = 1
  BlockMs = 5000
  LegacyRedis = FALSE
  Tokens = {t1, t2, t3, t4}
  NoToken = NoToken
  Nobody = Nobody
  FaultKinds = {"crash", "error", "overrun"}
  MaxFaults = 2
PROPERTIES
  EveryAcceptedJobFinishes
  KeepsPromise
