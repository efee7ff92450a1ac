SPECIFICATION Spec
CONSTANTS
  w1 = w1
  w2 = w2
  t1 = t1
  t2 = t2
  t3 = t3
  t4 = t4
  Workers = {w1, w2}
  ConsumerName <- DistinctNames
  MaxJobs = 2
  BatchSize = 2
  BlockMs = 5000
  LegacyRedis = FALSE
  Tokens = {t1, t2, t3, t4}
  NoToken = NoToken
  Nobody = Nobody
  FaultKinds = {"crash", "error", "expire", "overrun"}
  MaxFaults = 3
SYMMETRY Symmetry
INVARIANTS
  IInv
  NoJobLost
  OnlyLatestLeaseFinishes
  AttemptCountExact
  VisibleStatusIsTrue
PROPERTIES
  FinishedJobsStay
