\* One thread per gateway; a lost reply leaves a probe without an owner.
SPECIFICATION FairSpec
CONSTANTS
  g1 = g1  g2 = g2  c1 = c1  c2 = c2  c3 = c3
  Gateways = {g1, g2}
  Calls = {c1, c3}
  GatewayOf <- ThreadsOf
  FailureThreshold = 1
  RetryAttempts = 1
  LeaseAttempts = 1
  Tokens = {t1, t2, t3}
  NoToken = NoToken
  FaultKinds = {"down", "reply", "crash"}
  MaxFaults = 3
  MaxVersion = 4
PROPERTY AdmitsAgain
