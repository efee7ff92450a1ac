\* The default configuration: one retry, and a lease of one timeout and ten
\* seconds; nothing goes wrong but the primary.
SPECIFICATION Spec
CONSTANTS
  g1 = g1  g2 = g2  c1 = c1  c2 = c2  c3 = c3
  Gateways = {g1, g2}
  Calls = {c1, c3}
  GatewayOf <- ThreadsOf
  FailureThreshold = 1
  RetryAttempts = 1
  LeaseAttempts = 1
  Tokens = {t1, t2, t3}
  NoToken = NoToken
  FaultKinds = {}
  MaxFaults = 0
  MaxVersion = 6
INVARIANT OneProbeAtATime
