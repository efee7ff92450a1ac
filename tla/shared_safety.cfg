\* The lease outlasts the probe and its one retry.
SPECIFICATION Spec
CONSTANTS
  g1 = g1  g2 = g2  c1 = c1  c2 = c2  c3 = c3
  Gateways = {g1, g2}
  Calls = {c1, c2, c3}
  GatewayOf <- ThreadsOf
  FailureThreshold = 2
  RetryAttempts = 1
  LeaseAttempts = 2
  Tokens = {t1, t2, t3, t4}
  NoToken = NoToken
  FaultKinds = {"down", "reply", "crash"}
  MaxFaults = 2
  MaxVersion = 6
SYMMETRY Symmetry
INVARIANTS IInv KeysAgree OneProbeAtATime
PROPERTY ImplementsFenced
