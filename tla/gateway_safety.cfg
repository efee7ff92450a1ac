\* A fallback is configured, one retry, the circuit opens at two failures.
SPECIFICATION Spec
CONSTANTS
  Requests = {r1, r2, r3}
  FailureThreshold = 2
  RetryAttempts = 1
  HasFallback = TRUE
SYMMETRY Symmetry
INVARIANTS IInv ClosedMeansFewFailures OneProbePerHalfOpen FallbackShieldsClients
CHECK_DEADLOCK TRUE
