\* No fallback: every blocked request is told so.
SPECIFICATION FairSpec
CONSTANTS
  Requests = {r1, r2}
  FailureThreshold = 2
  RetryAttempts = 1
  HasFallback = FALSE
PROPERTIES AdmitsAgain EveryRequestIsAnswered
CHECK_DEADLOCK TRUE
