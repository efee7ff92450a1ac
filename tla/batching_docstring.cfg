SPECIFICATION SimulationSpec
CONSTANTS
  N = 3
  Arrivals = {0, 2, 5}
  PromptTokens = {1, 3}
  OutputTokens = {0, 1, 3}
  PrefillPerToken = 1
  MaxActive = 2
  StepBase = 1
  StepPerRequest = 1
  DecodePerBatch = 1
INVARIANTS StartsWhenFree
CHECK_DEADLOCK FALSE
