\* Six programs, one to a behaviour.  The simulation has every workload of three
\* requests, also with outputs of no token.  The pod has its manifest's thresholds.
SPECIFICATION MCSpec
CONSTANTS
  N = 3
  Arrivals = {0, 2, 5}
  PromptTokens = {1, 3}
  OutputTokens = {0, 1, 3}
  PrefillPerToken = 1
  MaxActive = 2
  StepBase = 1
  StepPerRequest = 1
  DecodePerBatch = 1
  NumCases = 2
  Functional = {1, 2}
  MaxRuns = 2
  NumRows = 3
  RowBatch = 2
  MaxStarts = 3
  NumItems = 3
  PoolWidth = 2
  PoolSize = 2
  MaxLine = 1
  ReadinessThreshold = 2
  LivenessThreshold = 3
  ReadyzPerLivez = 1
INVARIANTS
  IInv SimulationInvariant PipelineInvariant EvaluationInvariant BenchInvariant
  CallInvariant ProbesDoNotPileUp
PROPERTIES
  NeverIdleWhileWaiting ProgramsEnd StaysInService LeavesService
\* The programs end.
CHECK_DEADLOCK FALSE
