\* Two posts at a time, a pool of one thread, one health check.
SPECIFICATION FairSpec
CONSTANTS
  r1 = r1
  r2 = r2
  p1 = p1
  t1 = t1
  NoItem = NoItem
  Requests = {r1, r2}
  Probes = {p1}
  Threads = {t1}
  Manifest <- TwoCases
  Concurrency = 2
  MaxSamples = 1
  Refusals = {413}
INVARIANTS
  ServiceInvariant
  NoStrayFile
  AnswerIsTrue
  MetricsCoverRecords
  ArchiveInvariant
PROPERTIES
  EveryRequestIsAnswered
  HealthIsAnswered
  ScriptEnds
