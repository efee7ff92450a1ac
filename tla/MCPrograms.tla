------------------------------ MODULE MCPrograms ------------------------------
(***************************************************************************)
(* The parts that share no state with queue, breaker and multimodal        *)
(* service, one of them to a behaviour; the others stay as they are, in a  *)
(* state in which nothing is left for them to do.                          *)
(***************************************************************************)
EXTENDS StaticBatching, CodegenEvaluation, ResumableEvaluation, LoadBenchmarks,
        VllmBackend, GatewayPod

VARIABLE program

SchedulerIdle ==
  /\ arrival = [r \in Requests |-> 0]
  /\ prompt = [r \in Requests |-> 1]
  /\ output = [r \in Requests |-> 1]
  /\ time = 0 /\ busy = 0 /\ idle = 0
  /\ admitted = {} /\ active = {}
  /\ start = [r \in Requests |-> 0]
  /\ finish = [r \in Requests |-> 0]
  /\ remaining = [r \in Requests |-> 0]
  /\ policy = "written"
  /\ served = 0
  /\ batchClock = [time |-> 0, busy |-> 0, idle |-> 0]
  /\ batchStart = [r \in Requests |-> 0]
  /\ batchFinish = [r \in Requests |-> 0]
  /\ summaries = [p \in {"static", "continuous"} |-> NoResult]

PipelineIdle == mode = "jobs" /\ PipelineInit

EvaluationIdle == runner = "gsm8k" /\ EvaluationInit

BenchIdle ==
  /\ bench = "context" /\ benchPc = "raised"
  /\ client = [c \in Items |-> "queued"]
  /\ server = [c \in Items |-> "none"]
  /\ noted = <<>> /\ written = NoOutput

CallIdle ==
  /\ exchange = "over" /\ upstream = "idle" /\ status = 0
  /\ failure = "unsent" /\ raised = "unavailable"

PodIdle ==
  /\ health = [b \in Backends |-> "up"]
  /\ line = <<>> /\ calls = 0 /\ lingering = 0
  /\ checking = "none" /\ primaryReady = TRUE
  /\ livezFailures = 0 /\ readyzFailures = 0
  /\ inService = TRUE /\ sinceLivez = 0

MCInit ==
  \/ /\ program = "scheduler" /\ SimulationInit
     /\ PipelineIdle /\ EvaluationIdle /\ BenchIdle /\ CallIdle /\ PodIdle
  \/ /\ program = "pipeline" /\ PipelineInit
     /\ SchedulerIdle /\ EvaluationIdle /\ BenchIdle /\ CallIdle /\ PodIdle
  \/ /\ program = "evaluation" /\ EvaluationInit
     /\ SchedulerIdle /\ PipelineIdle /\ BenchIdle /\ CallIdle /\ PodIdle
  \/ /\ program = "benchmark" /\ BenchInit
     /\ SchedulerIdle /\ PipelineIdle /\ EvaluationIdle /\ CallIdle /\ PodIdle
  \/ /\ program = "call" /\ CallInit
     /\ SchedulerIdle /\ PipelineIdle /\ EvaluationIdle /\ BenchIdle /\ PodIdle
  \/ /\ program = "pod" /\ PodInit
     /\ SchedulerIdle /\ PipelineIdle /\ EvaluationIdle /\ BenchIdle /\ CallIdle

MCNext ==
  \/ /\ program = "scheduler" /\ SimulationNext
     /\ UNCHANGED <<program, PipelineVars, evaluationVars, benchVars, callVars, podVars>>
  \/ /\ program = "pipeline" /\ PipelineNext
     /\ UNCHANGED <<program, simulationVars, evaluationVars, benchVars, callVars, podVars>>
  \/ /\ program = "evaluation" /\ EvaluationNext
     /\ UNCHANGED <<program, simulationVars, PipelineVars, benchVars, callVars, podVars>>
  \/ /\ program = "benchmark" /\ BenchNext
     /\ UNCHANGED <<program, simulationVars, PipelineVars, evaluationVars, callVars, podVars>>
  \/ /\ program = "call" /\ CallNext
     /\ UNCHANGED <<program, simulationVars, PipelineVars, evaluationVars, benchVars, podVars>>
  \/ /\ program = "pod" /\ PodNext
     /\ UNCHANGED <<program, simulationVars, PipelineVars, evaluationVars, benchVars, callVars>>

MCVars == <<program, simulationVars, PipelineVars, evaluationVars, benchVars, callVars, podVars>>

(* What each program is fair to, where it runs.                            *)
MCFairness ==
  /\ WF_simulationVars(program = "scheduler" /\ SimulationNext)
  /\ PipelineFairness
  /\ WF_benchVars(program = "benchmark" /\ BenchStep)
  /\ WF_callVars(program = "call" /\ CallStep)
  \* the kubelet probes, threads run, and every wait for a backend ends
  /\ WF_podVars(program = "pod" /\ Probe("livez"))
  /\ WF_podVars(program = "pod" /\ Probe("readyz"))
  /\ WF_podVars(program = "pod" /\ Enter)
  /\ WF_podVars(program = "pod" /\ (EndCall \/ GiveUpCall))
  /\ WF_podVars(program = "pod" /\ EndLingering)
  /\ WF_podVars(program = "pod" /\ (CheckFails \/ CheckPrimary \/ CheckFallback))

MCSpec == MCInit /\ [][MCNext]_MCVars /\ MCFairness

-----------------------------------------------------------------------------
(* Every program that is started ends with what it is started for, or by   *)
(* an exception, however the server or an answer's code behaves, and if no *)
(* docker rm is left without an answer (each in the words of its module).  *)
ProgramsEnd ==
  EveryoneServed /\ RunEnds /\ EvaluationEnds /\ BenchmarkEnds /\ CallEnds

=============================================================================
