-------------------------- MODULE CodegenEvaluation --------------------------
(***************************************************************************)
(* evaluate_codegen_functional.py: the functional tests of the answers in  *)
(* codegen_responses.jsonl, each in a container.  It is started when no    *)
(* run of TextWorkload is under way, on whatever the runs have left.       *)
(* subprocess.run kills the docker client at its timeout, not the          *)
(* container: the daemon goes on with what it was asked.  A docker command *)
(* may fail whatever the state of the container, and docker rm, which has  *)
(* no timeout, may not come back.                                          *)
(***************************************************************************)
EXTENDS TextWorkload

VARIABLES
  evalPc,       \* where the evaluator stands
  at,           \* the case it is at
  container,    \* what the daemon has of each case's container
  outcome,      \* results: the outcome noted for each case
  graded,       \* the row whose response was graded, NoRow for none
  dockerFailed  \* history: the cases for which a docker command failed

evalVars == <<evalPc, at, container, outcome, graded, dockerFailed>>

NoRow == [case |-> 0, run |-> 0, succeeded |-> FALSE]

(* "failed" is whatever classify_failure makes of an exit status other     *)
(* than 0.                                                                 *)
Verdicts == {"passed", "failed", "timeout", "missing_response", "extraction_error"}

EvalTypeOK ==
  /\ evalPc \in {"off", "case", "wait", "remove", "written", "raised"}
  /\ at \in 1..(NumCases + 1)
  /\ container \in [Cases -> {"none", "creating", "created", "starting",
                              "running", "gone"}]
  /\ outcome \in [Cases -> Verdicts \cup {"none"}]
  /\ graded \in [Cases -> Rows \cup {NoRow}]
  /\ dockerFailed \subseteq Cases

(* The evaluator's manifest has the functional cases, in the same order.   *)
FunctionalAfter(c) ==
  CHOOSE d \in Functional \cup {NumCases + 1} :
    c < d /\ \A e \in Functional : c < e => d <= e

EvalInit ==
  /\ evalPc = "off"
  /\ at = FunctionalAfter(0)
  /\ container = [c \in Cases |-> "none"]
  /\ outcome = [c \in Cases |-> "none"]
  /\ graded = [c \in Cases |-> NoRow]
  /\ dockerFailed = {}

-----------------------------------------------------------------------------
(* The file of responses is made by the first response.                    *)
StartEvaluation ==
  /\ evalPc = "off" /\ textPc \in {"idle", "done"} /\ responses # <<>>
  /\ evalPc' = "case"
  /\ UNCHANGED <<at, container, outcome, graded, dockerFailed>>

RowsOf(c) == {k \in DOMAIN responses : responses[k].case = c}

(* Mutant: the first row of a case is kept.                                *)
FirstRow(c) == CHOOSE k \in RowsOf(c) : \A l \in RowsOf(c) : k <= l

(* The dict is filled in file order: the last row of a case is kept.       *)
LastRow(c) == CHOOSE k \in RowsOf(c) : \A l \in RowsOf(c) : k >= l

Answer(c) == IF RowsOf(c) = {} THEN NoRow ELSE responses[LastRow(c)]

Grade(verdict) ==
  /\ outcome' = [outcome EXCEPT ![at] = verdict]
  /\ at' = FunctionalAfter(at)
  /\ evalPc' = IF at' > NumCases THEN "written" ELSE "case"

(* A case without a row; one without code (a failure's response is empty,  *)
(* an answer may hold none); or one whose container is asked for.          *)
EvaluateCase ==
  /\ evalPc = "case"
  /\ graded' = [graded EXCEPT ![at] = Answer(at)]
  /\ \/ RowsOf(at) = {} /\ Grade("missing_response") /\ UNCHANGED container
     \/ RowsOf(at) # {} /\ Grade("extraction_error") /\ UNCHANGED container
     \/ /\ RowsOf(at) # {} /\ graded'[at].succeeded
        /\ container' = [container EXCEPT ![at] = "creating"]
        /\ evalPc' = "wait"
        /\ UNCHANGED <<at, outcome>>
  /\ UNCHANGED dockerFailed

(* docker run: the client asks to start the container the daemon created,  *)
(* and ends with its exit status.                                          *)
ClientStarts ==
  /\ evalPc = "wait" /\ container[at] = "created"
  /\ container' = [container EXCEPT ![at] = "starting"]
  /\ UNCHANGED <<evalPc, at, outcome, graded, dockerFailed>>

ClientEnds ==
  /\ evalPc = "wait" /\ container[at] = "gone"
  /\ \E verdict \in {"passed", "failed"} : Grade(verdict)
  /\ UNCHANGED <<container, graded, dockerFailed>>

(* docker run fails (125, 127) or loses the daemon: the case has failed,  *)
(* and the container stays as it is.                                       *)
ClientFails ==
  /\ evalPc = "wait" /\ container[at] # "gone"
  /\ Grade("failed")
  /\ dockerFailed' = dockerFailed \cup {at}
  /\ UNCHANGED <<container, graded>>

(* Mutants: only what never started times out; killing the client is taken *)
(* to end the container.                                                   *)
StartTimesOut ==
  /\ evalPc = "wait" /\ container[at] \in {"creating", "created"}
  /\ evalPc' = "remove"
  /\ UNCHANGED <<at, container, outcome, graded, dockerFailed>>
TimeoutOnly ==
  /\ evalPc = "wait"
  /\ Grade("timeout")
  /\ UNCHANGED <<container, graded, dockerFailed>>

(* The timeout of subprocess.run: on to the removal of the container.      *)
ClientTimesOut ==
  /\ evalPc = "wait"
  /\ evalPc' = "remove"
  /\ UNCHANGED <<at, container, outcome, graded, dockerFailed>>

(* docker rm -f: there may be nothing yet, or the command fails; its       *)
(* result is not looked at.                                                *)
Remove ==
  /\ evalPc = "remove"
  /\ Grade("timeout")
  /\ \/ /\ container' = [container EXCEPT ![at] = IF @ = "creating" THEN @ ELSE "gone"]
        /\ UNCHANGED dockerFailed
     \/ dockerFailed' = dockerFailed \cup {at} /\ UNCHANGED container
  /\ UNCHANGED graded

(* An exception outside of the one handler ends the evaluator with nothing *)
(* written: a file that cannot be written, no docker, output that is not   *)
(* UTF-8, an interrupt (on which subprocess.run kills the client).         *)
EvaluatorRaises ==
  /\ evalPc \in {"case", "wait", "remove"}
  /\ evalPc' = "raised"
  /\ UNCHANGED <<at, container, outcome, graded, dockerFailed>>

(* The daemon: --rm removes the container when the tests end.              *)
Daemon(c) ==
  /\ \/ container[c] = "creating" /\ container' = [container EXCEPT ![c] = "created"]
     \/ container[c] = "starting" /\ container' = [container EXCEPT ![c] = "running"]
     \/ container[c] = "running" /\ container' = [container EXCEPT ![c] = "gone"]
  /\ UNCHANGED <<evalPc, at, outcome, graded, dockerFailed>>

(* What comes to an end by itself or by a timeout.                         *)
EvaluatorStep == EvaluateCase \/ ClientStarts \/ ClientEnds \/ ClientTimesOut

Evaluator == EvaluatorStep \/ ClientFails \/ Remove \/ EvaluatorRaises

EvalNext ==
  /\ StartEvaluation \/ Evaluator \/ \E c \in Cases : Daemon(c)
  /\ UNCHANGED textVars

PipelineInit == TextInit /\ EvalInit

PipelineNext ==
  \/ TextNext /\ evalPc = "off" /\ UNCHANGED evalVars
  \/ EvalNext

PipelineVars == <<textVars, evalVars>>

PipelineSpec == PipelineInit /\ [][PipelineNext]_PipelineVars

(* The evaluator runs; tests may hang and the daemon may not answer, which *)
(* docker rm waits for.                                                    *)
PipelineFairness == TextFairness /\ WF_evalVars(EvaluatorStep /\ UNCHANGED textVars)

-----------------------------------------------------------------------------
(* After a run that ended, the answers that are graded are that run's, not *)
(* those an earlier run of the same directory left in the file, and what   *)
(* passes the tests was a success in the records.                          *)
GradesThisRun ==
  evalPc = "written" /\ textPc = "done" =>
    \A c \in Functional :
      /\ graded[c].run = run
      /\ outcome[c] = "passed" => evidence.records[c].succeeded

AtWork(c) == container[c] \in {"starting", "running"}

(* The code of an answer goes on after its case only where docker itself   *)
(* failed: however the timeout meets the daemon's creating and starting,   *)
(* it leaves at most a container that was never started.  (So what docs/   *)
(* week4/codegen_functional_evaluation.md says, that removal leaves no     *)
(* process behind, is true as far as docker rm, unlooked at, succeeds.)    *)
NothingRunsOn ==
  \A c \in Cases : AtWork(c) =>
    (at = c /\ evalPc \in {"wait", "remove", "raised"}) \/ c \in dockerFailed

(* Why: no run goes on while its answers are graded; the cases up to the   *)
(* present one have been graded by the last row of theirs, and only the    *)
(* code of an answer that was a success is run.                            *)
EvalFits ==
  /\ evalPc # "off" => textPc \in {"idle", "done"}
  /\ evalPc = "off" => at = FunctionalAfter(0)
  /\ evalPc \in {"case", "wait", "remove", "raised"} => at \in Functional
  /\ evalPc = "written" => at = NumCases + 1
  /\ \A c \in Functional :
       c < at \/ (c = at /\ evalPc \in {"wait", "remove"}) => graded[c] = Answer(c)
  /\ \A c \in Cases : outcome[c] = "passed" => c < at /\ graded[c].succeeded
  /\ evalPc \in {"wait", "remove"} => graded[at].succeeded

(* An evaluation that is started ends with an outcome for each case, or by *)
(* an exception, if docker rm comes back whenever it is needed.            *)
EvaluationEnds ==
  []<>(evalPc # "remove") =>
    []<>(\/ evalPc \in {"off", "raised"}
         \/ evalPc = "written" /\ \A c \in Functional : outcome[c] # "none")

(* A run that is started ends or is killed, though jobs may never finish   *)
(* and their results may expire before they are polled.                    *)
RunEnds == []<>(textPc \in {"idle", "done"})

(* What the text workload's evidence and its grading say of each other and *)
(* of the server, and that grading by itself leaves no code of an answer   *)
(* at work.                                                                *)
PipelineInvariant ==
  /\ TextTypeOK /\ EvalTypeOK /\ TextFits /\ EvalFits
  /\ ResponsesMatchRecords /\ GradesThisRun /\ NothingRunsOn

=============================================================================
