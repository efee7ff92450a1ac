---------------------------- MODULE TextWorkload ----------------------------
(***************************************************************************)
(* run_text_workload_manifest.py: the cases of a manifest are sent one     *)
(* after the other, to POST /generate or as jobs that are polled.  The     *)
(* script may be killed and run again with the same --output-dir, where    *)
(* codegen_responses.jsonl is appended to case by case while the other     *)
(* files are written at the end.  Gateway and workers are abstracted to    *)
(* the life of one job per case; the other modules model them.             *)
(***************************************************************************)
EXTENDS Naturals, Sequences, FiniteSets

CONSTANTS
  NumCases,    \* length of the manifest
  Functional,  \* its cases of scenario code_generation_functional
  MaxRuns      \* bound on the times the script is run

Cases == 1 .. NumCases

(* A manifest without a case of that scenario is left out.                 *)
ASSUME TextAssumption ==
  /\ NumCases \in Nat \ {0} /\ MaxRuns \in Nat
  /\ Functional \subseteq Cases /\ Functional # {}

VARIABLES
  mode,       \* --mode
  run,        \* number of the present run
  textPc,     \* where the script stands
  case,       \* the case it is at
  job,        \* the job of each case of this run, on the server
  results,    \* records: what this run has noted so far
  responses,  \* codegen_responses.jsonl
  evidence    \* records.jsonl and summary.json

script == <<mode, run, textPc, case, results, responses, evidence>>
textVars == <<script, job>>

Rows == [case : Cases, run : 1..MaxRuns, succeeded : BOOLEAN]
NoEvidence == [records |-> <<>>, succeeded |-> 0, failed |-> 0]

TextTypeOK ==
  /\ mode \in {"generate", "jobs"}
  /\ run \in 0..MaxRuns
  /\ textPc \in {"idle", "send", "poll", "write", "done"}
  /\ case \in 1..(NumCases + 1)
  /\ job \in [Cases -> {"none", "accepted", "succeeded", "failed", "expired"}]
  /\ results \in Seq(Rows) /\ responses \in Seq(Rows)
  /\ evidence \in [records : Seq(Rows), succeeded : Nat, failed : Nat]

TextInit ==
  /\ mode \in {"generate", "jobs"}
  /\ run = 0
  /\ textPc = "idle"
  /\ case = 1
  /\ job = [c \in Cases |-> "none"]
  /\ results = <<>>
  /\ responses = <<>>
  /\ evidence = NoEvidence

-----------------------------------------------------------------------------
(* main() starts: the output directory may exist, its files are kept.      *)
StartRun ==
  /\ textPc \in {"idle", "done"} /\ run < MaxRuns
  /\ run' = run + 1
  /\ textPc' = "send" /\ case' = 1 /\ results' = <<>>
  /\ job' = [c \in Cases |-> "none"]
  /\ UNCHANGED <<mode, responses, evidence>>

Row(succeeded) == [case |-> case, run |-> run, succeeded |-> succeeded]

(* Mutant: only an answer is put into the file of responses.               *)
NoteAnswer(succeeded) ==
  /\ results' = Append(results, Row(succeeded))
  /\ responses' = IF case \in Functional /\ succeeded
                    THEN Append(responses, Row(succeeded)) ELSE responses
  /\ case' = case + 1
  /\ textPc' = IF case = NumCases THEN "write" ELSE "send"
  /\ UNCHANGED <<mode, run, evidence>>

(* A case is over: its record is kept in memory, its response is appended  *)
(* to the file if it is one whose code is to be tested, and the next case  *)
(* is sent.                                                                *)
Note(succeeded) ==
  /\ results' = Append(results, Row(succeeded))
  /\ responses' = IF case \in Functional THEN Append(responses, Row(succeeded)) ELSE responses
  /\ case' = case + 1
  /\ textPc' = IF case = NumCases THEN "write" ELSE "send"
  /\ UNCHANGED <<mode, run, evidence>>

(* build_payload reads the case's document outside of the try: if it is    *)
(* missing the script ends, without evidence of the cases before.          *)
MissingDocument ==
  /\ textPc = "send"
  /\ textPc' = "idle" /\ results' = <<>>
  /\ UNCHANGED <<mode, run, case, job, responses, evidence>>

(* run_generate: an answer, an error status or an exception.               *)
Generate ==
  /\ textPc = "send" /\ mode = "generate"
  /\ \/ job' = [job EXCEPT ![case] = "succeeded"] /\ Note(TRUE)
     \/ job' \in {job, [job EXCEPT ![case] = "failed"],
                  [job EXCEPT ![case] = "succeeded"]} /\ Note(FALSE)

(* run_job submits once.  A status other than 202 ends the case, and so    *)
(* does an exception, though the job may have been accepted.               *)
SubmitJob ==
  /\ textPc = "send" /\ mode = "jobs"
  /\ \/ /\ job' = [job EXCEPT ![case] = "accepted"]
        /\ textPc' = "poll"
        /\ UNCHANGED <<mode, run, case, results, responses, evidence>>
     \/ job' \in {job, [job EXCEPT ![case] = "accepted"]} /\ Note(FALSE)

(* A poll that finds the job finished.  Any other state, an expired job    *)
(* (404) and a gateway without Redis (503) are polled again.               *)
Poll ==
  /\ textPc = "poll" /\ job[case] \in {"succeeded", "failed"}
  /\ Note(job[case] = "succeeded")
  /\ UNCHANGED job

(* Mutant: a job is polled until it is finished.                           *)
NeverGiveUp ==
  /\ textPc = "poll" /\ job[case] = "failed"
  /\ Note(FALSE)
  /\ UNCHANGED job

(* The deadline passes, or a poll raises: the job itself goes on.          *)
GiveUp ==
  /\ textPc = "poll"
  /\ Note(FALSE)
  /\ UNCHANGED job

(* records.jsonl, request_metrics.csv and summary.json, written anew.      *)
Succeeding(rows) == {k \in DOMAIN rows : rows[k].succeeded}

WriteEvidence ==
  /\ textPc = "write"
  /\ evidence' = [records |-> results,
                  succeeded |-> Cardinality(Succeeding(results)),
                  failed |-> Cardinality(DOMAIN results \ Succeeding(results))]
  /\ textPc' = "done"
  /\ UNCHANGED <<mode, run, case, job, results, responses>>

(* The script is killed: what it had in memory is gone, files are not.     *)
Kill ==
  /\ textPc \in {"send", "poll", "write"}
  /\ textPc' = "idle" /\ results' = <<>>
  /\ UNCHANGED <<mode, run, case, job, responses, evidence>>

(* The server's side: workers finish and fail jobs, and the result of a    *)
(* finished one may expire.                                                *)
Serve(c) ==
  /\ \/ job[c] = "accepted" /\ \E s \in {"succeeded", "failed"} : job' = [job EXCEPT ![c] = s]
     \/ job[c] \in {"succeeded", "failed"} /\ job' = [job EXCEPT ![c] = "expired"]
  /\ UNCHANGED script

TextStep == Generate \/ SubmitJob \/ Poll \/ GiveUp \/ WriteEvidence

TextNext ==
  StartRun \/ TextStep \/ MissingDocument \/ Kill \/ \E c \in Cases : Serve(c)

(* A script that runs goes on; nobody need start it.                       *)
TextFairness == WF_textVars(TextStep)

-----------------------------------------------------------------------------
(* A case is only noted as a success if the server did answer it.  The     *)
(* file of responses has the rows of run after run, each in the order of   *)
(* the cases, whatever runs were killed; those of a run that goes on or    *)
(* has ended are those of its records whose code is to be tested, with     *)
(* failures among them.                                                    *)
ResponsesMatchRecords ==
  /\ \A k \in DOMAIN results :
       results[k].succeeded => job[results[k].case] \in {"succeeded", "expired"}
  /\ \A j, k \in DOMAIN responses : j < k =>
       \/ responses[j].run < responses[k].run
       \/ responses[j].run = responses[k].run /\ responses[j].case < responses[k].case
  /\ textPc # "idle" =>
       {responses[k] : k \in {l \in DOMAIN responses : responses[l].run = run}}
         = {results[c] : c \in {d \in DOMAIN results : d \in Functional}}

(* Why: the results are those of this run's cases so far, one after the    *)
(* other, no later run has written to the file, and what a run that ended  *)
(* has written is what it had in hand.                                     *)
TextFits ==
  /\ \A k \in DOMAIN results : results[k].case = k /\ results[k].run = run
  /\ \A k \in DOMAIN responses : responses[k].run <= run
  /\ textPc # "idle" => run > 0 /\ Len(results) = case - 1
  /\ textPc \in {"send", "poll"} => case <= NumCases
  /\ textPc \in {"write", "done"} => case = NumCases + 1
  /\ textPc = "idle" => results = <<>>
  /\ textPc = "done" => evidence.records = results

=============================================================================
