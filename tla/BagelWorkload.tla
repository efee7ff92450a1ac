---------------------------- MODULE BagelWorkload ----------------------------
(***************************************************************************)
(* The two programs that drive the BAGEL service and archive evidence of   *)
(* it: run_bagel_workload_manifest.py (Concurrency posts at a time, metric *)
(* snapshots around them) and run_understanding_benchmark.py (one post     *)
(* after the other).  Each samples the GPU from a thread of its own.       *)
(***************************************************************************)
EXTENDS Multimodal

CONSTANTS
  Manifest,     \* the cases in manifest order, each of them one request
  Concurrency,  \* --concurrency
  MaxSamples    \* bound on the samples the GPU thread takes

ASSUME ManifestAssumption ==
  /\ Manifest \in Seq(Requests)
  /\ \A i, j \in DOMAIN Manifest : Manifest[i] = Manifest[j] => i = j
  /\ Concurrency \in Nat \ {0} /\ MaxSamples \in Nat

VARIABLES
  program,   \* the script that runs
  phase,     \* where its main() stands
  posted,    \* cases whose post has been started, in manifest order
  records,   \* results in the order they are collected
  sampler,   \* where the sampling thread stands
  samples,   \* length of gpu_samples
  before, after,  \* snapshots of multimodal_requests_total{outcome=success}
  archive    \* what the files on disk say

driver == <<program, phase, posted, records, sampler, samples, before, after,
            archive>>
vars == <<service, driver>>

StopEvent == phase \notin {"start", "run"}
NoSnapshot == [success |-> FALSE, count |-> 0]
NoArchive == [records |-> <<>>, samples |-> 0, peakOf |-> 0, status |-> "none"]
Index == DOMAIN Manifest
Results == [index : Index, success : BOOLEAN]
Recorded == {records[k].index : k \in DOMAIN records}

WorkloadTypeOK ==
  /\ program \in {"manifest", "understanding"}
  /\ phase \in {"start", "run", "join", "write", "summarize", "done", "aborted"}
  /\ posted \in 0..Len(Manifest)
  /\ records \in Seq(Results)
  /\ sampler \in {"off", "sampling", "ended"}
  /\ samples \in 0..MaxSamples
  /\ \A s \in {before, after} : s \in [success : BOOLEAN, count : Nat]
  /\ archive \in [records : Seq(Results), samples : Nat, peakOf : Nat,
                  status : {"none", "PASS", "PARTIAL_OR_FAILED"}]

Init ==
  /\ ServiceInit
  /\ program \in {"manifest", "understanding"}
  /\ phase = "start"
  /\ posted = 0
  /\ records = <<>>
  /\ sampler = "off" /\ samples = 0
  /\ before = NoSnapshot /\ after = NoSnapshot
  /\ archive = NoArchive

-----------------------------------------------------------------------------
(* save_metrics_snapshot writes what it read, or that it could not.        *)
Snapshot == {NoSnapshot, [success |-> TRUE, count |-> counted["success"]]}

(* load_manifest and prepare_case: every line is parsed and every image is *)
(* read and hashed before any directory is made or a request is sent.      *)
BeginManifest ==
  /\ program = "manifest" /\ phase = "start"
  /\ \/ phase' = "aborted" /\ UNCHANGED <<before, sampler>>
     \/ phase' = "run" /\ sampler' = "sampling" /\ before' \in Snapshot
  /\ UNCHANGED <<service, program, posted, records, samples, after, archive>>

(* The other script only parses its manifest: a missing image is found by  *)
(* each of its runs anew.                                                  *)
BeginRuns ==
  /\ program = "understanding" /\ phase = "start"
  /\ \/ phase' = "aborted" /\ UNCHANGED sampler
     \/ phase' = "run" /\ sampler' = "sampling"
  /\ UNCHANGED <<service, program, posted, records, samples, before, after, archive>>

Record(i, success) == records' = Append(records, [index |-> i, success |-> success])

(* A case is sent, or its post is over at once: it cannot connect, or the  *)
(* image cannot be opened.                                                 *)
Start(i) ==
  /\ phase = "run" /\ i \in Index
  /\ posted' = i
  /\ \/ Receive(Manifest[i]) /\ UNCHANGED records
     \/ Record(i, FALSE) /\ UNCHANGED service
  /\ UNCHANGED <<program, phase, sampler, samples, before, after, archive>>

(* The pool takes the cases in the order they were submitted.              *)
Post ==
  /\ program = "manifest" /\ posted - Len(records) < Concurrency
  /\ Start(posted + 1)

PostRun ==
  /\ program = "understanding" /\ posted = Len(records)
  /\ Start(posted + 1)

(* run_case: a success is an answer in the 200s, the only one whose body   *)
(* is BAGEL's; the post may also end by its own timeout.                   *)
Collect(i) ==
  /\ program = "manifest" /\ phase = "run" /\ i <= posted /\ i \notin Recorded
  /\ \/ /\ handler[Manifest[i]] = "answered"
        /\ Record(i, answer[Manifest[i]] \in 200..299)
     \/ Record(i, FALSE)
  /\ UNCHANGED <<service, program, phase, posted, sampler, samples,
                 before, after, archive>>

(* Here an answer whose body is not JSON is one more exception.            *)
CollectRun ==
  /\ program = "understanding" /\ phase = "run" /\ posted > Len(records)
  /\ \/ /\ handler[Manifest[posted]] = "answered"
        /\ Record(posted, answer[Manifest[posted]] \in 200..299)
     \/ Record(posted, FALSE)
  /\ UNCHANGED <<service, program, phase, posted, sampler, samples,
                 before, after, archive>>

(* Mutant: in the order of completion.                                     *)
Unsorted(recs) == recs

(* records.sort(key=manifest_index)                                        *)
Sorted(recs) ==
  [i \in Index |-> CHOOSE r \in {recs[k] : k \in DOMAIN recs} : r.index = i]

Drain ==
  /\ program = "manifest" /\ phase = "run" /\ Recorded = Index
  /\ records' = Sorted(records)
  /\ phase' = "join"
  /\ UNCHANGED <<service, program, posted, sampler, samples, before, after, archive>>

EndRuns ==
  /\ program = "understanding" /\ phase = "run" /\ Len(records) = Len(Manifest)
  /\ phase' = "join"
  /\ UNCHANGED <<service, program, posted, records, sampler, samples, before, after,
                 archive>>

GoToWrite ==
  /\ phase = "join" /\ phase' = "write"
  /\ UNCHANGED <<service, program, posted, records, sampler, samples,
                 before, after, archive>>

(* Mutant: the stop event is set, the thread is not joined.                *)
NoJoin == program = "manifest" /\ GoToWrite

(* nvidia-smi is given 5 seconds and the join 10: the thread has ended.    *)
JoinSampler == program = "manifest" /\ sampler = "ended" /\ GoToWrite

(* Mutant: join() without its timeout.                                     *)
JoinForever == program = "understanding" /\ sampler = "ended" /\ GoToWrite

(* nvidia-smi is given no timeout: after 5 seconds the script goes on.     *)
JoinForSeconds ==
  program = "understanding" /\ sampler \in {"ended", "sampling"} /\ GoToWrite

(* The second snapshot; then the records and the samples are written.      *)
WriteRecords ==
  /\ program = "manifest" /\ phase = "write"
  /\ after' \in Snapshot
  /\ archive' = [archive EXCEPT !.records = records, !.samples = samples]
  /\ phase' = "summarize"
  /\ UNCHANGED <<service, program, posted, records, sampler, samples, before>>

WriteRuns ==
  /\ program = "understanding" /\ phase = "write"
  /\ archive' = [archive EXCEPT !.records = records, !.samples = samples]
  /\ phase' = "summarize"
  /\ UNCHANGED <<service, program, posted, records, sampler, samples, before, after>>

Succeeded(recs) == Cardinality({k \in DOMAIN recs : recs[k].success})

(* Mutant: every case was recorded.                                        *)
VerdictOfLength(recs) ==
  IF Len(recs) = Len(Manifest) THEN "PASS" ELSE "PARTIAL_OR_FAILED"

Verdict(recs) ==
  IF Succeeded(recs) = Len(Manifest) THEN "PASS" ELSE "PARTIAL_OR_FAILED"

(* gpu_summary reads the samples again, after they were written.           *)
Summarize ==
  /\ program = "manifest" /\ phase = "summarize"
  /\ archive' = [archive EXCEPT !.peakOf = samples, !.status = Verdict(records)]
  /\ phase' = "done"
  /\ UNCHANGED <<service, program, posted, records, sampler, samples, before, after>>

(* So does the other script for its peaks; it gives no verdict.            *)
WritePeaks ==
  /\ program = "understanding" /\ phase = "summarize"
  /\ archive' = [archive EXCEPT !.peakOf = samples]
  /\ phase' = "done"
  /\ UNCHANGED <<service, program, posted, records, sampler, samples, before, after>>

(* sample_gpu: samples, or notes of an nvidia-smi that failed, until the   *)
(* stop event is seen; one under way when it is set is still appended.     *)
Sample ==
  /\ sampler = "sampling" /\ samples < MaxSamples
  /\ samples' = samples + 1
  /\ UNCHANGED <<service, program, phase, posted, records, sampler, before, after,
                 archive>>

EndSampler ==
  /\ sampler = "sampling" /\ StopEvent
  /\ sampler' = "ended"
  /\ UNCHANGED <<service, program, phase, posted, records, samples, before, after,
                 archive>>

Ended == phase \in {"done", "aborted"} /\ UNCHANGED vars

-----------------------------------------------------------------------------
Main ==
  \/ BeginManifest \/ Post \/ Drain \/ JoinSampler \/ WriteRecords \/ Summarize
  \/ BeginRuns \/ PostRun \/ EndRuns \/ JoinForSeconds \/ WriteRuns \/ WritePeaks

Next ==
  \/ ServiceNext /\ UNCHANGED driver
  \/ Main
  \/ \E i \in Index : Collect(i)
  \/ CollectRun
  \/ Sample
  \/ EndSampler
  \/ Ended

Spec == Init /\ [][Next]_vars

(* The threads of the script run on: each post ends by its own timeout at  *)
(* the latest, and nvidia-smi ends in the manifest's 5 seconds.            *)
ScriptStep ==
  \/ Main
  \/ \E i \in Index : Collect(i)
  \/ CollectRun
  \/ program = "manifest" /\ EndSampler

FairSpec == Spec /\ ServiceFairness /\ WF_vars(ScriptStep)

-----------------------------------------------------------------------------
(* The archive holds one record for every case, in manifest order, in      *)
(* whatever order the posts ended and however each of them failed.         *)
ArchiveIsComplete ==
  phase = "done" =>
    /\ Len(archive.records) = Len(Manifest)
    /\ \A i \in Index : archive.records[i].index = i

(* The evidence agrees with itself: what the service counted between the   *)
(* two snapshots is at least what the records call a success, though a     *)
(* post may time out before the service answers it.                        *)
MetricsCoverRecords ==
  phase \in {"summarize", "done"} /\ before.success /\ after.success
    => after.count - before.count >= Succeeded(records)

(* PASS is only written when the service answered every case with BAGEL's  *)
(* own result and gave up on none.                                         *)
PassIsEarned ==
  archive.status = "PASS" =>
    /\ \A i \in Index : answer[Manifest[i]] = 200
    /\ counted["timeout"] = 0 /\ counted["upstream_error"] = 0

(* The manifest's peak is the peak of the samples it archived: its sampler *)
(* has ended when they are written, so none comes in between.              *)
PeakIsOfArchive ==
  program = "manifest" /\ phase = "done" => archive.peakOf = archive.samples

-----------------------------------------------------------------------------
(* Why: the inductive invariant, beside the service's own.                 *)

(* A case has one record, of a post that was started, and what is recorded *)
(* as a success was answered; after the last post they are in order.       *)
RecordsFit ==
  /\ \A k, l \in DOMAIN records : records[k].index = records[l].index => k = l
  /\ \A k \in DOMAIN records :
       /\ records[k].index <= posted
       /\ records[k].success => answer[Manifest[records[k].index]] = 200
  /\ program = "understanding" =>
       posted <= Len(records) + 1 /\ \A k \in DOMAIN records : records[k].index = k
  /\ phase \in {"join", "write", "summarize", "done"} =>
       Len(records) = Len(Manifest) /\ \A i \in Index : records[i].index = i

(* The service only works for posts, and counts what it answers: nothing   *)
(* before the first snapshot, and then each success at least.              *)
CountsFit ==
  /\ \A r \in Requests : handler[r] # "new" => \E i \in Index : i <= posted /\ Manifest[i] = r
  /\ Cardinality({r \in Requests : answer[r] = 200}) <= counted["success"]
  /\ counted["timeout"] > 0 => \E r \in Requests : answer[r] = 504
  /\ counted["upstream_error"] > 0 => \E r \in Requests : answer[r] = 502
  /\ phase \in {"start", "aborted"} => posted = 0 /\ counted["success"] = 0
  /\ before.count = 0
  /\ after.success => phase \in {"summarize", "done"}

(* What is in the archive is what the script has in hand.                  *)
ArchiveFits ==
  /\ phase \in {"summarize", "done"} => archive.records = records
  /\ program = "manifest" /\ phase \in {"write", "summarize", "done"} => sampler = "ended"
  /\ program = "manifest" /\ phase \in {"summarize", "done"} => archive.samples = samples
  /\ archive.status # "none" => phase = "done"

(* The archive of either script is complete and true of the service.       *)
ArchiveInvariant ==
  /\ WorkloadTypeOK /\ RecordsFit /\ CountsFit /\ ArchiveFits
  /\ ArchiveIsComplete /\ PassIsEarned /\ PeakIsOfArchive

-----------------------------------------------------------------------------
(* A request the service took is answered even if BAGEL keeps every thread *)
(* of the pool for good.                                                   *)
EveryRequestIsAnswered ==
  \A r \in Requests : handler[r] \in {"reading", "waiting"} ~> handler[r] = "answered"

(* The health route waits behind the calls of BAGEL for a thread: it is    *)
(* answered as long as BAGEL lets go of every thread again and again.      *)
HealthIsAnswered ==
  (\A t \in Threads : []<>(thread[t].at # "predict")) =>
    \A p \in Probes : handler[p] = "waiting" ~> handler[p] = "answered"

(* Either script ends, whatever BAGEL and nvidia-smi do.                   *)
ScriptEnds == <>(phase \in {"done", "aborted"})

=============================================================================
