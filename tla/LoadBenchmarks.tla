---------------------------- MODULE LoadBenchmarks ----------------------------
(***************************************************************************)
(* The benchmarks and evaluations that send a list of cases to the         *)
(* service and write their rows only when all of them are over:            *)
(*   "generate", "jobs"  week4_cloud/benchmark_gateway_capacity.py         *)
(*   "vllm"              benchmark_vllm_backend.py                         *)
(*   "reasoning"         eval_week2_reasoning_codegen.py                   *)
(*   "context"           benchmark_context_length.py                       *)
(*   "codegen"           run_seed_oss_codegen_eval_20_20260614.py          *)
(* The first three use a pool of threads, the others send one case after   *)
(* the other.  A client may stop waiting for an answer at any time, by its *)
(* timeout or an exception; the server goes on with what it was asked.     *)
(* "vllm", "reasoning" and "context" read the body of an error status in   *)
(* the handler of HTTPError, where nothing catches what that raises.       *)
(***************************************************************************)
EXTENDS Percentiles, Sequences

CONSTANTS
  NumItems,   \* --requests, or the number of cases
  PoolWidth   \* --concurrency

ASSUME BenchAssumption == NumItems \in Nat \ {0} /\ PoolWidth \in Nat \ {0}

Items == 1 .. NumItems

VARIABLES
  bench,    \* the script
  benchPc,  \* whether it runs
  client,   \* what a thread does with each case
  server,   \* what the server does with it
  noted,    \* rows: in the order in which the cases were over
  written   \* the files written at the end, with the figures of the summary

benchVars == <<bench, benchPc, client, server, noted, written>>

Pooled == {"generate", "jobs", "vllm"}
BenchRows == [item : Items, ok : BOOLEAN, hit : BOOLEAN]

(* Any latencies may be measured, a bound: of one or two seconds.          *)
Latencies == [Items -> 1..2]

Outputs == [rows : Seq(BenchRows), seconds : Latencies,
            ok : Nat, failed : Nat, hits : Nat, p50 : Nat, p95 : Nat]

NoOutput == [rows |-> <<>>, seconds |-> [c \in Items |-> 1],
             ok |-> 0, failed |-> 0, hits |-> 0, p50 |-> 0, p95 |-> 0]

BenchTypeOK ==
  /\ bench \in Pooled \cup {"reasoning", "context", "codegen"}
  /\ benchPc \in {"running", "ended", "raised"}
  /\ client \in [Items -> {"queued", "posted", "polling", "grading", "hung",
                          "raised", "over"}]
  /\ server \in [Items -> {"none", "working", "done", "failed"}]
  /\ noted \in Seq(BenchRows)
  /\ written \in Outputs

BenchInit ==
  /\ bench \in Pooled \cup {"reasoning", "context", "codegen"}
  /\ benchPc = "running"
  /\ client = [c \in Items |-> "queued"]
  /\ server = [c \in Items |-> "none"]
  /\ noted = <<>>
  /\ written = NoOutput

-----------------------------------------------------------------------------
(* A case is over and its row is known.                                    *)
Over(c, ok, hit) ==
  /\ client' = [client EXCEPT ![c] = "over"]
  /\ noted' = Append(noted, [item |-> c, ok |-> ok, hit |-> hit])
  /\ UNCHANGED <<bench, benchPc, server, written>>

Becomes(c, state) ==
  /\ client' = [client EXCEPT ![c] = state]
  /\ UNCHANGED <<bench, benchPc, server, noted, written>>

(* An exception that ends the script, with nothing written.                *)
ScriptRaises ==
  /\ benchPc' = "raised"
  /\ UNCHANGED <<bench, client, server, noted, written>>

(* The cases that a thread is at.                                          *)
InFlight == {c \in Items : client[c] \notin {"queued", "raised", "over"}}

(* Mutant: a thread more than asked for.                                   *)
WidthOneMore == IF bench \in Pooled THEN PoolWidth + 1 ELSE 1

Width == IF bench \in Pooled THEN PoolWidth ELSE 1

(* A thread takes the case that was submitted to the pool first.           *)
Take(c) ==
  /\ client[c] = "queued" /\ \A d \in Items : client[d] = "queued" => c <= d
  /\ Cardinality(InFlight) < Width
  /\ Becomes(c, "posted")

(* What a POST may come to: TRUE with an answer 200 that can be parsed;    *)
(* FALSE with another status, a body that is not JSON, or an exception.    *)
Outcomes(c) == {FALSE} \cup {ok \in {TRUE} : server[c] = "done"}

(* request_json and the generate mode of run_one.                          *)
RunGenerate(c) ==
  /\ bench = "generate" /\ client[c] = "posted"
  /\ \E ok \in Outcomes(c) : Over(c, ok, FALSE)

(* The jobs mode: a job is accepted, or a row of a failure is noted for    *)
(* another status and for an exception, which may hide that it was.        *)
SubmitAsJob(c) ==
  /\ bench = "jobs" /\ client[c] = "posted"
  /\ \/ server[c] # "none" /\ Becomes(c, "polling")
     \/ Over(c, FALSE, FALSE)

(* Mutant: any answer to a poll is final.                                  *)
PollOnce(c) ==
  /\ client[c] = "polling" /\ server[c] # "none"
  /\ Over(c, server[c] # "failed", FALSE)

PollJob(c) ==
  /\ client[c] = "polling" /\ server[c] \in {"done", "failed"}
  /\ Over(c, server[c] = "done", FALSE)

(* Mutant: polling has no deadline.                                        *)
NoDeadline(c) == client[c] = "polling" /\ server[c] = "failed" /\ Over(c, FALSE, FALSE)

(* poll_timeout, or an exception of a poll: client_error.                  *)
StopPolling(c) ==
  /\ client[c] = "polling"
  /\ Over(c, FALSE, FALSE)

(* An exception of a thread is kept in its future.                         *)
PostVllm(c) ==
  /\ bench = "vllm" /\ client[c] = "posted"
  /\ (\E ok \in Outcomes(c) : Over(c, ok, FALSE)) \/ Becomes(c, "raised")

(* future.result() raises it in main, which leaves the pool only when all  *)
(* of its threads, and what is queued for them, have come to an end.       *)
VllmRaises ==
  /\ bench = "vllm"
  /\ \A c \in Items : client[c] \in {"raised", "over"}
  /\ \E c \in Items : client[c] = "raised"
  /\ ScriptRaises

(* contains_expected is looked for in an answer only.                      *)
PostReasoning(c) ==
  /\ bench = "reasoning" /\ client[c] = "posted"
  /\ \/ \E ok \in Outcomes(c), hit \in BOOLEAN : (hit => ok) /\ Over(c, ok, hit)
     \/ ScriptRaises

PostContext(c) ==
  /\ bench = "context" /\ client[c] = "posted"
  /\ (\E ok \in Outcomes(c) : Over(c, ok, FALSE)) \/ ScriptRaises

(* A target without a number of characters: an exception, before its case  *)
(* is sent and with nothing written of those before.                       *)
UnknownTarget ==
  /\ bench = "context" /\ InFlight = {}
  /\ \E c \in Items : client[c] = "queued"
  /\ ScriptRaises

CallModel(c) ==
  /\ bench = "codegen" /\ client[c] = "posted"
  /\ \/ server[c] = "done" /\ Becomes(c, "grading")
     \/ Over(c, FALSE, FALSE)

(* run_tests executes the answer in the script's own process: it passes,   *)
(* raises an Exception, or does not come back.                             *)
RunTests(c) ==
  /\ client[c] = "grading"
  /\ (\E passed \in BOOLEAN : Over(c, passed, passed)) \/ Becomes(c, "hung")

(* SystemExit is no Exception: the script ends.                            *)
AnswerExits(c) == client[c] = "grading" /\ ScriptRaises

(* A request reaches the server, perhaps when nobody waits any more, and   *)
(* is worked on.                                                           *)
ServeItem(c) ==
  /\ \/ client[c] # "queued" /\ server[c] = "none" /\ server' = [server EXCEPT ![c] = "working"]
     \/ server[c] = "working" /\ \E s \in {"done", "failed"} : server' = [server EXCEPT ![c] = s]
  /\ UNCHANGED <<bench, benchPc, client, noted, written>>

-----------------------------------------------------------------------------
(* Mutant: rows in the order of as_completed.                              *)
AsCompleted(rows) == rows

(* Rows by case: results of futures in the order of submission, or sorted. *)
ByItem(rows) ==
  [c \in Items |-> CHOOSE row \in {rows[k] : k \in DOMAIN rows} : row.item = c]

(* The rows of which sum(1 for row in rows if ...) is the number.          *)
OkRows(rows) == {k \in DOMAIN rows : rows[k].ok}
FailedRows(rows) == {k \in DOMAIN rows : ~rows[k].ok}
HitRows(rows) == {k \in DOMAIN rows : rows[k].hit}

(* All cases are over: the rows are written, and what is made of them.     *)
Write(output) ==
  /\ \A c \in Items : client[c] = "over"
  /\ benchPc' = "ended"
  /\ written' = output
  /\ UNCHANGED <<bench, client, server, noted>>

(* The capacity summary: percentiles of all requests, failed or not.       *)
CapacitySummary(rows, seconds) ==
  LET all == [k \in DOMAIN rows |-> seconds[rows[k].item]]
  IN [NoOutput EXCEPT !.rows = ByItem(rows), !.seconds = seconds,
        !.ok = Cardinality(OkRows(rows)), !.failed = Cardinality(FailedRows(rows)),
        !.p50 = 100 * NearestRank(all, 50), !.p95 = 100 * NearestRank(all, 95)]

(* print_summary: percentiles of successful requests, if there are any.    *)
VllmSummary(rows, seconds) ==
  LET good == [k \in OkRows(rows) |-> seconds[rows[k].item]]
  IN [NoOutput EXCEPT !.rows = ByItem(rows), !.seconds = seconds,
        !.ok = Cardinality(OkRows(rows)), !.failed = Cardinality(FailedRows(rows)),
        !.p50 = IF OkRows(rows) = {} THEN 0 ELSE BetweenRanks(good, 50),
        !.p95 = IF OkRows(rows) = {} THEN 0 ELSE BetweenRanks(good, 95)]

WriteCapacity ==
  /\ bench \in {"generate", "jobs"}
  /\ \E seconds \in Latencies : Write(CapacitySummary(noted, seconds))

WriteVllm ==
  /\ bench = "vllm"
  /\ \E seconds \in Latencies : Write(VllmSummary(noted, seconds))

WriteReasoning ==
  /\ bench = "reasoning"
  /\ Write([NoOutput EXCEPT !.rows = noted, !.ok = Cardinality(OkRows(noted)),
                            !.hits = Cardinality(HitRows(noted))])

WriteContext == bench = "context" /\ Write([NoOutput EXCEPT !.rows = noted])

(* An answer is a success here if it passed its tests.                     *)
WriteCodegen ==
  /\ bench = "codegen"
  /\ LET passed == Cardinality(HitRows(noted)) IN
     Write([NoOutput EXCEPT !.rows = noted, !.ok = passed, !.failed = Len(noted) - passed])

BenchStep ==
  /\ benchPc = "running"
  /\ \/ \E c \in Items :
          \/ Take(c) \/ RunGenerate(c) \/ SubmitAsJob(c) \/ PollJob(c) \/ StopPolling(c)
          \/ PostVllm(c) \/ PostReasoning(c) \/ PostContext(c)
          \/ CallModel(c) \/ RunTests(c) \/ AnswerExits(c)
     \/ VllmRaises \/ UnknownTarget
     \/ WriteCapacity \/ WriteVllm \/ WriteReasoning \/ WriteContext \/ WriteCodegen

(* What the server does after the script has ended is left out.            *)
BenchNext == BenchStep \/ (benchPc = "running" /\ \E c \in Items : ServeItem(c))

BenchSpec == BenchInit /\ [][BenchNext]_benchVars

-----------------------------------------------------------------------------
(* What is written covers the cases, each once and in order, in whatever   *)
(* order the threads had them, and the counts are those of the rows.       *)
OutputCoversItems ==
  benchPc = "ended" =>
    /\ [k \in DOMAIN written.rows |-> written.rows[k].item] = [k \in Items |-> k]
    /\ bench # "context" => written.ok = Cardinality(OkRows(written.rows))
    /\ bench \notin {"context", "reasoning"} => written.ok + written.failed = NumItems
    /\ bench = "reasoning" => written.hits <= written.ok

(* Measured success is the server's: a case is counted as a success only   *)
(* if the server did it, so that all that is still at work there when the  *)
(* benchmark ends is among its failures.                                   *)
CountsMatchServer ==
  /\ \A k \in DOMAIN noted : noted[k].ok => server[noted[k].item] = "done"
  /\ benchPc = "ended" =>
       Cardinality({c \in Items : server[c] = "working"}) <= Cardinality(FailedRows(written.rows))

(* The load is the one asked for: of the requests at work at the server at *)
(* most --concurrency are waited for, all others are noted as failures or  *)
(* have raised what will end the script.                                   *)
LoadIsAsAsked ==
  LET given == {noted[k].item : k \in {l \in DOMAIN noted : ~noted[l].ok}}
               \cup {c \in Items : client[c] = "raised"}
  IN Cardinality({c \in Items : server[c] = "working"} \ given)
    <= (IF bench \in Pooled THEN PoolWidth ELSE 1)

(* At least p percent of the latencies are not above the p-th percentile   *)
(* the capacity run reports; those of the other run lie in between.        *)
PercentilesAreRanks ==
  benchPc = "ended" /\ bench \in Pooled =>
    /\ written.p50 <= written.p95
    /\ bench # "vllm" =>
         \A p \in {50, 95} :
           LET value == IF p = 50 THEN written.p50 ELSE written.p95
               below == {c \in Items : 100 * written.seconds[c] <= value}
           IN /\ 100 * Cardinality(below) >= p * NumItems
              /\ \E c \in Items : 100 * written.seconds[c] = value

(* Why: a case that is over has one row; they are taken in their order and *)
(* without a pool also over in it.                                         *)
BenchFits ==
  /\ \A k, l \in DOMAIN noted : noted[k].item = noted[l].item => k = l
  /\ \A c \in Items :
       /\ client[c] = "over" <=> \E k \in DOMAIN noted : noted[k].item = c
       /\ client[c] = "queued" => server[c] = "none"
  /\ \A k \in DOMAIN noted : noted[k].hit => noted[k].ok
  /\ bench = "codegen" => \A k \in DOMAIN noted : noted[k].ok => noted[k].hit
  /\ \A c \in Items :
       /\ client[c] = "polling" => bench = "jobs"
       /\ client[c] = "raised" => bench = "vllm"
       /\ client[c] \in {"grading", "hung"} => bench = "codegen"
       /\ client[c] = "grading" => server[c] = "done"
  /\ \A c, d \in Items : c < d /\ client[c] = "queued" => client[d] = "queued"
  /\ Cardinality(InFlight) <= Width
  /\ bench \notin Pooled => \A k \in DOMAIN noted : noted[k].item = k

(* What is written is complete and true of the server and of the load.     *)
BenchInvariant ==
  /\ BenchTypeOK /\ BenchFits
  /\ OutputCoversItems /\ CountsMatchServer /\ LoadIsAsAsked /\ PercentilesAreRanks

(* A benchmark ends, though jobs may never finish, unless the code of an   *)
(* answer it tests does not come back; and it ends with its output written *)
(* or, where an exception may get past its handlers, by that.  The two     *)
(* capacity modes always write.                                            *)
BenchmarkEnds ==
  []<>(\/ benchPc = "ended"
       \/ benchPc = "raised" /\ bench \notin {"generate", "jobs"}
       \/ bench = "codegen" /\ \E c \in Items : client[c] = "hung")

=============================================================================
