---------------------------- MODULE StaticBatching ----------------------------
(***************************************************************************)
(* scripts/scheduler_simulation.py as a whole: the requests are served in  *)
(* static batches, a batch a step, then by continuous batching, and the    *)
(* results of each policy are summarized.  Results are written only when   *)
(* both simulations have ended.                                            *)
(***************************************************************************)
EXTENDS ContinuousBatching, Percentiles

CONSTANT DecodePerBatch  \* decode_time_per_token_per_batch

(* Of no results there is no last one to finish.                           *)
ASSUME StaticAssumption == DecodePerBatch \in Nat /\ N > 0

VARIABLES
  policy,                     \* the simulation that runs
  served,                     \* index: requests taken into a batch
  batchClock,                 \* time, busy and idle time of static batching
  batchStart, batchFinish,    \* when each request's batch starts and ends
  summaries                   \* summary per policy

batchVars == <<served, batchClock, batchStart, batchFinish>>
simulationVars == <<vars, policy, batchVars, summaries>>

NoResult == [results |-> 0]
Ranks == [p50 : Nat, p95 : Nat]
PolicySummaries == [results : {N}, finish : Nat, total : Nat, wait : Ranks, latency : Ranks]

SimulationTypeOK ==
  /\ policy \in {"static", "continuous", "written"}
  /\ served \in 0..N
  /\ batchClock \in [time : Nat, busy : Nat, idle : Nat]
  /\ batchStart \in [Requests -> Nat]
  /\ batchFinish \in [Requests -> Nat]
  /\ summaries \in [{"static", "continuous"} -> PolicySummaries \cup {NoResult}]

SimulationInit ==
  /\ Init
  /\ policy = "static"
  /\ served = 0
  /\ batchClock = [time |-> 0, busy |-> 0, idle |-> 0]
  /\ batchStart = [r \in Requests |-> 0]
  /\ batchFinish = [r \in Requests |-> 0]
  /\ summaries = [p \in {"static", "continuous"} |-> NoResult]

-----------------------------------------------------------------------------
Highest(S) == CHOOSE x \in S : \A y \in S : x >= y

(* Mutant: only requests that have arrived are taken.                      *)
ArrivedBatch ==
  {r \in (served + 1)..N : r = served + 1 \/ (r <= served + MaxActive /\ arrival[r] <= batchClock.time)}

(* available: the next requests, as many as a batch holds; the GPU waits   *)
(* for those that have not arrived.                                        *)
Available == {r \in (served + 1)..N : r <= served + MaxActive}

(* The time it waits, first for one request and then for a full batch.     *)
Gap == Highest({arrival[Highest(Available)] - batchClock.time, 0})

(* Mutant: only the wait for a batch's first request is accounted.         *)
IdleForFirst == batchClock.idle + Highest({arrival[served + 1] - batchClock.time, 0})

Idled == batchClock.idle + Gap

(* All requests of a batch wait for the one with most tokens.              *)
Duration ==
  Highest({prompt[r] : r \in Available}) * PrefillPerToken
    + Highest({output[r] : r \in Available}) * DecodePerBatch * Cardinality(Available)

ServeBatch ==
  /\ policy = "static" /\ served < N
  /\ LET begin == batchClock.time + Gap
         end   == begin + Duration
         Dated(f, t) == [r \in Requests |-> IF r \in Available THEN t ELSE f[r]]
     IN /\ batchClock' = [time |-> end, busy |-> batchClock.busy + Duration,
                          idle |-> Idled]
        /\ batchStart' = Dated(batchStart, begin)
        /\ batchFinish' = Dated(batchFinish, end)
        /\ served' = served + Cardinality(Available)
  /\ UNCHANGED <<vars, policy, summaries>>

PolicySummary(begin, end, busyTime, idleTime) ==
  LET latencies == [r \in Requests |-> end[r] - arrival[r]]
      waits     == [r \in Requests |-> begin[r] - arrival[r]]
  IN [results |-> N,
      finish  |-> Highest({end[r] : r \in Requests}),
      total   |-> busyTime + idleTime,
      wait    |-> [p50 |-> BetweenRanks(waits, 50), p95 |-> BetweenRanks(waits, 95)],
      latency |-> [p50 |-> BetweenRanks(latencies, 50), p95 |-> BetweenRanks(latencies, 95)]]

EndStatic ==
  /\ policy = "static" /\ served = N
  /\ summaries' = [summaries EXCEPT !["static"] =
                     PolicySummary(batchStart, batchFinish, batchClock.busy, batchClock.idle)]
  /\ policy' = "continuous"
  /\ UNCHANGED <<vars, batchVars>>

SimulateContinuous ==
  /\ policy = "continuous"
  /\ Next
  /\ UNCHANGED <<policy, batchVars, summaries>>

EndContinuous ==
  /\ policy = "continuous" /\ Completed = Requests
  /\ summaries' = [summaries EXCEPT !["continuous"] = PolicySummary(start, finish, busy, idle)]
  /\ policy' = "written"
  /\ UNCHANGED <<vars, batchVars>>

SimulationNext == ServeBatch \/ EndStatic \/ SimulateContinuous \/ EndContinuous

SimulationSpec == SimulationInit /\ [][SimulationNext]_simulationVars

-----------------------------------------------------------------------------
(* Static batching starts no request before it has arrived, overtakes      *)
(* none, gives each the time for its own tokens, and only the last batch   *)
(* is not full: the loop waits for those to come, as its comment says, in  *)
(* disagreement with the docstring (StartsWhenFree).                       *)
BatchesAreFull ==
  /\ served % MaxActive = 0 \/ served = N
  /\ \A r \in 1..served :
       /\ arrival[r] <= batchStart[r]
       /\ batchStart[r] + prompt[r] * PrefillPerToken + output[r] * DecodePerBatch
            <= batchFinish[r]
       /\ \A q \in 1..r :
            IF (q - 1) \div MaxActive = (r - 1) \div MaxActive
              THEN batchStart[q] = batchStart[r] /\ batchFinish[q] = batchFinish[r]
              ELSE batchFinish[q] <= batchStart[r]

(* The docstring of simulate_static_batching: a batch starts when the GPU  *)
(* is free, that is when the batch before it has finished, and at least    *)
(* one request has arrived.  The loop waits for a full batch instead.      *)
StartsWhenFree ==
  \A r \in 1..served : (r - 1) % MaxActive = 0 =>
    batchStart[r] = Highest({arrival[r], IF r = 1 THEN 0 ELSE batchFinish[r - 1]})

SharesSpan(figures) ==
  /\ figures.total = figures.finish
  /\ figures.wait.p50 <= figures.wait.p95
  /\ figures.latency.p50 <= figures.latency.p95
  /\ figures.latency.p95 <= 100 * figures.finish

(* Utilization and throughput are shares of the same span of time under    *)
(* both policies: the time accounted as busy or idle is the time at which  *)
(* the last request finishes.  Percentiles grow and lie within the span.   *)
SummariesShareSpan ==
  \A p \in {"static", "continuous"} :
    summaries[p] # NoResult => SharesSpan(summaries[p])

(* Every request is served in the end, by both policies: the loops end,    *)
(* which they do when all are.                                             *)
EveryoneServed == []<>(policy = "written")

(* Why: the clock of static batching is accounted for and stands where the *)
(* last batch ended, that of continuous batching where the last request    *)
(* finished.                                                               *)
SimulationFits ==
  /\ batchClock.busy + batchClock.idle = batchClock.time
  /\ \A r \in 1..served : batchFinish[r] <= batchClock.time
  /\ served > 0 => batchFinish[served] = batchClock.time
  /\ Completed = Requests => \E r \in Requests : finish[r] = time

(* What the comparison of the two policies rests on.                       *)
SimulationInvariant ==
  SimulationTypeOK /\ SimulationFits /\ BatchesAreFull /\ SummariesShareSpan

=============================================================================
