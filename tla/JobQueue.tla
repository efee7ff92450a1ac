------------------------------ MODULE JobQueue ------------------------------
(***************************************************************************)
(* The asynchronous job queue: the gateway's POST /jobs (app/main.py), the *)
(* Redis Stream queue (app/redis_stream_jobs.py) and the job workers       *)
(* (app/job_worker.py) that share it.                                      *)
(*                                                                         *)
(* The unit of atomicity is the Redis command: MULTI/EXEC blocks and Lua   *)
(* scripts run atomically, and everything a worker does between two        *)
(* commands is local to it.  So mark_running and complete/fail are two     *)
(* steps each (GET, then EVAL) and other workers may run in between.       *)
(*                                                                         *)
(* A job id is the position of its XADD, which is also the order of its    *)
(* stream id.  enqueue() adds exactly one entry per job, so one number     *)
(* names the job, its state key and its stream entry.                      *)
(*                                                                         *)
(* Time appears only as "this pending entry has been idle for at least     *)
(* reclaim_idle_ms" (the set idle).                                        *)
(***************************************************************************)
EXTENDS Integers, FiniteSets

CONSTANTS
  Workers,        \* worker processes
  ConsumerName,   \* the consumer name each process runs under
  MaxJobs,        \* bound: number of jobs submitted
  BatchSize,      \* JOB_WORKER_BATCH_SIZE
  BlockMs,        \* JOB_WORKER_BLOCK_MS
  LegacyRedis,    \* TRUE: the server does not know XAUTOCLAIM
  Tokens,         \* delivery tokens (uuid4 values)
  NoToken,        \* no delivery token
  Nobody,         \* no consumer, no worker
  FaultKinds,     \* the faults a run allows
  MaxFaults       \* bound: number of faults

ASSUME QueueAssumption ==
  /\ MaxJobs \in Nat
  /\ BatchSize \in Nat \ {0}
  /\ BlockMs \in Nat
  /\ LegacyRedis \in BOOLEAN
  /\ DOMAIN ConsumerName = Workers
  /\ Nobody \notin Workers
  /\ \A w \in Workers : ConsumerName[w] # Nobody
  /\ NoToken \notin Tokens
  /\ FaultKinds \subseteq {"crash", "error", "expire", "overrun"}
  /\ MaxFaults \in Nat

Jobs == 1 .. MaxJobs

Names == {ConsumerName[w] : w \in Workers}

(* Every process has a name of its own: hostname and pid by default.       *)
NamesDistinct == \A v, w \in Workers : ConsumerName[v] = ConsumerName[w] => v = w

VARIABLES
  \* Redis
  stream,         \* the entries of the stream
  lastId,         \* id of the last entry added
  group,          \* does the consumer group exist
  lastDelivered,  \* the group's last-delivered id
  owner,          \* consumer of each pending entry, Nobody if not pending
  idle,           \* pending entries idle for at least reclaim_idle_ms
  jobState,       \* the JSON document under each job's key
  \* clients of the gateway
  accepted,       \* jobs whose submission was answered with 202
  \* workers
  pc, ready, cursor, batch, candidates, snap, token, outcome,
  \* history, read by no action
  marks,          \* how many times mark_running took effect on a job
  marker,         \* the process whose mark_running took effect last
  finisher,       \* the process whose complete/fail took effect
  expired,        \* jobs whose state key has ever expired
  faults          \* faults so far

redis   == <<stream, lastId, group, lastDelivered, owner, idle, jobState>>
local   == <<pc, ready, cursor, batch, candidates, snap, token, outcome>>
history == <<marks, marker, finisher, expired>>
vars    == <<redis, accepted, local, history, faults>>

-----------------------------------------------------------------------------
(* The values of jobState.  A missing key is the record Missing.           *)

Statuses == {"missing", "queued", "running", "succeeded", "failed"}
Terminal == {"succeeded", "failed"}

JobRecord == [status : Statuses, attempt : Nat,
              worker : Names \cup {Nobody}, token : Tokens \cup {NoToken}]

Missing == [status |-> "missing", attempt |-> 0,
            worker |-> Nobody, token |-> NoToken]

Queued == [Missing EXCEPT !.status = "queued"]

(* Mutant: the state is made anew, not taken from the stored one.          *)
FirstRunningState(n, w, t) == [status |-> "running", attempt |-> 1,
                               worker |-> ConsumerName[w], token |-> t]

RunningState(n, w, t) == [status |-> "running", attempt |-> n,
                          worker |-> ConsumerName[w], token |-> t]

TerminalState(result, n, w) == [status |-> result, attempt |-> n,
                                worker |-> ConsumerName[w], token |-> NoToken]

Phases == {"down", "ensure", "reclaim", "claim", "read", "mark", "markEval",
           "generate", "final", "finalEval", "backoff"}

(* Where a worker has issued a Redis command and waits for the reply.      *)
Waiting == {"ensure", "reclaim", "claim", "read", "mark", "markEval",
            "final", "finalEval"}

-----------------------------------------------------------------------------
(* Views of the stream.                                                    *)

Pending == {j \in Jobs : owner[j] # Nobody}

Undelivered == {j \in stream : j > lastDelivered}

(* The first n elements of a set of ids, in stream order.                  *)
FirstN(S, n) == {j \in S : Cardinality({k \in S : k < j}) < n}

(* Where an XAUTOCLAIM cursor moves to: the first of the remaining         *)
(* entries, or 0-0 when the scan reached the end of the pending list.      *)
CursorAt(S) == IF S = {} THEN {0} ELSE {j \in S : \A k \in S : j <= k}

(* Messages of a batch are processed in stream order: reclaimed entries    *)
(* have ids up to last-delivered-id and come back from Redis in id order,  *)
(* new entries have greater ids.                                           *)
IsNext(w, j) == j \in batch[w] /\ \A k \in batch[w] : j <= k

Remembered == {jobState[j].token : j \in Jobs} \cup {token[w] : w \in Workers}

(* A uuid4 is different from every token somebody still remembers.         *)
FreshTokens == Tokens \ Remembered

(* A live worker has the entry in the batch it is working through.         *)
Held(j) == \E w \in Workers : ConsumerName[w] = owner[j] /\ j \in batch[w]

-----------------------------------------------------------------------------
RedisTypeOK ==
  /\ stream \subseteq Jobs
  /\ lastId \in 0 .. MaxJobs
  /\ group \in BOOLEAN
  /\ lastDelivered \in 0 .. MaxJobs
  /\ owner \in [Jobs -> Names \cup {Nobody}]
  /\ idle \subseteq Jobs
  /\ jobState \in [Jobs -> JobRecord]

WorkerTypeOK ==
  /\ pc \in [Workers -> Phases]
  /\ ready \in [Workers -> BOOLEAN]
  /\ cursor \in [Workers -> 0 .. MaxJobs]
  /\ batch \in [Workers -> SUBSET Jobs]
  /\ candidates \in [Workers -> SUBSET Jobs]
  /\ snap \in [Workers -> Nat]
  /\ token \in [Workers -> Tokens \cup {NoToken}]
  /\ outcome \in [Workers -> Terminal \cup {"none"}]
  /\ \A w \in Workers : pc[w] \in {"final", "finalEval"} => outcome[w] \in Terminal

HistoryTypeOK ==
  /\ accepted \subseteq Jobs
  /\ marks \in [Jobs -> Nat]
  /\ marker \in [Jobs -> Workers \cup {Nobody}]
  /\ finisher \in [Jobs -> Workers \cup {Nobody}]
  /\ expired \subseteq Jobs
  /\ faults \in 0 .. MaxFaults

(* Every variable has its type.                                            *)
TypeOK == RedisTypeOK /\ WorkerTypeOK /\ HistoryTypeOK

Init ==
  /\ stream = {}
  /\ lastId = 0
  /\ group = FALSE
  /\ lastDelivered = 0
  /\ owner = [j \in Jobs |-> Nobody]
  /\ idle = {}
  /\ jobState = [j \in Jobs |-> Missing]
  /\ accepted = {}
  /\ pc = [w \in Workers |-> "ensure"]
  /\ ready = [w \in Workers |-> FALSE]
  /\ cursor = [w \in Workers |-> 0]
  /\ batch = [w \in Workers |-> {}]
  /\ candidates = [w \in Workers |-> {}]
  /\ snap = [w \in Workers |-> 0]
  /\ token = [w \in Workers |-> NoToken]
  /\ outcome = [w \in Workers |-> "none"]
  /\ marks = [j \in Jobs |-> 0]
  /\ marker = [j \in Jobs |-> Nobody]
  /\ finisher = [j \in Jobs |-> Nobody]
  /\ expired = {}
  /\ faults = 0

-----------------------------------------------------------------------------
(* Faults and the shared tails of the worker's steps.                      *)

Fault(kind) ==
  /\ kind \in FaultKinds
  /\ faults < MaxFaults
  /\ faults' = faults + 1

(* Mutant: the lease survives the exception in a field of the worker.      *)
AbortKeepingLease(w) ==
  /\ pc' = [pc EXCEPT ![w] = "backoff"]
  /\ batch' = [batch EXCEPT ![w] = {}]
  /\ candidates' = [candidates EXCEPT ![w] = {}]
  /\ snap' = [snap EXCEPT ![w] = 0]
  /\ outcome' = [outcome EXCEPT ![w] = "none"]
  /\ UNCHANGED <<ready, cursor, token>>

(* JobQueueUnavailableError leaves process_once: the messages in hand are  *)
(* forgotten, the object's own fields keep their values.                   *)
Abort(w) ==
  /\ pc' = [pc EXCEPT ![w] = "backoff"]
  /\ batch' = [batch EXCEPT ![w] = {}]
  /\ candidates' = [candidates EXCEPT ![w] = {}]
  /\ snap' = [snap EXCEPT ![w] = 0]
  /\ token' = [token EXCEPT ![w] = NoToken]
  /\ outcome' = [outcome EXCEPT ![w] = "none"]
  /\ UNCHANGED <<ready, cursor>>

(* The command took effect but its reply did not arrive.                   *)
ReplyLost(w) == Fault("error") /\ Abort(w)

(* The worker is done with message j, one way or another.                  *)
Advance(w, j) ==
  /\ batch' = [batch EXCEPT ![w] = @ \ {j}]
  /\ pc' = [pc EXCEPT ![w] = IF batch[w] = {j} THEN "reclaim" ELSE "mark"]
  /\ snap' = [snap EXCEPT ![w] = 0]
  /\ token' = [token EXCEPT ![w] = NoToken]
  /\ outcome' = [outcome EXCEPT ![w] = "none"]
  /\ UNCHANGED <<ready, cursor, candidates, faults>>

-----------------------------------------------------------------------------
(* The gateway.                                                            *)

(* POST /jobs is answered with 202, or with 503 when the reply of Redis is *)
(* lost although the job is queued.                                        *)
Submitted(j) ==
  \/ accepted' = accepted \cup {j} /\ UNCHANGED faults
  \/ Fault("error") /\ UNCHANGED accepted

(* enqueue: SET and XADD in one transaction.                               *)
Enqueue ==
  /\ lastId < MaxJobs
  /\ LET j == lastId + 1 IN
       /\ lastId' = j
       /\ stream' = stream \cup {j}
       /\ jobState' = [jobState EXCEPT ![j] = Queued]
       /\ Submitted(j)
  /\ UNCHANGED <<group, lastDelivered, owner, idle, local, history>>

-----------------------------------------------------------------------------
(* A worker, one Redis command at a time.                                  *)

(* Mutant: the group starts at "$", the end of the stream.                 *)
EnsureGroupAtEnd(w) ==
  /\ pc[w] = "ensure"
  /\ group' = TRUE
  /\ lastDelivered' = IF group THEN lastDelivered ELSE lastId
  /\ pc' = [pc EXCEPT ![w] = "reclaim"]
  /\ ready' = [ready EXCEPT ![w] = TRUE]
  /\ UNCHANGED <<stream, lastId, owner, idle, jobState, accepted, history, cursor,
                 batch, candidates, snap, token, outcome, faults>>

(* XGROUP CREATE ... 0-0 MKSTREAM; BUSYGROUP is not an error.              *)
EnsureGroup(w) ==
  /\ pc[w] = "ensure"
  /\ group' = TRUE
  /\ lastDelivered' = IF group THEN lastDelivered ELSE 0
  /\ \/ /\ pc' = [pc EXCEPT ![w] = "reclaim"]
        /\ ready' = [ready EXCEPT ![w] = TRUE]
        /\ UNCHANGED <<cursor, batch, candidates, snap, token, outcome, faults>>
     \/ ReplyLost(w)
  /\ UNCHANGED <<stream, lastId, owner, idle, jobState, accepted, history>>

(* The consumer of every claimed entry becomes this worker and its idle    *)
(* time starts again.                                                      *)
Claim(w, claimed) ==
  /\ owner' = [j \in Jobs |-> IF j \in claimed THEN ConsumerName[w] ELSE owner[j]]
  /\ idle' = idle \ claimed

(* XAUTOCLAIM looks at ten pending entries per message asked for, and      *)
(* claims those that are idle until it has enough.                         *)
Reach(w) == {j \in Pending : j >= cursor[w]}
Seen(w) == FirstN(Reach(w), 10 * BatchSize)

(* Mutant: min_idle_time is not passed on.                                 *)
AutoClaimedAtAnyAge(w) == FirstN(Seen(w), BatchSize)

AutoClaimed(w) == FirstN(Seen(w) \cap idle, BatchSize)

(* reclaim_idle on a server with XAUTOCLAIM.                               *)
ReclaimIdle(w) ==
  /\ pc[w] = "reclaim"
  /\ ~LegacyRedis
  /\ LET claimed == AutoClaimed(w)
         full    == Cardinality(claimed) = BatchSize
         passed  == IF full THEN {k \in Reach(w) : \E j \in claimed : k <= j} ELSE Seen(w)
     IN /\ Claim(w, claimed)
        /\ \/ /\ \E next \in CursorAt(Reach(w) \ passed) :
                   cursor' = [cursor EXCEPT ![w] = next]
              /\ batch' = [batch EXCEPT ![w] = claimed]
              /\ pc' = [pc EXCEPT ![w] = IF full THEN "mark" ELSE "read"]
              /\ UNCHANGED <<ready, candidates, snap, token, outcome, faults>>
           \/ ReplyLost(w)
  /\ UNCHANGED <<stream, lastId, group, lastDelivered, jobState, accepted, history>>

(* Mutant: the scan goes on behind its last page and never starts anew.    *)
LegacyScanOnward(w) ==
  /\ pc[w] = "reclaim"
  /\ LegacyRedis
  /\ LET page  == FirstN({j \in Pending : j > cursor[w]}, BatchSize)
         found == page \cap idle
     IN /\ candidates' = [candidates EXCEPT ![w] = found]
        /\ pc' = [pc EXCEPT ![w] = IF found = {} THEN "read" ELSE "claim"]
        /\ \E last \in {j \in page \cup {cursor[w]} : \A k \in page : j >= k} :
             cursor' = [cursor EXCEPT ![w] = last]
  /\ UNCHANGED <<redis, accepted, ready, batch, snap, token, outcome, history, faults>>

(* reclaim_idle on a server without it: XPENDING shows one page of the     *)
(* pending list, and the idle entries of that page are candidates.  The    *)
(* cursor never moves, because a page is never longer than its COUNT.      *)
LegacyScan(w) ==
  /\ pc[w] = "reclaim"
  /\ LegacyRedis
  /\ LET page  == FirstN({j \in Pending : j > cursor[w]}, BatchSize)
         found == page \cap idle
     IN /\ candidates' = [candidates EXCEPT ![w] = found]
        /\ pc' = [pc EXCEPT ![w] = IF found = {} THEN "read" ELSE "claim"]
  /\ UNCHANGED <<redis, accepted, ready, cursor, batch, snap, token, outcome,
                 history, faults>>

(* Mutant: XCLAIM with min_idle_time 0.                                    *)
StillPending(w) == candidates[w] \cap Pending

(* XCLAIM takes the candidates that are still pending and still idle.      *)
StillIdle(w) == candidates[w] \cap Pending \cap idle

LegacyClaim(w) ==
  /\ pc[w] = "claim"
  /\ LET claimed == StillIdle(w)
     IN /\ Claim(w, claimed)
        /\ \/ /\ batch' = [batch EXCEPT ![w] = claimed]
              /\ candidates' = [candidates EXCEPT ![w] = {}]
              /\ cursor' = [cursor EXCEPT ![w] = 0]
              /\ pc' = [pc EXCEPT ![w] =
                          IF Cardinality(claimed) = BatchSize THEN "mark" ELSE "read"]
              /\ UNCHANGED <<ready, snap, token, outcome, faults>>
           \/ ReplyLost(w)
  /\ UNCHANGED <<stream, lastId, group, lastDelivered, jobState, accepted, history>>

(* The BLOCK argument of XREADGROUP.  Zero means: wait without limit.      *)
BlockFor(w) == IF batch[w] = {} THEN BlockMs ELSE 0

(* XREADGROUP > delivers the next new entries, as many as fit.             *)
ReadNew(w) ==
  /\ pc[w] = "read"
  /\ \E last \in Undelivered :
       LET got  == {j \in Undelivered : j <= last}
           room == BatchSize - Cardinality(batch[w])
       IN /\ Cardinality(got) <= room
          /\ Cardinality(got) = room \/ got = Undelivered
          /\ lastDelivered' = last
          /\ Claim(w, got)
          /\ \/ /\ batch' = [batch EXCEPT ![w] = @ \cup got]
                /\ pc' = [pc EXCEPT ![w] = "mark"]
                /\ UNCHANGED <<ready, cursor, candidates, snap, token, outcome, faults>>
             \/ ReplyLost(w)
  /\ UNCHANGED <<stream, lastId, group, jobState, accepted, history>>

(* Mutant: the worker waits for new messages in a loop of its own.         *)
ReadNothingAgain(w) ==
  /\ pc[w] = "read"
  /\ Undelivered = {}
  /\ BlockFor(w) > 0
  /\ UNCHANGED vars

(* BLOCK elapses with nothing to read; the batch is empty.                 *)
ReadNothing(w) ==
  /\ pc[w] = "read"
  /\ Undelivered = {}
  /\ BlockFor(w) > 0
  /\ pc' = [pc EXCEPT ![w] = "reclaim"]
  /\ UNCHANGED <<redis, accepted, ready, cursor, batch, candidates, snap, token,
                 outcome, history, faults>>

(* BLOCK 0 never elapses: the socket times out and redis-py raises.        *)
ReadTimesOut(w) ==
  /\ pc[w] = "read"
  /\ Undelivered = {}
  /\ BlockFor(w) = 0
  /\ Abort(w)
  /\ UNCHANGED <<redis, accepted, history, faults>>

(* mark_running, first command: GET of the job's state.                    *)
MarkRunningGet(w) ==
  /\ pc[w] = "mark"
  /\ \E j \in batch[w] :
       /\ IsNext(w, j)
       /\ snap' = [snap EXCEPT ![w] = jobState[j].attempt]
  /\ pc' = [pc EXCEPT ![w] = "markEval"]
  /\ UNCHANGED <<redis, accepted, ready, cursor, batch, candidates, token, outcome,
                 history, faults>>

(* Mutant: the script does not look at the pending list.                   *)
MayMarkAnyway(w, j) == j \in batch[w]

(* What _MARK_RUNNING_LUA checks: the entry is still this consumer's.      *)
MayMark(w, j) == owner[j] = ConsumerName[w]

(* mark_running, second command: _MARK_RUNNING_LUA, which writes the state *)
(* computed from the snapshot.                                             *)
MarkRunning(w) ==
  /\ pc[w] = "markEval"
  /\ \E j \in batch[w], t \in FreshTokens :
       /\ IsNext(w, j)
       /\ MayMark(w, j)
       /\ jobState' = [jobState EXCEPT ![j] = RunningState(snap[w] + 1, w, t)]
       /\ marks' = [marks EXCEPT ![j] = @ + 1]
       /\ marker' = [marker EXCEPT ![j] = w]
       /\ \/ /\ token' = [token EXCEPT ![w] = t]
             /\ snap' = [snap EXCEPT ![w] = 0]
             /\ pc' = [pc EXCEPT ![w] = "generate"]
             /\ UNCHANGED <<ready, cursor, batch, candidates, outcome, faults>>
          \/ ReplyLost(w)
  /\ UNCHANGED <<stream, lastId, group, lastDelivered, owner, idle, accepted,
                 finisher, expired>>

(* The script returns 0: the entry went to another consumer.               *)
MarkRefused(w) ==
  /\ pc[w] = "markEval"
  /\ \E j \in batch[w] :
       /\ IsNext(w, j)
       /\ ~MayMark(w, j)
       /\ Advance(w, j)
  /\ UNCHANGED <<redis, accepted, history>>

(* generate_text returns a result or raises; either way the job gets a     *)
(* final status to write.                                                  *)
Generate(w) ==
  /\ pc[w] = "generate"
  /\ \E result \in Terminal : outcome' = [outcome EXCEPT ![w] = result]
  /\ pc' = [pc EXCEPT ![w] = "final"]
  /\ UNCHANGED <<redis, accepted, ready, cursor, batch, candidates, snap, token,
                 history, faults>>

(* complete/fail, first command: GET, and the lease check on the snapshot. *)
FinalizeGet(w) ==
  /\ pc[w] = "final"
  /\ \E j \in batch[w] :
       /\ IsNext(w, j)
       /\ jobState[j].token = token[w]
       /\ snap' = [snap EXCEPT ![w] = jobState[j].attempt]
  /\ pc' = [pc EXCEPT ![w] = "finalEval"]
  /\ UNCHANGED <<redis, accepted, ready, cursor, batch, candidates, token, outcome,
                 history, faults>>

LeaseStale(w) ==
  /\ pc[w] = "final"
  /\ \E j \in batch[w] :
       /\ IsNext(w, j)
       /\ jobState[j].token # token[w]
       /\ Advance(w, j)
  /\ UNCHANGED <<redis, accepted, history>>

(* Mutants: the script only checks that there is a state, or only that the *)
(* entry is this consumer's.                                               *)
MayFinalizeIfStored(w, j) == jobState[j].status # "missing"
MayFinalizeIfOwner(w, j) == owner[j] = ConsumerName[w]

(* What _FINALIZE_LUA checks before it writes.                             *)
MayFinalize(w, j) ==
  /\ owner[j] = ConsumerName[w]
  /\ jobState[j].token = token[w]

(* complete/fail, second command: the final state, XACK and XDEL.          *)
Finalize(w) ==
  /\ pc[w] = "finalEval"
  /\ \E j \in batch[w] :
       /\ IsNext(w, j)
       /\ MayFinalize(w, j)
       /\ jobState' = [jobState EXCEPT ![j] = TerminalState(outcome[w], snap[w], w)]
       /\ owner' = [owner EXCEPT ![j] = Nobody]
       /\ idle' = idle \ {j}
       /\ stream' = stream \ {j}
       /\ finisher' = [finisher EXCEPT ![j] = w]
       /\ Advance(w, j) \/ ReplyLost(w)
  /\ UNCHANGED <<lastId, group, lastDelivered, accepted, marks, marker, expired>>

FinalizeRefused(w) ==
  /\ pc[w] = "finalEval"
  /\ \E j \in batch[w] :
       /\ IsNext(w, j)
       /\ ~MayFinalize(w, j)
       /\ Advance(w, j)
  /\ UNCHANGED <<redis, accepted, history>>

(* The sleep of JOB_WORKER_ERROR_BACKOFF_SECONDS in the main loop.         *)
Wake(w) ==
  /\ pc[w] = "backoff"
  /\ pc' = [pc EXCEPT ![w] = IF ready[w] THEN "reclaim" ELSE "ensure"]
  /\ UNCHANGED <<redis, accepted, ready, cursor, batch, candidates, snap, token,
                 outcome, history, faults>>

-----------------------------------------------------------------------------
(* What the environment does.                                              *)

(* The command a worker has issued fails without taking effect.            *)
CommandFails(w) ==
  /\ pc[w] \in Waiting
  /\ ReplyLost(w)
  /\ UNCHANGED <<redis, accepted, history>>

(* The process dies and everything it holds in memory is gone.             *)
Crash(w) ==
  /\ pc[w] # "down"
  /\ Fault("crash")
  /\ pc' = [pc EXCEPT ![w] = "down"]
  /\ ready' = [ready EXCEPT ![w] = FALSE]
  /\ cursor' = [cursor EXCEPT ![w] = 0]
  /\ batch' = [batch EXCEPT ![w] = {}]
  /\ candidates' = [candidates EXCEPT ![w] = {}]
  /\ snap' = [snap EXCEPT ![w] = 0]
  /\ token' = [token EXCEPT ![w] = NoToken]
  /\ outcome' = [outcome EXCEPT ![w] = "none"]
  /\ UNCHANGED <<redis, accepted, history>>

(* The process is started again.  Nothing in the repository's deployment   *)
(* does this by itself, so no fairness is assumed of it.                   *)
Start(w) ==
  /\ pc[w] = "down"
  /\ pc' = [pc EXCEPT ![w] = "ensure"]
  /\ UNCHANGED <<redis, accepted, ready, cursor, batch, candidates, snap, token,
                 outcome, history, faults>>

(* reclaim_idle_ms pass for an entry nobody is working on.                 *)
Elapse(j) ==
  /\ j \in Pending \ idle
  /\ ~Held(j)
  /\ idle' = idle \cup {j}
  /\ UNCHANGED <<stream, lastId, group, lastDelivered, owner, jobState, accepted,
                 local, history, faults>>

(* They pass while its worker is still busy with it, or with the messages  *)
(* before it in the batch: idle time runs from delivery.                   *)
Overrun(j) ==
  /\ j \in Pending \ idle
  /\ Held(j)
  /\ Fault("overrun")
  /\ idle' = idle \cup {j}
  /\ UNCHANGED <<stream, lastId, group, lastDelivered, owner, jobState, accepted,
                 local, history>>

(* The TTL of the job's state key ends (every write restarts it).          *)
Expire(j) ==
  /\ jobState[j].status # "missing"
  /\ Fault("expire")
  /\ jobState' = [jobState EXCEPT ![j] = Missing]
  /\ expired' = expired \cup {j}
  /\ UNCHANGED <<stream, lastId, group, lastDelivered, owner, idle, accepted, local,
                 marks, marker, finisher>>

-----------------------------------------------------------------------------
Step(w) ==
  \/ EnsureGroup(w)
  \/ ReclaimIdle(w)
  \/ LegacyScan(w)
  \/ LegacyClaim(w)
  \/ ReadNew(w)
  \/ ReadNothing(w)
  \/ ReadTimesOut(w)
  \/ MarkRunningGet(w)
  \/ MarkRunning(w)
  \/ MarkRefused(w)
  \/ Generate(w)
  \/ FinalizeGet(w)
  \/ LeaseStale(w)
  \/ Finalize(w)
  \/ FinalizeRefused(w)
  \/ Wake(w)

Next ==
  \/ Enqueue
  \/ \E w \in Workers : Step(w) \/ CommandFails(w) \/ Crash(w) \/ Start(w)
  \/ \E j \in Jobs : Elapse(j) \/ Overrun(j) \/ Expire(j)

Spec == Init /\ [][Next]_vars

(* A live worker process keeps running: process_once is called in an       *)
(* endless loop, every Redis call has a socket timeout, and generate_text  *)
(* ends because every backend request has one.  Idle time passes.  Nobody  *)
(* has to submit jobs, and a dead worker need not come back.               *)
Fairness ==
  /\ \A w \in Workers : WF_vars(Step(w))
  /\ \A j \in Jobs : WF_vars(Elapse(j))

FairSpec == Spec /\ Fairness

-----------------------------------------------------------------------------
(* Correctness.                                                            *)

(* No job is lost: from the moment enqueue() wrote it, a job is either     *)
(* finished for good, or its entry is in the stream and somebody will get  *)
(* it: it is still to be delivered, or it is in the pending list, but      *)
(* never both.  This is the at-least-once promise of RedisStreamJobQueue.  *)
NoJobLost ==
  \A j \in 1 .. lastId :
    IF finisher[j] # Nobody
      THEN j \notin stream /\ j \notin Pending
      ELSE j \in stream /\ (j > lastDelivered <=> j \notin Pending)

(* A finished job stays as it is.  Whatever workers still hold the message *)
(* and write late, nothing changes its stored result but the TTL, and the  *)
(* message does not come back.                                             *)
FinishedJobsStay ==
  [][\A j \in Jobs : finisher[j] # Nobody =>
       /\ jobState'[j] \in {jobState[j], Missing}
       /\ finisher'[j] = finisher[j]
       /\ owner'[j] = Nobody]_vars

(* The delivery token fences stale workers: the process whose result is    *)
(* stored is the one that marked the job as running last, also when        *)
(* several processes run under one consumer name.                          *)
OnlyLatestLeaseFinishes ==
  \A j \in Jobs : finisher[j] # Nobody => finisher[j] = marker[j]

(* attempt_count is the number of executions that were started, although   *)
(* mark_running computes it from a snapshot read one command earlier.      *)
AttemptCountExact ==
  \A j \in Jobs \ expired : jobState[j].attempt = marks[j]

(* What GET /jobs/{job_id} answers is true: a job shown as queued has not  *)
(* been started, one shown as running can still be taken over, and a final *)
(* status is that of the process that finished it.                         *)
VisibleStatusIsTrue ==
  \A j \in Jobs :
    /\ jobState[j].status = "queued" =>
         marks[j] = 0 /\ j \in stream
    /\ jobState[j].status = "running" =>
         j \in Pending /\ jobState[j].worker = ConsumerName[marker[j]]
    /\ jobState[j].status \in Terminal =>
         finisher[j] # Nobody /\ jobState[j].worker = ConsumerName[finisher[j]]

(* The worker is between a successful mark_running and the end of          *)
(* complete/fail for job j.                                                *)
Executing(w, j) == pc[w] \in {"generate", "final", "finalEval"} /\ IsNext(w, j)

(* While no execution outlasts reclaim_idle_ms and every process has a     *)
(* consumer name of its own, no two live workers execute the same job,     *)
(* whatever crashes and lost replies do.                                   *)
NoDuplicateExecution ==
  \A v, w \in Workers, j \in Jobs : Executing(v, j) /\ Executing(w, j) => v = w

(* A job whose submission was answered with 202 is finished in the end,    *)
(* unless every worker process is dead: a message whose worker died stays  *)
(* in the pending list and another worker takes it over and completes it   *)
(* (the class comment of RedisStreamJobQueue).                             *)
EveryAcceptedJobFinishes ==
  \A j \in Jobs :
    j \in accepted ~> (finisher[j] # Nobody \/ \A w \in Workers : pc[w] = "down")

-----------------------------------------------------------------------------
(* Why it is correct: the inductive invariant.                             *)

(* A worker here may not have seen the consumer group yet.                 *)
Idling == {"down", "ensure", "backoff"}

(* The stream, its delivery mark and its pending list fit together.        *)
Delivery ==
  /\ stream \subseteq 1 .. lastId
  /\ lastDelivered <= lastId
  /\ ~group => lastDelivered = 0
  /\ \A w \in Workers : ready[w] \/ pc[w] \notin Idling => group
  /\ idle \subseteq Pending
  /\ \A j \in Jobs : j > lastId =>
       /\ owner[j] = Nobody /\ marker[j] = Nobody /\ finisher[j] = Nobody
       /\ jobState[j] = Missing /\ marks[j] = 0
  /\ NoJobLost

(* A delivery token in a worker's hands is a lease on the message the      *)
(* worker is at.  While the job's document shows that token, no process    *)
(* marked the job after this one.                                          *)
Leases ==
  /\ \A w \in Workers :
       token[w] # NoToken <=> pc[w] \in {"generate", "final", "finalEval"}
  /\ \A j \in Jobs : jobState[j].token # NoToken =>
       jobState[j].status = "running" /\ j \in Pending
  /\ \A w \in Workers, j \in Jobs :
       token[w] # NoToken /\ jobState[j].token = token[w] =>
         IsNext(w, j) /\ marker[j] = w
  /\ OnlyLatestLeaseFinishes

(* A snapshot that a script may still write back is not out of date.       *)
SnapshotTrue(w) ==
  \A j \in Jobs \ expired : IsNext(w, j) =>
    /\ pc[w] = "markEval" /\ owner[j] = ConsumerName[w] => snap[w] = marks[j]
    /\ pc[w] = "finalEval" /\ jobState[j].token = token[w] => snap[w] = marks[j]

Snapshots == \A w \in Workers : SnapshotTrue(w)

(* When nothing outlasts reclaim_idle_ms, a message in hand is the         *)
(* worker's own and never up for reclaim.                                  *)
InHand ==
  \A w \in Workers : \A j \in batch[w] : owner[j] = ConsumerName[w] /\ j \notin idle

IInv == TypeOK /\ Delivery /\ Leases /\ VisibleStatusIsTrue /\ AttemptCountExact /\ Snapshots

-----------------------------------------------------------------------------
(* The abstract queue that this one implements.                            *)
Promise == INSTANCE AtLeastOnceQueue WITH
  submitted <- 1 .. lastId,
  status    <- [j \in Jobs |-> jobState[j].status],
  holder    <- marker,
  doneBy    <- finisher

(* Every behaviour of the queue is one the abstract queue allows: a client *)
(* sees a job go from queued to running to a final status, a lease that    *)
(* was granted again can no longer finish the job, and nothing happens to  *)
(* a finished job but that it is forgotten.                                *)
KeepsPromise == Promise!Spec

=============================================================================
