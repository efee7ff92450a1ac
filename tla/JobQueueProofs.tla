--------------------------- MODULE JobQueueProofs ---------------------------
(***************************************************************************)
(* The safety of JobQueue, for every set of workers and tokens, every      *)
(* batch size and every number of jobs and faults.  The inductive          *)
(* invariant is IInv of JobQueue; its parts are taken one after the other, *)
(* each relying on those before it.                                        *)
(***************************************************************************)
EXTENDS JobQueue, TLAPS

-----------------------------------------------------------------------------
(* Every variable keeps its type.                                          *)

LEMMA MissingType == Missing \in JobRecord /\ Queued \in JobRecord
BY DEF Missing, Queued, JobRecord, Statuses

LEMMA TypeInit == Init => TypeOK
<1>. SUFFICES ASSUME Init PROVE TypeOK
  OBVIOUS
<1>1. RedisTypeOK
  <2>1. jobState \in [Jobs -> JobRecord]
    BY MissingType DEF Init
  <2>2. stream \subseteq Jobs /\ idle \subseteq Jobs
    BY DEF Init
  <2>3. group \in BOOLEAN
    BY DEF Init
  <2>4. lastId \in 0 .. MaxJobs /\ lastDelivered \in 0 .. MaxJobs
    BY QueueAssumption DEF Init
  <2>5. owner \in [Jobs -> Names \cup {Nobody}]
    BY DEF Init
  <2>. QED  BY <2>1, <2>2, <2>3, <2>4, <2>5 DEF RedisTypeOK
<1>2. WorkerTypeOK
  BY QueueAssumption DEF Init, WorkerTypeOK, Jobs, Phases
<1>3. HistoryTypeOK
  BY QueueAssumption DEF Init, HistoryTypeOK
<1>. QED  BY <1>1, <1>2, <1>3 DEF TypeOK

(* A worker step that ends in an error, or is done with a message, leaves  *)
(* the worker's own variables in their types.                              *)
LEMMA AbortTypes ==
  ASSUME WorkerTypeOK, NEW w \in Workers, Abort(w)
  PROVE  WorkerTypeOK'
BY DEF Abort, WorkerTypeOK, Phases

LEMMA AdvanceTypes ==
  ASSUME WorkerTypeOK, NEW w \in Workers, NEW j \in Jobs, Advance(w, j)
  PROVE  WorkerTypeOK'
BY DEF Advance, WorkerTypeOK, Phases

(* A fault keeps the counter in its bound.                                 *)
LEMMA FaultType ==
  ASSUME HistoryTypeOK, NEW kind, Fault(kind)
  PROVE  faults' \in 0 .. MaxFaults
BY QueueAssumption DEF HistoryTypeOK, Fault

LEMMA ClaimTypes ==
  ASSUME RedisTypeOK, NEW w \in Workers, NEW S, Claim(w, S)
  PROVE  owner' \in [Jobs -> Names \cup {Nobody}] /\ idle' \subseteq Jobs
BY DEF RedisTypeOK, Claim, Names

(* One step of a worker.                                                   *)
LEMMA WorkerTypeStep ==
  ASSUME TypeOK, NEW w \in Workers, Step(w)
  PROVE  WorkerTypeOK'
<1>. USE DEF TypeOK
<1>0. CASE Abort(w)
  BY <1>0, AbortTypes
<1>1. CASE EnsureGroup(w)
  BY <1>1, <1>0 DEF EnsureGroup, ReplyLost, WorkerTypeOK, Phases
<1>2. CASE ReclaimIdle(w)
  <2>. DEFINE claimed == AutoClaimed(w)
              full    == Cardinality(claimed) = BatchSize
              passed  == IF full THEN {k \in Reach(w) : \E j \in claimed : k <= j} ELSE Seen(w)
  <2>1. claimed \subseteq Jobs
    BY DEF AutoClaimed, Seen, Reach, FirstN, Pending
  <2>2. CursorAt(Reach(w) \ passed) \subseteq 0 .. MaxJobs
    <3>. HIDE DEF passed
    <3>1. Reach(w) \ passed \subseteq 0 .. MaxJobs
      BY QueueAssumption DEF Reach, Pending, Jobs
    <3>. QED  BY <3>1, QueueAssumption DEF CursorAt
  <2>3. CASE ReplyLost(w)
    BY <2>3, <1>0 DEF ReplyLost
  <2>4. CASE /\ \E next \in CursorAt(Reach(w) \ passed) :
                 cursor' = [cursor EXCEPT ![w] = next]
             /\ batch' = [batch EXCEPT ![w] = claimed]
             /\ pc' = [pc EXCEPT ![w] = IF full THEN "mark" ELSE "read"]
             /\ UNCHANGED <<ready, candidates, snap, token, outcome, faults>>
    <3>. HIDE DEF passed, claimed, full
    <3>. QED  BY <2>1, <2>2, <2>4 DEF WorkerTypeOK, Phases
  <2>. QED  BY <1>2, <2>3, <2>4 DEF ReclaimIdle
<1>3. CASE LegacyScan(w)
  BY <1>3 DEF LegacyScan, WorkerTypeOK, Phases, FirstN, Pending
<1>4. CASE LegacyClaim(w)
  BY <1>4, <1>0, QueueAssumption DEF LegacyClaim, StillIdle, ReplyLost, WorkerTypeOK, Phases, Pending
<1>5. CASE ReadNew(w)
  BY <1>5, <1>0 DEF ReadNew, ReplyLost, WorkerTypeOK, RedisTypeOK, Phases, Undelivered
<1>6. CASE ReadNothing(w)
  BY <1>6 DEF ReadNothing, WorkerTypeOK, Phases
<1>7. CASE ReadTimesOut(w)
  BY <1>7, <1>0 DEF ReadTimesOut
<1>8. CASE MarkRunningGet(w)
  BY <1>8 DEF MarkRunningGet, WorkerTypeOK, RedisTypeOK, JobRecord, Phases
<1>9. CASE MarkRunning(w)
  BY <1>9, <1>0 DEF MarkRunning, ReplyLost, WorkerTypeOK, FreshTokens, Phases
<1>10. CASE \E j \in Jobs : Advance(w, j)
  BY <1>10, AdvanceTypes
<1>11. CASE MarkRefused(w) \/ LeaseStale(w) \/ FinalizeRefused(w)
  BY <1>11, <1>10 DEF MarkRefused, LeaseStale, FinalizeRefused, WorkerTypeOK
<1>12. CASE Generate(w)
  BY <1>12 DEF Generate, WorkerTypeOK, Phases
<1>13. CASE FinalizeGet(w)
  BY <1>13 DEF FinalizeGet, WorkerTypeOK, RedisTypeOK, JobRecord, Phases
<1>14. CASE Finalize(w)
  BY <1>14, <1>0, <1>10 DEF Finalize, ReplyLost, WorkerTypeOK
<1>15. CASE Wake(w)
  BY <1>15 DEF Wake, WorkerTypeOK, Phases
<1>. QED
  BY <1>1, <1>2, <1>3, <1>4, <1>5, <1>6, <1>7, <1>8, <1>9, <1>11, <1>12, <1>13,
     <1>14, <1>15 DEF Step

LEMMA RedisTypeStep ==
  ASSUME TypeOK, NEW w \in Workers, Step(w)
  PROVE  RedisTypeOK'
<1>. USE DEF TypeOK
<1>1. CASE EnsureGroup(w)
  BY <1>1, QueueAssumption DEF EnsureGroup, RedisTypeOK
<1>2. CASE ReclaimIdle(w)
  BY <1>2, ClaimTypes DEF ReclaimIdle, RedisTypeOK
<1>3. CASE UNCHANGED redis
  BY <1>3 DEF redis, RedisTypeOK
<1>4. CASE LegacyClaim(w)
  BY <1>4, ClaimTypes DEF LegacyClaim, RedisTypeOK
<1>5. CASE ReadNew(w)
  <2>1. lastDelivered' \in 0 .. MaxJobs
    BY <1>5, QueueAssumption DEF ReadNew, Undelivered, RedisTypeOK, Jobs
  <2>. QED  BY <1>5, <2>1, ClaimTypes DEF ReadNew, RedisTypeOK
<1>6. CASE MarkRunning(w)
  <2>1. PICK j \in batch[w], t \in FreshTokens :
               jobState' = [jobState EXCEPT ![j] = RunningState(snap[w] + 1, w, t)]
    BY <1>6 DEF MarkRunning
  <2>2. RunningState(snap[w] + 1, w, t) \in JobRecord
    BY <2>1 DEF RunningState, JobRecord, Statuses, Names, FreshTokens, WorkerTypeOK
  <2>. QED  BY <1>6, <2>1, <2>2 DEF MarkRunning, RedisTypeOK
<1>7. CASE Finalize(w)
  <2>1. PICK j \in batch[w] :
          /\ jobState' = [jobState EXCEPT ![j] = TerminalState(outcome[w], snap[w], w)]
          /\ owner' = [owner EXCEPT ![j] = Nobody]
          /\ idle' = idle \ {j}
          /\ stream' = stream \ {j}
    BY <1>7 DEF Finalize
  <2>2. TerminalState(outcome[w], snap[w], w) \in JobRecord
    BY <1>7 DEF Finalize, TerminalState, JobRecord, Statuses, Terminal, Names, WorkerTypeOK
  <2>. QED  BY <1>7, <2>1, <2>2 DEF Finalize, RedisTypeOK
<1>. QED
  BY <1>1, <1>2, <1>3, <1>4, <1>5, <1>6, <1>7
  DEF Step, LegacyScan, ReadNothing, ReadTimesOut, MarkRunningGet, MarkRefused,
      Generate, FinalizeGet, LeaseStale, FinalizeRefused, Wake

LEMMA HistoryTypeStep ==
  ASSUME TypeOK, NEW w \in Workers, Step(w)
  PROVE  HistoryTypeOK'
<1>. USE DEF TypeOK
<1>1. faults' \in 0 .. MaxFaults
  <2>1. CASE Fault("error")
    BY <2>1, FaultType
  <2>2. CASE faults' = faults
    BY <2>2 DEF HistoryTypeOK
  <2>. QED
    BY <2>1, <2>2
    DEF Step, ReplyLost, Advance, EnsureGroup, ReclaimIdle, LegacyScan, LegacyClaim,
        ReadNew, ReadNothing, ReadTimesOut, MarkRunningGet, MarkRunning, MarkRefused,
        Generate, FinalizeGet, LeaseStale, Finalize, FinalizeRefused, Wake
<1>2. CASE MarkRunning(w)
  <2>0. PICK j \in batch[w] : /\ marks' = [marks EXCEPT ![j] = @ + 1]
                              /\ marker' = [marker EXCEPT ![j] = w]
    BY <1>2 DEF MarkRunning
  <2>1. marks' \in [Jobs -> Nat]
    <3>1. j \in Jobs
      BY DEF WorkerTypeOK
    <3>. QED  BY <2>0, <3>1 DEF HistoryTypeOK
  <2>2. marker' \in [Jobs -> Workers \cup {Nobody}]
    BY <2>0 DEF HistoryTypeOK
  <2>. QED  BY <1>1, <1>2, <2>1, <2>2 DEF MarkRunning, HistoryTypeOK
<1>3. CASE Finalize(w)
  <2>1. finisher' \in [Jobs -> Workers \cup {Nobody}]
    BY <1>3 DEF Finalize, HistoryTypeOK
  <2>. QED  BY <1>1, <1>3, <2>1 DEF Finalize, HistoryTypeOK
<1>4. CASE UNCHANGED <<accepted, history>>
  BY <1>1, <1>4 DEF history, HistoryTypeOK
<1>. QED
  BY <1>2, <1>3, <1>4
  DEF Step, EnsureGroup, ReclaimIdle, LegacyScan, LegacyClaim, ReadNew, ReadNothing,
      ReadTimesOut, MarkRunningGet, MarkRefused, Generate, FinalizeGet, LeaseStale,
      FinalizeRefused, Wake

(* Steps of the gateway, of the environment, and faults.                   *)
LEMMA TypeEnqueue == TypeOK /\ Enqueue => TypeOK'
<1>. SUFFICES ASSUME TypeOK, Enqueue PROVE TypeOK'
  OBVIOUS
<1>. USE DEF TypeOK
<1>1. lastId + 1 \in Jobs
  BY QueueAssumption DEF Enqueue, RedisTypeOK, Jobs
<1>2. RedisTypeOK'
  BY <1>1, QueueAssumption, MissingType DEF Enqueue, RedisTypeOK, Jobs
<1>3. WorkerTypeOK'
  BY DEF Enqueue, WorkerTypeOK, local
<1>4. HistoryTypeOK'
  BY <1>1, FaultType DEF Enqueue, Submitted, HistoryTypeOK, history
<1>. QED  BY <1>2, <1>3, <1>4

LEMMA TypeWorkerFault ==
  ASSUME TypeOK, NEW w \in Workers, CommandFails(w) \/ Crash(w) \/ Start(w)
  PROVE  TypeOK'
<1>. USE DEF TypeOK
<1>1. RedisTypeOK'
  BY DEF CommandFails, Crash, Start, redis, RedisTypeOK
<1>2. WorkerTypeOK'
  <2>1. CASE CommandFails(w)
    BY <2>1, AbortTypes DEF CommandFails, ReplyLost
  <2>2. CASE Crash(w)
    BY <2>2, QueueAssumption DEF Crash, WorkerTypeOK, Phases
  <2>3. CASE Start(w)
    BY <2>3 DEF Start, WorkerTypeOK, Phases
  <2>. QED  BY <2>1, <2>2, <2>3
<1>3. HistoryTypeOK'
  BY FaultType DEF CommandFails, Crash, Start, ReplyLost, history, HistoryTypeOK
<1>. QED  BY <1>1, <1>2, <1>3

LEMMA TypeJobFault ==
  ASSUME TypeOK, NEW j \in Jobs, Elapse(j) \/ Overrun(j) \/ Expire(j)
  PROVE  TypeOK'
<1>. USE DEF TypeOK
<1>1. RedisTypeOK'
  BY MissingType DEF Elapse, Overrun, Expire, RedisTypeOK
<1>2. WorkerTypeOK'
  BY DEF Elapse, Overrun, Expire, local, WorkerTypeOK
<1>3. HistoryTypeOK'
  BY FaultType DEF Elapse, Overrun, Expire, history, HistoryTypeOK
<1>. QED  BY <1>1, <1>2, <1>3

LEMMA TypeNext == TypeOK /\ [Next]_vars => TypeOK'
<1>. SUFFICES ASSUME TypeOK, [Next]_vars PROVE TypeOK'
  OBVIOUS
<1>1. CASE UNCHANGED vars
  BY <1>1 DEF vars, redis, local, history, TypeOK, RedisTypeOK, WorkerTypeOK,
              HistoryTypeOK
<1>2. ASSUME NEW w \in Workers, Step(w) PROVE TypeOK'
  BY <1>2, WorkerTypeStep, RedisTypeStep, HistoryTypeStep DEF TypeOK
<1>. QED
  BY <1>1, <1>2, TypeEnqueue, TypeWorkerFault, TypeJobFault DEF Next

(* In every reachable state every variable has its type.  In particular an *)
(* attempt count is a number and a stored status is one that the API       *)
(* documents, whatever the faults.                                         *)
THEOREM TypeCorrect == Spec => []TypeOK
BY TypeInit, TypeNext, PTL DEF Spec

-----------------------------------------------------------------------------
(* Delivery: the stream, the delivery mark and the pending list.           *)

LEMMA NobodyHasNoName == ASSUME NEW w \in Workers PROVE ConsumerName[w] # Nobody
BY QueueAssumption

(* Claiming entries makes them pending, and no longer idle.                *)
LEMMA ClaimPending ==
  ASSUME NEW w \in Workers, NEW S \in SUBSET Jobs, Claim(w, S)
  PROVE  Pending' = Pending \cup S
<1>1. \A j \in Jobs : owner'[j] # Nobody <=> j \in S \/ owner[j] # Nobody
  BY NobodyHasNoName DEF Claim
<1>. QED  BY <1>1 DEF Pending

LEMMA DeliveryInit == Init => Delivery
BY QueueAssumption DEF Init, Delivery, Pending, NoJobLost, Jobs, Idling

(* Nobody is past "ensure" before the group exists.                        *)
LEMMA GroupStep ==
  ASSUME TypeOK, Delivery, NEW w \in Workers, Step(w)
  PROVE  /\ ~group' => lastDelivered' = 0
         /\ \A v \in Workers : ready'[v] \/ pc'[v] \notin Idling => group'
<1>. USE DEF TypeOK, Idling
<1>1. CASE EnsureGroup(w)
  BY <1>1 DEF EnsureGroup
<1>2. CASE Wake(w)
  BY <1>2 DEF Wake, redis, Delivery, WorkerTypeOK
<1>3. CASE pc[w] \notin Idling /\ group' = group
  BY <1>3 DEF Delivery
<1>. QED
  BY <1>1, <1>2, <1>3
  DEF Step, ReclaimIdle, LegacyScan, LegacyClaim, ReadNew, ReadNothing, ReadTimesOut,
      MarkRunningGet, MarkRunning, MarkRefused, Generate, FinalizeGet, LeaseStale,
      Finalize, FinalizeRefused, redis

(* A claim of entries that are pending already changes nothing else.       *)
LEMMA DeliveryClaim ==
  ASSUME TypeOK, Delivery, NEW w \in Workers, NEW S \in SUBSET Pending, Claim(w, S),
         UNCHANGED <<stream, lastId, lastDelivered, jobState, history>>,
         ~group' => lastDelivered' = 0,
         \A v \in Workers : ready'[v] \/ pc'[v] \notin Idling => group'
  PROVE  Delivery'
<1>1. Pending' = Pending
  BY ClaimPending DEF Pending
<1>2. idle' \subseteq Pending'
  BY <1>1 DEF Claim, Delivery
<1>3. \A j \in Jobs : j > lastId => owner'[j] = Nobody
  BY <1>1 DEF Pending, Delivery
<1>4. NoJobLost'
  BY <1>1 DEF Delivery, NoJobLost, history
<1>. QED  BY <1>2, <1>3, <1>4 DEF Delivery, history

LEMMA DeliveryReadNew ==
  ASSUME TypeOK, Delivery, NEW w \in Workers, ReadNew(w)
  PROVE  Delivery'
<1>. USE DEF TypeOK
<1>1. PICK last \in Undelivered :
        LET got == {j \in Undelivered : j <= last}
        IN  lastDelivered' = last /\ Claim(w, got)
  BY DEF ReadNew
<1>. DEFINE got == {j \in Undelivered : j <= last}
<1>2. got \in SUBSET Jobs
  BY DEF Undelivered, RedisTypeOK
<1>3. Pending' = Pending \cup got
  BY <1>1, <1>2, ClaimPending
<1>4. UNCHANGED <<stream, lastId, group, jobState, history>>
  BY DEF ReadNew
<1>5. lastDelivered' <= lastId' /\ last > lastDelivered /\ last \in stream
  BY <1>1, <1>4 DEF Undelivered, Delivery, RedisTypeOK, Jobs
<1>6. idle' \subseteq Pending'
  BY <1>1, <1>3 DEF Claim, Delivery
<1>7. \A j \in Jobs : j > lastId => owner'[j] = Nobody
  <2>1. \A j \in got : j <= lastId
    BY DEF Undelivered, Delivery, RedisTypeOK
  <2>. QED  BY <1>3, <2>1 DEF Pending, Delivery, RedisTypeOK, Jobs
<1>8. NoJobLost'
  <2>. SUFFICES ASSUME NEW j \in 1 .. lastId
                PROVE  IF finisher[j] # Nobody
                         THEN j \notin stream /\ j \notin Pending'
                         ELSE j \in stream /\ (j > last <=> j \notin Pending')
    BY <1>1, <1>4 DEF NoJobLost, history
  <2>1. j \in Jobs
    BY QueueAssumption DEF RedisTypeOK, Jobs
  <2>2. j \in got <=> j \in stream /\ j > lastDelivered /\ j <= last
    BY DEF Undelivered
  <2>. QED
    BY <1>3, <1>5, <2>1, <2>2 DEF Delivery, NoJobLost, RedisTypeOK, Jobs
<1>. QED
  BY <1>4, <1>5, <1>6, <1>7, <1>8, GroupStep DEF Step, Delivery, history

(* A pending entry belongs to a job that was submitted and not finished.   *)
LEMMA PendingJob ==
  ASSUME TypeOK, Delivery, NEW j \in Pending
  PROVE  j \in 1 .. lastId /\ finisher[j] = Nobody /\ j \in stream /\ j <= lastDelivered
<1>1. j \in 1 .. lastId
  BY DEF Pending, Delivery, TypeOK, RedisTypeOK, Jobs
<1>. QED  BY <1>1 DEF Delivery, NoJobLost, TypeOK, RedisTypeOK

LEMMA DeliveryMarkRunning ==
  ASSUME TypeOK, Delivery, NEW w \in Workers, MarkRunning(w)
  PROVE  Delivery'
<1>1. PICK j \in batch[w], t \in FreshTokens :
        /\ owner[j] = ConsumerName[w]
        /\ jobState' = [jobState EXCEPT ![j] = RunningState(snap[w] + 1, w, t)]
        /\ marks' = [marks EXCEPT ![j] = @ + 1]
        /\ marker' = [marker EXCEPT ![j] = w]
  BY DEF MarkRunning, MayMark
<1>2. j \in Jobs /\ ~(j > lastId)
  <2>1. j \in Pending
    BY <1>1, NobodyHasNoName DEF Pending, TypeOK, WorkerTypeOK
  <2>. QED  BY <2>1, PendingJob DEF TypeOK, RedisTypeOK, Pending
<1>3. UNCHANGED <<stream, lastId, group, lastDelivered, owner, idle, finisher>>
  BY DEF MarkRunning, MayMark
<1>4. Pending' = Pending
  BY <1>3 DEF Pending
<1>5. NoJobLost'
  BY <1>3, <1>4 DEF Delivery, NoJobLost
<1>6. \A k \in Jobs : k > lastId =>
        jobState'[k] = Missing /\ marks'[k] = 0 /\ marker'[k] = Nobody
  BY <1>1, <1>2 DEF Delivery, TypeOK, RedisTypeOK, HistoryTypeOK
<1>. QED  BY <1>3, <1>4, <1>5, <1>6, GroupStep DEF Step, Delivery

LEMMA DeliveryFinalize ==
  ASSUME TypeOK, Delivery, NEW w \in Workers, Finalize(w)
  PROVE  Delivery'
<1>1. PICK j \in batch[w] :
        /\ owner[j] = ConsumerName[w]
        /\ jobState' = [jobState EXCEPT ![j] = TerminalState(outcome[w], snap[w], w)]
        /\ owner' = [owner EXCEPT ![j] = Nobody]
        /\ idle' = idle \ {j}
        /\ stream' = stream \ {j}
        /\ finisher' = [finisher EXCEPT ![j] = w]
  BY DEF Finalize, MayFinalize
<1>2. j \in Pending
  BY <1>1, NobodyHasNoName DEF Pending, TypeOK, WorkerTypeOK
<1>3. j \in Jobs /\ ~(j > lastId) /\ j <= lastDelivered
  BY <1>2, PendingJob DEF TypeOK, RedisTypeOK, Pending
<1>4. UNCHANGED <<lastId, group, lastDelivered, marks, marker>>
  BY DEF Finalize
<1>5. Pending' = Pending \ {j}
  BY <1>1, <1>3 DEF Pending, TypeOK, RedisTypeOK
<1>6. NoJobLost'
  <2>. SUFFICES ASSUME NEW k \in 1 .. lastId
                PROVE  IF finisher'[k] # Nobody
                         THEN k \notin stream' /\ k \notin Pending'
                         ELSE k \in stream' /\ (k > lastDelivered <=> k \notin Pending')
    BY <1>4 DEF NoJobLost
  <2>1. k \in Jobs
    BY QueueAssumption DEF TypeOK, RedisTypeOK, Jobs
  <2>2. CASE k = j
    BY <1>1, <1>3, <1>5, <2>2, QueueAssumption DEF TypeOK, HistoryTypeOK
  <2>3. CASE k # j
    BY <1>1, <1>5, <2>1, <2>3 DEF Delivery, NoJobLost, TypeOK, HistoryTypeOK
  <2>. QED  BY <2>2, <2>3
<1>7. \A k \in Jobs : k > lastId =>
        /\ owner'[k] = Nobody /\ marker'[k] = Nobody /\ finisher'[k] = Nobody
        /\ jobState'[k] = Missing /\ marks'[k] = 0
  BY <1>1, <1>3, <1>4 DEF Delivery, TypeOK, RedisTypeOK, HistoryTypeOK
<1>8. stream' \subseteq 1 .. lastId /\ idle' \subseteq Pending'
  BY <1>1, <1>5 DEF Delivery
<1>. QED  BY <1>4, <1>6, <1>7, <1>8, GroupStep DEF Step, Delivery

LEMMA DeliveryStep ==
  ASSUME TypeOK, Delivery, NEW w \in Workers, Step(w)
  PROVE  Delivery'
<1>0. /\ ~group' => lastDelivered' = 0
      /\ \A v \in Workers : ready'[v] \/ pc'[v] \notin Idling => group'
  BY GroupStep
<1>1. CASE EnsureGroup(w)
  <2>1. UNCHANGED <<stream, lastId, owner, idle, jobState, history, lastDelivered>>
    BY <1>1 DEF EnsureGroup, Delivery
  <2>. QED  BY <1>0, <2>1 DEF Delivery, NoJobLost, Pending, history
<1>2. CASE ReclaimIdle(w)
  <2>1. \E S \in SUBSET Pending : Claim(w, S)
    BY <1>2 DEF ReclaimIdle, AutoClaimed, Seen, Reach, FirstN
  <2>. QED  BY <1>0, <1>2, <2>1, DeliveryClaim DEF ReclaimIdle
<1>3. CASE LegacyClaim(w)
  <2>1. \E S \in SUBSET Pending : Claim(w, S)
    BY <1>3 DEF LegacyClaim, StillIdle
  <2>. QED  BY <1>0, <1>3, <2>1, DeliveryClaim DEF LegacyClaim, StillIdle
<1>4. CASE UNCHANGED <<redis, history>>
  BY <1>0, <1>4 DEF Delivery, NoJobLost, Pending, redis, history
<1>. QED
  BY <1>1, <1>2, <1>3, <1>4, DeliveryReadNew, DeliveryMarkRunning, DeliveryFinalize
  DEF Step, LegacyScan, ReadNothing, ReadTimesOut, MarkRunningGet, MarkRefused,
      Generate, FinalizeGet, LeaseStale, FinalizeRefused, Wake

LEMMA DeliveryEnqueue == TypeOK /\ Delivery /\ Enqueue => Delivery'
<1>. SUFFICES ASSUME TypeOK, Delivery, Enqueue PROVE Delivery'
  OBVIOUS
<1>. DEFINE j == lastId + 1
<1>1. /\ lastId' = j /\ stream' = stream \cup {j}
      /\ jobState' = [jobState EXCEPT ![j] = Queued]
      /\ UNCHANGED <<group, lastDelivered, owner, idle, pc, ready, marks, marker, finisher>>
  BY DEF Enqueue, local, history
<1>2. j \in Jobs /\ lastId \in Nat /\ lastDelivered \in Nat
  BY QueueAssumption DEF Enqueue, TypeOK, RedisTypeOK, Jobs
<1>3. Pending' = Pending
  BY <1>1 DEF Pending
<1>4. owner[j] = Nobody /\ finisher[j] = Nobody /\ j > lastDelivered
  BY <1>2 DEF Delivery
<1>5. NoJobLost'
  <2>. SUFFICES ASSUME NEW k \in 1 .. j
                PROVE  IF finisher[k] # Nobody
                         THEN k \notin stream' /\ k \notin Pending
                         ELSE k \in stream' /\ (k > lastDelivered <=> k \notin Pending)
    BY <1>1, <1>3 DEF NoJobLost
  <2>1. CASE k = j
    BY <1>1, <1>2, <1>4, <2>1 DEF Pending
  <2>2. CASE k \in 1 .. lastId
    BY <1>1, <1>2, <2>2 DEF Delivery, NoJobLost
  <2>. QED  BY <1>2, <2>1, <2>2
<1>6. \A k \in Jobs : k > j => jobState'[k] = Missing /\ k > lastId
  BY <1>1, <1>2 DEF Delivery, TypeOK, RedisTypeOK, Jobs
<1>7. stream' \subseteq 1 .. j /\ lastDelivered <= j
  BY <1>1, <1>2 DEF Delivery
<1>. QED
  BY <1>1, <1>3, <1>5, <1>6, <1>7 DEF Delivery

LEMMA DeliveryNext == TypeOK /\ Delivery /\ [Next]_vars => Delivery'
<1>. SUFFICES ASSUME TypeOK, Delivery, [Next]_vars PROVE Delivery'
  OBVIOUS
<1>1. CASE UNCHANGED vars
  BY <1>1 DEF vars, redis, local, history, Delivery, NoJobLost, Pending
<1>2. ASSUME NEW w \in Workers, CommandFails(w) \/ Crash(w) \/ Start(w)
      PROVE  Delivery'
  <2>1. \A v \in Workers : ready'[v] \/ pc'[v] \notin Idling => group
    BY <1>2 DEF CommandFails, ReplyLost, Abort, Crash, Start, Idling, Delivery,
                TypeOK, WorkerTypeOK
  <2>2. UNCHANGED <<redis, history>>
    BY <1>2 DEF CommandFails, Crash, Start
  <2>. QED  BY <2>1, <2>2 DEF redis, history, Delivery, NoJobLost, Pending
<1>3. ASSUME NEW j \in Jobs, Elapse(j) \/ Overrun(j)
      PROVE  Delivery'
  <2>1. UNCHANGED <<stream, lastId, group, lastDelivered, owner, jobState, pc, ready,
                    history>>
    BY <1>3 DEF Elapse, Overrun, local
  <2>2. idle' = idle \cup {j} /\ j \in Pending
    BY <1>3 DEF Elapse, Overrun
  <2>3. Pending' = Pending
    BY <2>1 DEF Pending
  <2>. QED  BY <2>1, <2>2, <2>3 DEF history, Delivery, NoJobLost
<1>4. ASSUME NEW j \in Jobs, Expire(j)
      PROVE  Delivery'
  <2>1. UNCHANGED <<stream, lastId, group, lastDelivered, owner, idle, pc, ready,
                    marks, marker, finisher>>
    BY <1>4 DEF Expire, local
  <2>2. \A k \in Jobs : k > lastId => jobState'[k] = Missing
    BY <1>4 DEF Expire, Delivery, TypeOK, RedisTypeOK
  <2>. QED  BY <2>1, <2>2 DEF Delivery, NoJobLost, Pending
<1>. QED
  BY <1>1, <1>2, <1>3, <1>4, DeliveryStep, DeliveryEnqueue DEF Next

(* No job is lost, whatever workers crash and whatever replies are lost:   *)
(* every submitted job is finished or still in the stream, to be delivered *)
(* for the first time or again.                                            *)
THEOREM JobsAreNeverLost == Spec => []NoJobLost
<1>1. Init => TypeOK /\ Delivery
  BY TypeInit, DeliveryInit
<1>2. TypeOK /\ Delivery /\ [Next]_vars => TypeOK' /\ Delivery'
  BY TypeNext, DeliveryNext
<1>3. Delivery => NoJobLost
  BY DEF Delivery
<1>. QED  BY <1>1, <1>2, <1>3, PTL DEF Spec

-----------------------------------------------------------------------------
(* Leases: what a delivery token in a worker's hands means.                *)

(* A worker holds a token exactly while it executes a job.                 *)
TokenHeld ==
  \A w \in Workers : token[w] # NoToken <=> pc[w] \in {"generate", "final", "finalEval"}

LEMMA AbortToken ==
  ASSUME TypeOK, TokenHeld, NEW w \in Workers,
         Abort(w) \/ \E j \in Jobs : Advance(w, j)
  PROVE  TokenHeld'
BY DEF Abort, Advance, TokenHeld, TypeOK, WorkerTypeOK

LEMMA TokenHeldStep ==
  ASSUME TypeOK, TokenHeld, NEW w \in Workers, Step(w)
  PROVE  TokenHeld'
<1>. USE DEF TypeOK, WorkerTypeOK, TokenHeld
<1>1. CASE Abort(w) \/ \E j \in Jobs : Advance(w, j)
  BY <1>1, AbortToken
<1>2. CASE /\ token' = token
           /\ \E phase \in Phases \ {"generate", "final", "finalEval"} :
                pc' = [pc EXCEPT ![w] = phase]
           /\ pc[w] \notin {"generate", "final", "finalEval"}
  BY <1>2
<1>3. CASE Generate(w) \/ FinalizeGet(w)
  BY <1>3 DEF Generate, FinalizeGet
<1>4. CASE MarkRunning(w)
  <2>1. CASE ReplyLost(w)
    BY <2>1, <1>1 DEF ReplyLost
  <2>2. CASE ~ReplyLost(w)
    BY <1>4, <2>2, QueueAssumption DEF MarkRunning, FreshTokens
  <2>. QED  BY <2>1, <2>2
<1>5. CASE EnsureGroup(w) \/ ReclaimIdle(w) \/ LegacyClaim(w) \/ ReadNew(w)
  BY <1>1, <1>2, <1>5 DEF EnsureGroup, ReclaimIdle, LegacyClaim, ReadNew, ReplyLost, Phases
<1>6. CASE LegacyScan(w) \/ ReadNothing(w) \/ MarkRunningGet(w) \/ Wake(w)
  BY <1>2, <1>6 DEF LegacyScan, ReadNothing, MarkRunningGet, Wake, Phases
<1>7. CASE ReadTimesOut(w) \/ MarkRefused(w) \/ LeaseStale(w) \/ Finalize(w)
           \/ FinalizeRefused(w)
  BY <1>1, <1>7 DEF ReadTimesOut, MarkRefused, LeaseStale, Finalize, FinalizeRefused,
                    ReplyLost
<1>. QED  BY <1>3, <1>4, <1>5, <1>6, <1>7 DEF Step

LEMMA TokenHeldNext == TypeOK /\ TokenHeld /\ [Next]_vars => TokenHeld'
<1>. SUFFICES ASSUME TypeOK, TokenHeld, [Next]_vars PROVE TokenHeld'
  OBVIOUS
<1>1. CASE UNCHANGED local
  BY <1>1 DEF local, TokenHeld
<1>2. ASSUME NEW w \in Workers, CommandFails(w) \/ Crash(w) \/ Start(w)
      PROVE  TokenHeld'
  <2>1. CASE CommandFails(w)
    BY <2>1, AbortToken DEF CommandFails, ReplyLost
  <2>2. CASE Crash(w) \/ Start(w)
    BY <2>2 DEF Crash, Start, TypeOK, WorkerTypeOK, TokenHeld
  <2>. QED  BY <1>2, <2>1, <2>2
<1>. QED
  BY <1>1, <1>2, TokenHeldStep DEF Next, Enqueue, Elapse, Overrun, Expire, vars

(* A step that marks and finishes nothing, and takes no message away from  *)
(* a worker that goes on executing it, keeps the leases.                   *)
LEMMA LeasesQuiet ==
  ASSUME TypeOK, Leases, TokenHeld',
         Pending \subseteq Pending', UNCHANGED <<marker, finisher>>,
         \A j \in Jobs : jobState'[j].token = NoToken \/ jobState'[j] = jobState[j],
         \A w \in Workers : \/ token'[w] = NoToken
                            \/ token'[w] = token[w] /\ batch'[w] = batch[w]
  PROVE  Leases'
<1>1. \A j \in Jobs : jobState'[j].token # NoToken =>
        jobState'[j].status = "running" /\ j \in Pending'
  BY DEF Leases
<1>2. ASSUME NEW w \in Workers, NEW j \in Jobs,
             token'[w] # NoToken, jobState'[j].token = token'[w]
      PROVE  IsNext(w, j)' /\ marker'[j] = w
  <2>1. token[w] # NoToken /\ jobState[j].token = token[w] /\ batch'[w] = batch[w]
    BY <1>2
  <2>. QED  BY <2>1 DEF Leases, IsNext
<1>3. OnlyLatestLeaseFinishes'
  BY DEF Leases, OnlyLatestLeaseFinishes
<1>. QED  BY <1>1, <1>2, <1>3 DEF Leases, TokenHeld

LEMMA LeasesMarkRunning ==
  ASSUME TypeOK, Delivery, Leases, TokenHeld', NEW w \in Workers, MarkRunning(w)
  PROVE  Leases'
<1>1. PICK j \in batch[w], t \in FreshTokens :
        /\ IsNext(w, j)
        /\ owner[j] = ConsumerName[w]
        /\ jobState' = [jobState EXCEPT ![j] = RunningState(snap[w] + 1, w, t)]
        /\ marker' = [marker EXCEPT ![j] = w]
        /\ \/ token' = [token EXCEPT ![w] = t] /\ batch' = batch
           \/ Abort(w)
  BY DEF MarkRunning, MayMark, ReplyLost
<1>2. j \in Pending
  BY <1>1, NobodyHasNoName DEF Pending, TypeOK, WorkerTypeOK
<1>3. finisher[j] = Nobody /\ j \in Jobs
  BY <1>2, PendingJob DEF Pending
<1>4. UNCHANGED <<finisher, owner>>
  BY DEF MarkRunning, MayMark
<1>5. Pending' = Pending
  BY <1>4 DEF Pending
<1>6. jobState'[j].token = t /\ jobState'[j].status = "running"
  BY <1>1, <1>3 DEF RunningState, TypeOK, RedisTypeOK
<1>7. \A k \in Jobs \ {j} : jobState'[k] = jobState[k] /\ marker'[k] = marker[k]
  BY <1>1 DEF TypeOK, RedisTypeOK, HistoryTypeOK
<1>8. /\ t # NoToken
      /\ \A k \in Jobs : jobState[k].token # t
      /\ \A v \in Workers : token[v] # t
  BY QueueAssumption DEF FreshTokens, Remembered
<1>9. \A k \in Jobs : jobState'[k].token # NoToken =>
        jobState'[k].status = "running" /\ k \in Pending'
  BY <1>2, <1>5, <1>6, <1>7 DEF Leases
<1>10. ASSUME NEW v \in Workers, NEW k \in Jobs,
              token'[v] # NoToken, jobState'[k].token = token'[v]
       PROVE  IsNext(v, k)' /\ marker'[k] = v
  <2>1. CASE v = w
    <3>1. token'[w] = t /\ batch' = batch
      BY <1>1, <1>10, <2>1 DEF Abort, TypeOK, WorkerTypeOK
    <3>2. k = j
      BY <1>7, <1>8, <1>10, <2>1, <3>1
    <3>. QED  BY <1>1, <1>3, <2>1, <3>1, <3>2 DEF IsNext, TypeOK, HistoryTypeOK
  <2>2. CASE v # w
    <3>1. token'[v] = token[v] /\ batch'[v] = batch[v]
      BY <1>1, <2>2 DEF Abort, TypeOK, WorkerTypeOK
    <3>2. k # j /\ jobState[k].token = token[v]
      BY <1>6, <1>7, <1>8, <1>10, <3>1
    <3>. QED  BY <1>7, <1>10, <3>1, <3>2 DEF Leases, IsNext
  <2>. QED  BY <2>1, <2>2
<1>11. OnlyLatestLeaseFinishes'
  BY <1>3, <1>4, <1>7 DEF Leases, OnlyLatestLeaseFinishes
<1>. QED  BY <1>9, <1>10, <1>11 DEF Leases, TokenHeld

LEMMA LeasesFinalize ==
  ASSUME TypeOK, Delivery, Leases, TokenHeld', NEW w \in Workers, Finalize(w)
  PROVE  Leases'
<1>1. PICK j \in batch[w] :
        /\ jobState[j].token = token[w]
        /\ jobState' = [jobState EXCEPT ![j] = TerminalState(outcome[w], snap[w], w)]
        /\ owner' = [owner EXCEPT ![j] = Nobody]
        /\ finisher' = [finisher EXCEPT ![j] = w]
        /\ Advance(w, j) \/ Abort(w)
  BY DEF Finalize, MayFinalize, ReplyLost
<1>2. j \in Jobs /\ pc[w] = "finalEval" /\ marker' = marker
  BY DEF Finalize, TypeOK, WorkerTypeOK
<1>3. marker[j] = w
  BY <1>1, <1>2 DEF Leases
<1>4. jobState'[j].token = NoToken
  BY <1>1, <1>2 DEF TerminalState, TypeOK, RedisTypeOK
<1>5. \A k \in Jobs \ {j} : /\ jobState'[k] = jobState[k]
                            /\ finisher'[k] = finisher[k]
                            /\ owner'[k] = owner[k]
  BY <1>1 DEF TypeOK, RedisTypeOK, HistoryTypeOK
<1>6. \A k \in Jobs : jobState'[k].token # NoToken =>
        jobState'[k].status = "running" /\ k \in Pending'
  BY <1>4, <1>5 DEF Leases, Pending
<1>7. ASSUME NEW v \in Workers, NEW k \in Jobs,
             token'[v] # NoToken, jobState'[k].token = token'[v]
      PROVE  IsNext(v, k)' /\ marker'[k] = v
  <2>1. k # j /\ jobState'[k] = jobState[k]
    BY <1>4, <1>5, <1>7
  <2>2. token'[v] = token[v] /\ batch'[v] = batch[v]
    BY <1>1, <1>7 DEF Advance, Abort, TypeOK, WorkerTypeOK
  <2>. QED  BY <1>2, <1>7, <2>1, <2>2 DEF Leases, IsNext
<1>8. OnlyLatestLeaseFinishes'
  BY <1>1, <1>2, <1>3, <1>5 DEF Leases, OnlyLatestLeaseFinishes, TypeOK, HistoryTypeOK
<1>. QED  BY <1>6, <1>7, <1>8 DEF Leases, TokenHeld

(* The other steps of a worker leave the jobs' documents alone, and no     *)
(* entry leaves the pending list.                                          *)
LEMMA QuietStep ==
  ASSUME TypeOK, NEW w \in Workers, Step(w), ~MarkRunning(w), ~Finalize(w)
  PROVE  /\ UNCHANGED <<stream, lastId, jobState, history>>
         /\ Pending \subseteq Pending'
<1>1. UNCHANGED <<stream, lastId, jobState, history>>
  BY DEF Step, EnsureGroup, ReclaimIdle, LegacyScan, LegacyClaim, ReadNew, ReadNothing,
         ReadTimesOut, MarkRunningGet, MarkRefused, Generate, FinalizeGet, LeaseStale,
         FinalizeRefused, Wake, redis
<1>2. CASE UNCHANGED owner
  BY <1>1, <1>2 DEF Pending
<1>3. CASE \E S \in SUBSET Jobs : Claim(w, S)
  BY <1>1, <1>3, ClaimPending
<1>4. CASE ReclaimIdle(w)
  BY <1>3, <1>4 DEF ReclaimIdle, AutoClaimed, Seen, Reach, FirstN, Pending
<1>5. CASE LegacyClaim(w)
  BY <1>3, <1>5 DEF LegacyClaim, StillIdle, Pending
<1>6. CASE ReadNew(w)
  BY <1>3, <1>6 DEF ReadNew, Undelivered, TypeOK, RedisTypeOK
<1>. QED
  BY <1>2, <1>4, <1>5, <1>6
  DEF Step, EnsureGroup, LegacyScan, ReadNothing, ReadTimesOut, MarkRunningGet,
      MarkRefused, Generate, FinalizeGet, LeaseStale, FinalizeRefused, Wake, redis

LEMMA LeasesNext == TypeOK /\ Delivery /\ Leases /\ [Next]_vars => Leases'
<1>. SUFFICES ASSUME TypeOK, Delivery, Leases, [Next]_vars PROVE Leases'
  OBVIOUS
<1>0. TokenHeld /\ TokenHeld'
  BY TokenHeldNext DEF Leases, TokenHeld
<1>1. CASE UNCHANGED <<redis, local, history>>
  BY <1>0, <1>1, LeasesQuiet DEF redis, local, history, Pending
<1>2. ASSUME NEW w \in Workers, Step(w)
      PROVE  Leases'
  <2>1. CASE MarkRunning(w)
    BY <1>0, <2>1, LeasesMarkRunning
  <2>2. CASE Finalize(w)
    BY <1>0, <2>2, LeasesFinalize
  <2>3. CASE ~MarkRunning(w) /\ ~Finalize(w)
    <3>1. UNCHANGED <<jobState, marker, finisher>> /\ Pending \subseteq Pending'
      BY <1>2, <2>3, QuietStep DEF history
    <3>2. TokenHeld'
      BY <1>0
    <3>3. \A v \in Workers \ {w} : token'[v] = token[v] /\ batch'[v] = batch[v]
      BY <1>2, <2>3
      DEF Step, EnsureGroup, ReclaimIdle, LegacyScan, LegacyClaim, ReadNew, ReadNothing,
          ReadTimesOut, MarkRunningGet, MarkRefused, Generate, FinalizeGet, LeaseStale,
          FinalizeRefused, Wake, ReplyLost, Abort, Advance, TypeOK, WorkerTypeOK
    <3>4. \/ token'[w] = NoToken
          \/ token'[w] = token[w] /\ batch'[w] = batch[w]
      <4>1. CASE Generate(w) \/ FinalizeGet(w)
        BY <4>1 DEF Generate, FinalizeGet
      <4>2. CASE Abort(w) \/ \E j \in Jobs : Advance(w, j)
        <5>1. token' = [token EXCEPT ![w] = NoToken]
          BY <4>2 DEF Abort, Advance
        <5>. QED  BY <5>1 DEF TypeOK, WorkerTypeOK
      <4>3. CASE token' = token /\ pc[w] \notin {"generate", "final", "finalEval"}
        <5>1. token[w] = NoToken
          BY <4>3 DEF Leases
        <5>. QED  BY <4>3, <5>1
      <4>4. CASE ReadTimesOut(w) \/ MarkRefused(w) \/ LeaseStale(w) \/ FinalizeRefused(w)
        BY <4>2, <4>4 DEF ReadTimesOut, MarkRefused, LeaseStale, FinalizeRefused, TypeOK,
                          WorkerTypeOK
      <4>5. CASE EnsureGroup(w) \/ ReclaimIdle(w) \/ LegacyScan(w) \/ LegacyClaim(w)
        BY <4>2, <4>3, <4>5 DEF EnsureGroup, ReclaimIdle, LegacyScan, LegacyClaim, ReplyLost
      <4>6. CASE ReadNew(w) \/ ReadNothing(w) \/ MarkRunningGet(w) \/ Wake(w)
        BY <4>2, <4>3, <4>6 DEF ReadNew, ReadNothing, MarkRunningGet, Wake, ReplyLost
      <4>. QED  BY <1>2, <2>3, <4>1, <4>4, <4>5, <4>6 DEF Step
    <3>. QED  BY <3>1, <3>2, <3>3, <3>4, LeasesQuiet
  <2>. QED  BY <2>1, <2>2, <2>3
<1>3. ASSUME NEW w \in Workers, CommandFails(w) \/ Crash(w) \/ Start(w)
      PROVE  Leases'
  <2>1. UNCHANGED <<redis, history>>
    BY <1>3 DEF CommandFails, Crash, Start
  <2>2. \A v \in Workers : \/ token'[v] = NoToken
                           \/ token'[v] = token[v] /\ batch'[v] = batch[v]
    BY <1>3 DEF CommandFails, ReplyLost, Abort, Crash, Start, TypeOK, WorkerTypeOK
  <2>. QED  BY <1>0, <2>1, <2>2, LeasesQuiet DEF redis, history, Pending
<1>4. CASE Enqueue
  <2>1. lastId + 1 \in Jobs
    BY <1>4, QueueAssumption DEF Enqueue, TypeOK, RedisTypeOK, Jobs
  <2>2. \A j \in Jobs : jobState'[j].token = NoToken \/ jobState'[j] = jobState[j]
    BY <1>4, <2>1 DEF Enqueue, Queued, Missing, TypeOK, RedisTypeOK
  <2>. QED  BY <1>0, <1>4, <2>2, LeasesQuiet DEF Enqueue, local, history, Pending
<1>5. ASSUME NEW j \in Jobs, Elapse(j) \/ Overrun(j)
      PROVE  Leases'
  BY <1>0, <1>5, LeasesQuiet DEF Elapse, Overrun, local, history, Pending
<1>6. ASSUME NEW j \in Jobs, Expire(j)
      PROVE  Leases'
  <2>1. \A k \in Jobs : jobState'[k].token = NoToken \/ jobState'[k] = jobState[k]
    BY <1>6 DEF Expire, Missing, TypeOK, RedisTypeOK
  <2>. QED  BY <1>0, <1>6, <2>1, LeasesQuiet DEF Expire, local, Pending
<1>. QED
  BY <1>1, <1>2, <1>3, <1>4, <1>5, <1>6 DEF Next, vars

LEMMA LeasesInit == Init => Leases
BY DEF Init, Leases, Missing, OnlyLatestLeaseFinishes

LEMMA SafetyInvariant == Spec => [](TypeOK /\ Delivery /\ Leases)
<1>1. Init => TypeOK /\ Delivery /\ Leases
  BY TypeInit, DeliveryInit, LeasesInit
<1>2. TypeOK /\ Delivery /\ Leases /\ [Next]_vars => (TypeOK /\ Delivery /\ Leases)'
  BY TypeNext, DeliveryNext, LeasesNext
<1>. QED  BY <1>1, <1>2, PTL DEF Spec

(* The stored result is that of the process that marked the job last, no   *)
(* matter which stale workers finish late, and even if processes share a   *)
(* consumer name.                                                          *)
THEOREM LatestLeaseWins == Spec => []OnlyLatestLeaseFinishes
BY SafetyInvariant, PTL DEF Leases

-----------------------------------------------------------------------------
(* Finished jobs, and what clients are shown.                              *)

LEMMA FinishedStep ==
  TypeOK /\ Delivery /\ [Next]_vars =>
    \A j \in Jobs : finisher[j] # Nobody =>
      /\ jobState'[j] \in {jobState[j], Missing}
      /\ finisher'[j] = finisher[j]
      /\ owner'[j] = Nobody
<1>. SUFFICES ASSUME TypeOK, Delivery, [Next]_vars,
                     NEW j \in Jobs, finisher[j] # Nobody
              PROVE  /\ jobState'[j] \in {jobState[j], Missing}
                     /\ finisher'[j] = finisher[j]
                     /\ owner'[j] = Nobody
  OBVIOUS
<1>1. /\ j \in 1 .. lastId /\ j \notin stream
      /\ j \notin Pending /\ owner[j] = Nobody
  BY DEF Delivery, NoJobLost, Pending, TypeOK, RedisTypeOK, Jobs
<1>2. CASE UNCHANGED <<owner, jobState, finisher>>
  BY <1>1, <1>2
<1>3. CASE Enqueue
  BY <1>1, <1>3 DEF Enqueue, history, TypeOK, RedisTypeOK
<1>4. ASSUME NEW w \in Workers, Step(w)
      PROVE  /\ jobState'[j] \in {jobState[j], Missing}
             /\ finisher'[j] = finisher[j]
             /\ owner'[j] = Nobody
  <2>1. CASE MarkRunning(w)
    BY <1>1, <2>1, NobodyHasNoName DEF MarkRunning, MayMark, TypeOK, RedisTypeOK
  <2>2. CASE Finalize(w)
    BY <1>1, <2>2, NobodyHasNoName DEF Finalize, MayFinalize, TypeOK, RedisTypeOK,
                                       HistoryTypeOK
  <2>3. CASE \E S : j \notin S /\ Claim(w, S) /\ UNCHANGED <<jobState, finisher>>
    BY <1>1, <2>3 DEF Claim
  <2>4. CASE ReclaimIdle(w) \/ LegacyClaim(w)
    <3>1. CASE ReclaimIdle(w)
      BY <1>1, <2>3, <3>1 DEF ReclaimIdle, AutoClaimed, Seen, Reach, FirstN, history
    <3>2. CASE LegacyClaim(w)
      BY <1>1, <2>3, <3>2 DEF LegacyClaim, StillIdle, history
    <3>. QED  BY <2>4, <3>1, <3>2
  <2>5. CASE ReadNew(w)
    BY <1>1, <2>3, <2>5 DEF ReadNew, Undelivered, history
  <2>. QED
    BY <1>2, <1>4, <2>1, <2>2, <2>4, <2>5
    DEF Step, EnsureGroup, LegacyScan, ReadNothing, ReadTimesOut, MarkRunningGet,
        MarkRefused, Generate, FinalizeGet, LeaseStale, FinalizeRefused, Wake, redis,
        history
<1>5. ASSUME NEW k \in Jobs, Expire(k)
      PROVE  /\ jobState'[j] \in {jobState[j], Missing}
             /\ finisher'[j] = finisher[j]
             /\ owner'[j] = Nobody
  BY <1>1, <1>5 DEF Expire, TypeOK, RedisTypeOK
<1>. QED
  BY <1>2, <1>3, <1>4, <1>5
  DEF Next, CommandFails, Crash, Start, Elapse, Overrun, vars, redis, history

(* Once finished, a job's result can expire but not change, and its        *)
(* message never returns to the pending list.                              *)
THEOREM FinishedForGood == Spec => FinishedJobsStay
<1>1. TypeOK /\ Delivery /\ [Next]_vars =>
        [\A j \in Jobs : finisher[j] # Nobody =>
           /\ jobState'[j] \in {jobState[j], Missing}
           /\ finisher'[j] = finisher[j]
           /\ owner'[j] = Nobody]_vars
  BY FinishedStep
<1>. QED  BY <1>1, SafetyInvariant, PTL DEF Spec, FinishedJobsStay

LEMMA VisibleInit == Init => VisibleStatusIsTrue
BY DEF Init, VisibleStatusIsTrue, Missing, Terminal

LEMMA VisibleNext ==
  TypeOK /\ Delivery /\ Leases /\ VisibleStatusIsTrue /\ [Next]_vars => VisibleStatusIsTrue'
<1>. SUFFICES ASSUME TypeOK, Delivery, Leases, VisibleStatusIsTrue, [Next]_vars
              PROVE  VisibleStatusIsTrue'
  OBVIOUS
<1>1. CASE /\ UNCHANGED <<stream, jobState, marks, marker, finisher>>
           /\ Pending \subseteq Pending'
  BY <1>1 DEF VisibleStatusIsTrue
<1>2. CASE Enqueue
  <2>1. lastId + 1 \in Jobs /\ Pending' = Pending
    BY <1>2, QueueAssumption DEF Enqueue, TypeOK, RedisTypeOK, Jobs, Pending
  <2>2. /\ jobState'[lastId + 1].status = "queued" /\ marks[lastId + 1] = 0
        /\ lastId + 1 \in stream'
        /\ \A j \in Jobs \ {lastId + 1} : jobState'[j] = jobState[j]
    BY <1>2, <2>1 DEF Enqueue, Queued, Missing, Delivery, TypeOK, RedisTypeOK
  <2>3. UNCHANGED <<marks, marker, finisher>> /\ stream \subseteq stream'
    BY <1>2 DEF Enqueue, history
  <2>. QED  BY <2>1, <2>2, <2>3 DEF VisibleStatusIsTrue, Terminal
<1>3. ASSUME NEW w \in Workers, MarkRunning(w)
      PROVE  VisibleStatusIsTrue'
  <2>1. PICK j \in batch[w], t \in FreshTokens :
          /\ owner[j] = ConsumerName[w]
          /\ jobState' = [jobState EXCEPT ![j] = RunningState(snap[w] + 1, w, t)]
          /\ marks' = [marks EXCEPT ![j] = @ + 1]
          /\ marker' = [marker EXCEPT ![j] = w]
    BY <1>3 DEF MarkRunning, MayMark
  <2>2. j \in Pending
    BY <2>1, NobodyHasNoName DEF Pending, TypeOK, WorkerTypeOK
  <2>3. UNCHANGED <<stream, finisher>> /\ Pending' = Pending
    BY <1>3 DEF MarkRunning, Pending
  <2>4. /\ jobState'[j].status = "running" /\ jobState'[j].worker = ConsumerName[w]
        /\ marker'[j] = w
    BY <2>1, <2>2 DEF RunningState, TypeOK, RedisTypeOK, HistoryTypeOK, Pending
  <2>5. \A k \in Jobs \ {j} :
          jobState'[k] = jobState[k] /\ marks'[k] = marks[k] /\ marker'[k] = marker[k]
    BY <2>1 DEF TypeOK, RedisTypeOK, HistoryTypeOK
  <2>. QED  BY <2>2, <2>3, <2>4, <2>5 DEF VisibleStatusIsTrue, Terminal
<1>4. ASSUME NEW w \in Workers, Finalize(w)
      PROVE  VisibleStatusIsTrue'
  <2>1. PICK j \in batch[w] :
          /\ jobState' = [jobState EXCEPT ![j] = TerminalState(outcome[w], snap[w], w)]
          /\ owner' = [owner EXCEPT ![j] = Nobody]
          /\ stream' = stream \ {j}
          /\ finisher' = [finisher EXCEPT ![j] = w]
    BY <1>4 DEF Finalize
  <2>2. j \in Jobs /\ outcome[w] \in Terminal /\ w # Nobody
    BY <1>4, QueueAssumption DEF Finalize, TypeOK, WorkerTypeOK
  <2>3. UNCHANGED <<marks, marker>>
    BY <1>4 DEF Finalize
  <2>4. /\ jobState'[j].status \in Terminal /\ jobState'[j].worker = ConsumerName[w]
        /\ finisher'[j] = w
    BY <2>1, <2>2 DEF TerminalState, TypeOK, RedisTypeOK, HistoryTypeOK
  <2>5. \A k \in Jobs \ {j} :
          /\ jobState'[k] = jobState[k] /\ finisher'[k] = finisher[k]
          /\ k \in Pending <=> k \in Pending'
          /\ k \in stream <=> k \in stream'
    BY <2>1 DEF TypeOK, RedisTypeOK, HistoryTypeOK, Pending
  <2>. QED  BY <2>2, <2>3, <2>4, <2>5 DEF VisibleStatusIsTrue, Terminal
<1>5. ASSUME NEW j \in Jobs, Expire(j)
      PROVE  VisibleStatusIsTrue'
  <2>1. /\ jobState'[j].status = "missing"
        /\ \A k \in Jobs \ {j} : jobState'[k] = jobState[k]
    BY <1>5 DEF Expire, Missing, TypeOK, RedisTypeOK
  <2>2. UNCHANGED <<stream, marks, marker, finisher>> /\ Pending' = Pending
    BY <1>5 DEF Expire, Pending
  <2>. QED  BY <2>1, <2>2 DEF VisibleStatusIsTrue, Terminal
<1>6. ASSUME NEW w \in Workers, Step(w)
      PROVE  VisibleStatusIsTrue'
  BY <1>1, <1>3, <1>4, <1>6, QuietStep DEF history
<1>. QED
  BY <1>1, <1>2, <1>5, <1>6
  DEF Next, CommandFails, Crash, Start, Elapse, Overrun, vars, redis, history, Pending

(* What the status endpoint shows of a job is true: see the property.      *)
THEOREM StatusIsTrue == Spec => []VisibleStatusIsTrue
BY VisibleInit, VisibleNext, SafetyInvariant, PTL DEF Spec

-----------------------------------------------------------------------------
(* Consumer names: what holds when every process has its own.              *)

(* A snapshot stays true while its worker does not move and nobody marks   *)
(* the job.                                                                *)
LEMMA SnapshotKept ==
  ASSUME NEW v \in Workers, SnapshotTrue(v), TokenHeld,
         UNCHANGED <<pc[v], batch[v], snap[v], token[v]>>, expired \subseteq expired',
         \A j \in Jobs :
           /\ owner'[j] = ConsumerName[v] => owner[j] = ConsumerName[v] /\ marks'[j] = marks[j]
           /\ token[v] # NoToken /\ jobState'[j].token = token[v] =>
                jobState[j].token = token[v] /\ marks'[j] = marks[j]
  PROVE  SnapshotTrue(v)'
BY DEF SnapshotTrue, TokenHeld, IsNext

LEMMA OneNext ==
  ASSUME TypeOK, NEW w \in Workers, NEW j \in batch[w], NEW k \in batch[w],
         IsNext(w, j), IsNext(w, k)
  PROVE  j = k
BY DEF IsNext, TypeOK, WorkerTypeOK, Jobs

Counting == AttemptCountExact /\ Snapshots

LEMMA CountingMarkRunning ==
  ASSUME NamesDistinct, TypeOK, Delivery, Leases, Counting,
         NEW w \in Workers, MarkRunning(w)
  PROVE  Counting'
<1>1. PICK j \in batch[w], t \in FreshTokens :
        /\ IsNext(w, j)
        /\ owner[j] = ConsumerName[w]
        /\ jobState' = [jobState EXCEPT ![j] = RunningState(snap[w] + 1, w, t)]
        /\ marks' = [marks EXCEPT ![j] = @ + 1]
  BY DEF MarkRunning, MayMark
<1>2. pc[w] = "markEval" /\ UNCHANGED <<expired, owner>> /\ j \in Jobs
  BY DEF MarkRunning, TypeOK, WorkerTypeOK
<1>3. /\ jobState'[j].attempt = snap[w] + 1 /\ jobState'[j].token = t
      /\ marks'[j] = marks[j] + 1
      /\ \A k \in Jobs \ {j} : jobState'[k] = jobState[k] /\ marks'[k] = marks[k]
  BY <1>1, <1>2 DEF RunningState, TypeOK, RedisTypeOK, HistoryTypeOK
<1>4. j \notin expired => snap[w] = marks[j]
  BY <1>1, <1>2 DEF Counting, Snapshots, SnapshotTrue
<1>5. AttemptCountExact'
  BY <1>2, <1>3, <1>4 DEF Counting, AttemptCountExact
<1>6. ASSUME NEW v \in Workers PROVE SnapshotTrue(v)'
  <2>1. CASE v = w
    <3>1. pc'[w] \in {"generate", "backoff"}
      BY DEF MarkRunning, ReplyLost, Abort, TypeOK, WorkerTypeOK
    <3>. QED  BY <2>1, <3>1 DEF SnapshotTrue
  <2>2. CASE v # w
    <3>1. UNCHANGED <<pc[v], batch[v], snap[v], token[v]>>
      BY <2>2 DEF MarkRunning, ReplyLost, Abort, TypeOK, WorkerTypeOK
    <3>2. SnapshotTrue(v) /\ TokenHeld
      BY DEF Counting, Snapshots, SnapshotTrue, Leases, TokenHeld
    <3>3. token[v] # t /\ owner[j] # ConsumerName[v]
      BY <1>1, <2>2 DEF FreshTokens, Remembered, NamesDistinct
    <3>. QED  BY <1>2, <1>3, <3>1, <3>2, <3>3, SnapshotKept
  <2>. QED  BY <2>1, <2>2
<1>. QED  BY <1>5, <1>6 DEF Counting, Snapshots, SnapshotTrue

LEMMA CountingFinalize ==
  ASSUME NamesDistinct, TypeOK, Delivery, Leases, Counting,
         NEW w \in Workers, Finalize(w)
  PROVE  Counting'
<1>1. PICK j \in batch[w] :
        /\ IsNext(w, j)
        /\ jobState[j].token = token[w]
        /\ jobState' = [jobState EXCEPT ![j] = TerminalState(outcome[w], snap[w], w)]
        /\ owner' = [owner EXCEPT ![j] = Nobody]
        /\ Advance(w, j) \/ Abort(w)
  BY DEF Finalize, MayFinalize, ReplyLost
<1>2. pc[w] = "finalEval" /\ UNCHANGED <<expired, marks>> /\ j \in Jobs
  BY DEF Finalize, TypeOK, WorkerTypeOK
<1>3. /\ jobState'[j].attempt = snap[w] /\ jobState'[j].token = NoToken
      /\ owner'[j] = Nobody
      /\ \A k \in Jobs \ {j} : jobState'[k] = jobState[k] /\ owner'[k] = owner[k]
  BY <1>1, <1>2 DEF TerminalState, TypeOK, RedisTypeOK
<1>4. j \notin expired => snap[w] = marks[j]
  BY <1>1, <1>2 DEF Counting, Snapshots, SnapshotTrue
<1>5. AttemptCountExact'
  BY <1>2, <1>3, <1>4 DEF Counting, AttemptCountExact
<1>6. ASSUME NEW v \in Workers PROVE SnapshotTrue(v)'
  <2>1. CASE v = w
    <3>1. pc'[w] \in {"reclaim", "mark", "backoff"}
      BY <1>1 DEF Advance, Abort, TypeOK, WorkerTypeOK
    <3>. QED  BY <2>1, <3>1 DEF SnapshotTrue
  <2>2. CASE v # w
    <3>1. UNCHANGED <<pc[v], batch[v], snap[v], token[v]>>
      BY <1>1, <2>2 DEF Advance, Abort, TypeOK, WorkerTypeOK
    <3>2. SnapshotTrue(v) /\ TokenHeld
      BY DEF Counting, Snapshots, SnapshotTrue, Leases, TokenHeld
    <3>. QED  BY <1>2, <1>3, <3>1, <3>2, SnapshotKept, NobodyHasNoName
  <2>. QED  BY <2>1, <2>2
<1>. QED  BY <1>5, <1>6 DEF Counting, Snapshots, SnapshotTrue

(* GET of a document takes a true snapshot of it.                          *)
LEMMA CountingGet ==
  ASSUME TypeOK, Counting, NEW w \in Workers, MarkRunningGet(w) \/ FinalizeGet(w)
  PROVE  SnapshotTrue(w)'
<1>1. PICK j \in batch[w] : IsNext(w, j) /\ snap' = [snap EXCEPT ![w] = jobState[j].attempt]
  BY DEF MarkRunningGet, FinalizeGet
<1>2. UNCHANGED <<redis, batch, history>>
  BY DEF MarkRunningGet, FinalizeGet
<1>3. ASSUME NEW k \in Jobs \ expired, IsNext(w, k)
      PROVE  snap'[w] = marks[k]
  <2>1. k = j
    BY <1>1, <1>3, OneNext DEF IsNext
  <2>. QED  BY <1>1, <1>3, <2>1 DEF Counting, AttemptCountExact, TypeOK, WorkerTypeOK
<1>. QED  BY <1>2, <1>3 DEF SnapshotTrue, IsNext, redis, history

(* Steps that neither mark nor finish a job.                               *)
LEMMA CountingQuiet ==
  ASSUME NamesDistinct, TypeOK, Leases, Counting, NEW w \in Workers, Step(w),
         ~MarkRunning(w), ~Finalize(w)
  PROVE  Counting'
<1>1. UNCHANGED <<jobState, marks, expired>>
  BY QuietStep DEF history
<1>2. AttemptCountExact'
  BY <1>1 DEF Counting, AttemptCountExact
<1>3. SnapshotTrue(w)'
  <2>1. CASE MarkRunningGet(w) \/ FinalizeGet(w)
    BY <2>1, CountingGet
  <2>2. CASE pc'[w] \notin {"markEval", "finalEval"}
    BY <2>2 DEF SnapshotTrue
  <2>3. CASE Abort(w) \/ \E j \in Jobs : Advance(w, j)
    <3>1. pc'[w] \in {"backoff", "reclaim", "mark"}
      BY <2>3 DEF Abort, Advance, TypeOK, WorkerTypeOK
    <3>. QED  BY <2>2, <3>1
  <2>4. CASE EnsureGroup(w) \/ ReclaimIdle(w) \/ LegacyScan(w) \/ LegacyClaim(w)
    BY <2>2, <2>3, <2>4 DEF EnsureGroup, ReclaimIdle, LegacyScan, LegacyClaim, ReplyLost,
                            TypeOK, WorkerTypeOK
  <2>5. CASE ReadNew(w) \/ ReadNothing(w) \/ Generate(w) \/ Wake(w)
    BY <2>2, <2>3, <2>5 DEF ReadNew, ReadNothing, Generate, Wake, ReplyLost,
                            TypeOK, WorkerTypeOK
  <2>6. CASE ReadTimesOut(w) \/ MarkRefused(w) \/ LeaseStale(w) \/ FinalizeRefused(w)
    BY <2>3, <2>6 DEF ReadTimesOut, MarkRefused, LeaseStale, FinalizeRefused, TypeOK,
                      WorkerTypeOK
  <2>. QED  BY <2>1, <2>4, <2>5, <2>6 DEF Step
<1>4. \A j \in Jobs : owner'[j] \in {owner[j], ConsumerName[w]}
  <2>1. CASE \E S : Claim(w, S)
    BY <2>1 DEF Claim
  <2>. QED
    BY <2>1 DEF Step, EnsureGroup, ReclaimIdle, LegacyScan, LegacyClaim, ReadNew,
         ReadNothing, ReadTimesOut, MarkRunningGet, MarkRefused, Generate, FinalizeGet,
         LeaseStale, FinalizeRefused, Wake, redis
<1>5. ASSUME NEW v \in Workers \ {w} PROVE SnapshotTrue(v)'
  <2>1. UNCHANGED <<pc[v], batch[v], snap[v], token[v]>>
    BY DEF Step, EnsureGroup, ReclaimIdle, LegacyScan, LegacyClaim, ReadNew, ReadNothing,
           ReadTimesOut, MarkRunningGet, MarkRefused, Generate, FinalizeGet, LeaseStale,
           FinalizeRefused, Wake, ReplyLost, Abort, Advance, TypeOK, WorkerTypeOK
  <2>2. SnapshotTrue(v) /\ TokenHeld
    BY DEF Counting, Snapshots, Leases, TokenHeld
  <2>3. ConsumerName[v] # ConsumerName[w]
    BY DEF NamesDistinct
  <2>. QED  BY <1>1, <1>4, <2>1, <2>2, <2>3, SnapshotKept
<1>. QED  BY <1>2, <1>3, <1>5 DEF Counting, Snapshots

LEMMA CountingNext ==
  ASSUME NamesDistinct
  PROVE  TypeOK /\ Delivery /\ Leases /\ Counting /\ [Next]_vars => Counting'
<1>. SUFFICES ASSUME TypeOK, Delivery, Leases, Counting, [Next]_vars PROVE Counting'
  OBVIOUS
<1>0. TokenHeld /\ \A v \in Workers : SnapshotTrue(v)
  BY DEF Leases, TokenHeld, Counting, Snapshots
<1>1. CASE UNCHANGED <<owner, jobState, marks, expired, local>>
  BY <1>1 DEF Counting, AttemptCountExact, Snapshots, SnapshotTrue, IsNext, local
<1>2. CASE Enqueue
  <2>1. lastId + 1 \in Jobs /\ UNCHANGED <<owner, marks, expired, local>>
    BY <1>2, QueueAssumption DEF Enqueue, history, TypeOK, RedisTypeOK, Jobs
  <2>2. /\ jobState'[lastId + 1].attempt = 0 /\ jobState'[lastId + 1].token = NoToken
        /\ marks[lastId + 1] = 0
        /\ \A j \in Jobs \ {lastId + 1} : jobState'[j] = jobState[j]
    BY <1>2, <2>1 DEF Enqueue, Queued, Missing, Delivery, TypeOK, RedisTypeOK
  <2>3. AttemptCountExact'
    BY <2>1, <2>2 DEF Counting, AttemptCountExact
  <2>4. ASSUME NEW v \in Workers PROVE SnapshotTrue(v)'
    BY <1>0, <2>1, <2>2, SnapshotKept DEF local
  <2>. QED  BY <2>3, <2>4 DEF Counting, Snapshots
<1>3. ASSUME NEW j \in Jobs, Expire(j)
      PROVE  Counting'
  <2>1. UNCHANGED <<owner, marks, local>> /\ expired' = expired \cup {j}
    BY <1>3 DEF Expire
  <2>2. /\ jobState'[j].token = NoToken
        /\ \A k \in Jobs \ {j} : jobState'[k] = jobState[k]
    BY <1>3 DEF Expire, Missing, TypeOK, RedisTypeOK
  <2>3. AttemptCountExact'
    BY <2>1, <2>2 DEF Counting, AttemptCountExact
  <2>4. ASSUME NEW v \in Workers PROVE SnapshotTrue(v)'
    BY <1>0, <2>1, <2>2, SnapshotKept DEF local
  <2>. QED  BY <2>3, <2>4 DEF Counting, Snapshots
<1>4. ASSUME NEW w \in Workers, CommandFails(w) \/ Crash(w) \/ Start(w)
      PROVE  Counting'
  <2>1. UNCHANGED <<redis, history>>
    BY <1>4 DEF CommandFails, Crash, Start
  <2>2. SnapshotTrue(w)'
    <3>1. pc'[w] \in {"backoff", "down", "ensure"}
      BY <1>4 DEF CommandFails, ReplyLost, Abort, Crash, Start, TypeOK, WorkerTypeOK
    <3>. QED  BY <3>1 DEF SnapshotTrue
  <2>3. ASSUME NEW v \in Workers \ {w} PROVE SnapshotTrue(v)'
    <3>1. UNCHANGED <<pc[v], batch[v], snap[v], token[v]>>
      BY <1>4 DEF CommandFails, ReplyLost, Abort, Crash, Start, TypeOK, WorkerTypeOK
    <3>. QED  BY <1>0, <2>1, <3>1, SnapshotKept DEF redis, history
  <2>4. AttemptCountExact'
    BY <2>1 DEF Counting, AttemptCountExact, redis, history
  <2>. QED  BY <2>2, <2>3, <2>4 DEF Counting, Snapshots
<1>5. ASSUME NEW w \in Workers, Step(w)
      PROVE  Counting'
  BY <1>5, CountingQuiet, CountingMarkRunning, CountingFinalize
<1>. QED
  BY <1>1, <1>2, <1>3, <1>4, <1>5 DEF Next, Elapse, Overrun, vars, redis, history

(* attempt_count counts the executions exactly: no update is lost between  *)
(* the GET and the EVAL of mark_running, because an entry can only leave a *)
(* consumer for another one, and then the script refuses.                  *)
THEOREM AttemptsAreCounted ==
  ASSUME NamesDistinct
  PROVE  Spec => []AttemptCountExact
<1>1. Init => Counting
  BY DEF Init, Counting, AttemptCountExact, Snapshots, SnapshotTrue, Missing
<1>2. TypeOK /\ Delivery /\ Leases /\ Counting /\ [Next]_vars => Counting'
  BY CountingNext
<1>3. Counting => AttemptCountExact
  BY DEF Counting
<1>. QED  BY <1>1, <1>2, <1>3, SafetyInvariant, PTL DEF Spec

(* With distinct names the whole inductive invariant holds: delivery,      *)
(* leases, what clients see, and the snapshots scripts may write back.     *)
THEOREM QueueInvariant ==
  ASSUME NamesDistinct
  PROVE  Spec => []IInv
<1>1. Init => Counting
  BY DEF Init, Counting, AttemptCountExact, Snapshots, SnapshotTrue, Missing
<1>2. TypeOK /\ Delivery /\ Leases /\ Counting /\ [Next]_vars => Counting'
  BY CountingNext
<1>3. TypeOK /\ Delivery /\ Leases /\ VisibleStatusIsTrue /\ Counting => IInv
  BY DEF Counting, IInv
<1>. QED  BY <1>1, <1>2, <1>3, SafetyInvariant, StatusIsTrue, PTL DEF Spec

(* Entries that are claimed are in nobody's hands: they were idle, or      *)
(* nobody had got them.                                                    *)
LEMMA InHandClaim ==
  ASSUME NamesDistinct, TypeOK, InHand, NEW w \in Workers, NEW S \in SUBSET Jobs,
         \A j \in S : j \in idle \/ owner[j] = Nobody,
         Claim(w, S), batch'[w] \subseteq S \cup batch[w],
         \A v \in Workers \ {w} : batch'[v] = batch[v]
  PROVE  InHand'
<1>1. \A v \in Workers, j \in S : j \notin batch[v]
  BY NobodyHasNoName DEF InHand
<1>2. ASSUME NEW v \in Workers, NEW j \in batch'[v]
      PROVE  owner'[j] = ConsumerName[v] /\ j \notin idle'
  <2>1. CASE j \in S
    <3>1. v = w
      BY <1>1, <1>2, <2>1
    <3>. QED  BY <2>1, <3>1 DEF Claim
  <2>2. CASE j \notin S
    <3>1. j \in batch[v] /\ j \in Jobs
      BY <1>2, <2>2 DEF TypeOK, WorkerTypeOK
    <3>. QED  BY <2>2, <3>1 DEF Claim, InHand
  <2>. QED  BY <2>1, <2>2
<1>. QED  BY <1>2 DEF InHand

LEMMA InHandStep ==
  ASSUME NamesDistinct, TypeOK, Delivery, InHand, NEW w \in Workers, Step(w)
  PROVE  InHand'
<1>1. \A v \in Workers \ {w} : batch'[v] = batch[v]
  BY DEF Step, EnsureGroup, ReclaimIdle, LegacyScan, LegacyClaim, ReadNew, ReadNothing,
         ReadTimesOut, MarkRunningGet, MarkRunning, MarkRefused, Generate, FinalizeGet,
         LeaseStale, Finalize, FinalizeRefused, Wake, ReplyLost, Abort, Advance, TypeOK,
         WorkerTypeOK
<1>2. CASE UNCHANGED <<owner, idle>> /\ batch'[w] \subseteq batch[w]
  BY <1>1, <1>2 DEF InHand
<1>3. ASSUME UNCHANGED <<owner, idle>>, Abort(w) \/ \E j \in Jobs : Advance(w, j)
      PROVE  InHand'
  <2>1. batch'[w] \subseteq batch[w]
    BY <1>3 DEF Abort, Advance, TypeOK, WorkerTypeOK
  <2>. QED  BY <1>2, <1>3, <2>1
<1>4. CASE ReclaimIdle(w)
  <2>1. PICK S \in SUBSET Jobs :
          /\ S \subseteq idle /\ Claim(w, S)
          /\ \/ batch' = [batch EXCEPT ![w] = S]
             \/ Abort(w)
    BY <1>4 DEF ReclaimIdle, ReplyLost, AutoClaimed, Seen, Reach, FirstN, Pending
  <2>2. batch'[w] \subseteq S \cup batch[w]
    BY <2>1 DEF Abort, TypeOK, WorkerTypeOK
  <2>. QED  BY <1>1, <2>1, <2>2, InHandClaim
<1>5. CASE LegacyClaim(w)
  <2>1. PICK S \in SUBSET Jobs :
          /\ S \subseteq idle /\ Claim(w, S)
          /\ \/ batch' = [batch EXCEPT ![w] = S]
             \/ Abort(w)
    BY <1>5 DEF LegacyClaim, ReplyLost, StillIdle, Pending
  <2>2. batch'[w] \subseteq S \cup batch[w]
    BY <2>1 DEF Abort, TypeOK, WorkerTypeOK
  <2>. QED  BY <1>1, <2>1, <2>2, InHandClaim
<1>6. CASE ReadNew(w)
  <2>1. PICK S \in SUBSET Undelivered :
          /\ Claim(w, S)
          /\ \/ batch' = [batch EXCEPT ![w] = @ \cup S]
             \/ Abort(w)
    BY <1>6 DEF ReadNew, ReplyLost
  <2>2. batch'[w] \subseteq S \cup batch[w]
    BY <2>1 DEF Abort, TypeOK, WorkerTypeOK
  <2>3. ASSUME NEW j \in S PROVE j \in Jobs /\ owner[j] = Nobody
    <3>1. j \in Jobs
      BY DEF Undelivered, TypeOK, RedisTypeOK
    <3>2. j \notin Pending
      BY PendingJob DEF Undelivered, TypeOK, RedisTypeOK, Jobs, Pending
    <3>. QED  BY <3>1, <3>2 DEF Pending
  <2>. QED  BY <1>1, <2>1, <2>2, <2>3, InHandClaim
<1>7. CASE Finalize(w)
  <2>1. PICK j \in batch[w] :
          /\ owner[j] = ConsumerName[w]
          /\ owner' = [owner EXCEPT ![j] = Nobody] /\ idle' = idle \ {j}
          /\ Advance(w, j) \/ Abort(w)
    BY <1>7 DEF Finalize, MayFinalize, ReplyLost
  <2>2. \A v \in Workers : batch'[v] \subseteq batch[v] \ {j}
    <3>1. batch'[w] \subseteq batch[w] \ {j}
      BY <2>1 DEF Advance, Abort, TypeOK, WorkerTypeOK
    <3>2. ASSUME NEW v \in Workers \ {w} PROVE j \notin batch[v]
      BY <2>1 DEF InHand, NamesDistinct
    <3>. QED  BY <1>1, <3>1, <3>2
  <2>. QED  BY <2>1, <2>2 DEF InHand, TypeOK, WorkerTypeOK, RedisTypeOK
<1>8. CASE UNCHANGED <<owner, idle>>
  BY <1>2, <1>3, <1>4, <1>5, <1>6, <1>7, <1>8
  DEF Step, EnsureGroup, LegacyScan, ReadNothing, ReadTimesOut, MarkRunningGet, MarkRunning,
      MarkRefused, Generate, FinalizeGet, LeaseStale, FinalizeRefused, Wake, ReplyLost,
      TypeOK, WorkerTypeOK
<1>. QED
  BY <1>4, <1>5, <1>6, <1>7, <1>8
  DEF Step, EnsureGroup, LegacyScan, ReadNothing, ReadTimesOut, MarkRunningGet, MarkRunning,
      MarkRefused, Generate, FinalizeGet, LeaseStale, FinalizeRefused, Wake, redis

LEMMA InHandNext ==
  ASSUME NamesDistinct, "overrun" \notin FaultKinds
  PROVE  TypeOK /\ Delivery /\ InHand /\ [Next]_vars => InHand'
<1>. SUFFICES ASSUME TypeOK, Delivery, InHand, [Next]_vars PROVE InHand'
  OBVIOUS
<1>1. CASE UNCHANGED <<owner, idle, batch>>
  BY <1>1 DEF InHand
<1>2. ASSUME NEW w \in Workers, CommandFails(w) \/ Crash(w) \/ Start(w)
      PROVE  InHand'
  <2>1. UNCHANGED <<owner, idle>> /\ \A v \in Workers : batch'[v] \subseteq batch[v]
    BY <1>2 DEF CommandFails, ReplyLost, Abort, Crash, Start, redis, TypeOK, WorkerTypeOK
  <2>. QED  BY <2>1 DEF InHand
<1>3. ASSUME NEW j \in Jobs, Elapse(j)
      PROVE  InHand'
  BY <1>3 DEF Elapse, Held, InHand, local
<1>. QED
  BY <1>1, <1>2, <1>3, InHandStep
  DEF Next, Enqueue, Submitted, Overrun, Fault, Expire, vars, redis, local

(* With consumer names of their own, and no execution that outlasts        *)
(* reclaim_idle_ms, two live workers never execute the same job, on a      *)
(* server with XAUTOCLAIM and on one without.                              *)
THEOREM ExecutionIsExclusive ==
  ASSUME NamesDistinct, "overrun" \notin FaultKinds
  PROVE  Spec => []NoDuplicateExecution
<1>1. Init => InHand
  BY DEF Init, InHand
<1>2. TypeOK /\ Delivery /\ InHand /\ [Next]_vars => InHand'
  BY InHandNext
<1>3. InHand => NoDuplicateExecution
  BY DEF InHand, NoDuplicateExecution, Executing, IsNext, NamesDistinct
<1>. QED  BY <1>1, <1>2, <1>3, SafetyInvariant, PTL DEF Spec

-----------------------------------------------------------------------------
(* The refinement.                                                         *)

LEMMA PromiseInit == Init => Promise!Init
BY QueueAssumption DEF Init, Promise!Init, Missing

(* Every step is a step of the abstract queue, or one it does not see.     *)
LEMMA PromiseStep ==
  TypeOK /\ Delivery /\ Leases /\ [Next]_vars => [Promise!Next]_(Promise!vars)
<1>. SUFFICES ASSUME TypeOK, Delivery, Leases, [Next]_vars
              PROVE  [Promise!Next]_(Promise!vars)
  OBVIOUS
<1>1. CASE UNCHANGED <<lastId, jobState, marker, finisher>>
  BY <1>1 DEF Promise!vars
<1>2. CASE Enqueue
  <2>0. PICK j \in Jobs : j = lastId + 1
    BY <1>2, QueueAssumption DEF Enqueue, TypeOK, RedisTypeOK, Jobs
  <2>1. /\ j \notin 1 .. lastId
        /\ 1 .. lastId' = (1 .. lastId) \cup {j}
    BY <1>2, <2>0, QueueAssumption DEF Enqueue, TypeOK, RedisTypeOK, Jobs
  <2>2. [k \in Jobs |-> jobState'[k].status]
          = [[k \in Jobs |-> jobState[k].status] EXCEPT ![j] = "queued"]
    BY <1>2, <2>0 DEF Enqueue, Queued, Missing, TypeOK, RedisTypeOK
  <2>3. UNCHANGED <<marker, finisher>>
    BY <1>2 DEF Enqueue, history
  <2>4. Promise!Submit(j)
    BY <2>1, <2>2, <2>3 DEF Promise!Submit
  <2>. QED  BY <2>4 DEF Promise!Next
<1>3. ASSUME NEW w \in Workers, MarkRunning(w)
      PROVE  Promise!Next
  <2>1. PICK j \in batch[w], t \in FreshTokens :
          /\ owner[j] = ConsumerName[w]
          /\ jobState' = [jobState EXCEPT ![j] = RunningState(snap[w] + 1, w, t)]
          /\ marker' = [marker EXCEPT ![j] = w]
    BY <1>3 DEF MarkRunning, MayMark
  <2>2. j \in Pending
    BY <2>1, NobodyHasNoName DEF Pending, TypeOK, WorkerTypeOK
  <2>3. j \in Jobs /\ j \in 1 .. lastId /\ finisher[j] = Nobody
    BY <2>2, PendingJob DEF Pending
  <2>4. [k \in Jobs |-> jobState'[k].status]
          = [[k \in Jobs |-> jobState[k].status] EXCEPT ![j] = "running"]
    BY <2>1, <2>3 DEF RunningState, TypeOK, RedisTypeOK
  <2>5. UNCHANGED <<lastId, finisher>>
    BY <1>3 DEF MarkRunning, MayMark
  <2>6. Promise!Lease(j, w)
    BY <2>1, <2>3, <2>4, <2>5 DEF Promise!Lease
  <2>. QED  BY <2>3, <2>6 DEF Promise!Next
<1>4. ASSUME NEW w \in Workers, Finalize(w)
      PROVE  Promise!Next
  <2>1. PICK j \in batch[w] :
          /\ owner[j] = ConsumerName[w] /\ jobState[j].token = token[w]
          /\ jobState' = [jobState EXCEPT ![j] = TerminalState(outcome[w], snap[w], w)]
          /\ finisher' = [finisher EXCEPT ![j] = w]
    BY <1>4 DEF Finalize, MayFinalize
  <2>2. /\ j \in Jobs /\ j \in Pending /\ pc[w] = "finalEval"
        /\ UNCHANGED <<lastId, marker>> /\ outcome[w] \in Terminal
    BY <1>4, <2>1, NobodyHasNoName DEF Finalize, Pending, TypeOK, WorkerTypeOK
  <2>3. marker[j] = w /\ jobState[j].status = "running" /\ finisher[j] = Nobody
    BY <2>1, <2>2, PendingJob DEF Leases
  <2>4. PICK result \in {"succeeded", "failed"} : result = outcome[w]
    BY <2>2 DEF Terminal
  <2>5. [k \in Jobs |-> jobState'[k].status]
          = [[k \in Jobs |-> jobState[k].status] EXCEPT ![j] = result]
    BY <2>1, <2>2, <2>4 DEF TerminalState, TypeOK, RedisTypeOK
  <2>6. Promise!Finish(j, result)
    BY <2>1, <2>2, <2>3, <2>5 DEF Promise!Finish
  <2>. QED  BY <2>2, <2>6 DEF Promise!Next
<1>5. ASSUME NEW j \in Jobs, Expire(j)
      PROVE  Promise!Next
  <2>1. [k \in Jobs |-> jobState'[k].status]
          = [[k \in Jobs |-> jobState[k].status] EXCEPT ![j] = "missing"]
    BY <1>5 DEF Expire, Missing, TypeOK, RedisTypeOK
  <2>2. UNCHANGED <<lastId, marker, finisher>>
    BY <1>5 DEF Expire
  <2>. QED  BY <2>1, <2>2 DEF Promise!Forget, Promise!Next
<1>6. ASSUME NEW w \in Workers, Step(w)
      PROVE  [Promise!Next]_(Promise!vars)
  BY <1>1, <1>3, <1>4, <1>6, QuietStep DEF history
<1>. QED
  BY <1>1, <1>2, <1>5, <1>6
  DEF Next, CommandFails, Crash, Start, Elapse, Overrun, vars, redis, history

(* The Redis queue with its workers implements the abstract at-least-once  *)
(* queue, whatever crashes, lost replies, expiries and overruns happen and *)
(* however the consumer names are chosen.                                  *)
THEOREM ImplementsPromise == Spec => KeepsPromise
<1>1. Init => Promise!Init
  BY PromiseInit
<1>2. TypeOK /\ Delivery /\ Leases /\ [Next]_vars => [Promise!Next]_(Promise!vars)
  BY PromiseStep
<1>. QED  BY <1>1, <1>2, SafetyInvariant, PTL DEF Spec, KeepsPromise, Promise!Spec

=============================================================================
