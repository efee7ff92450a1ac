----------------------------- MODULE Multimodal -----------------------------
(***************************************************************************)
(* The BAGEL service (app/multimodal/service.py).  Handlers run on one     *)
(* event loop, each stretch between two awaits in one step; calls of BAGEL *)
(* run on the threads of the loop's default executor, which also serves    *)
(* GET /health.  A handler that gives up leaves its thread running, and    *)
(* BAGEL may never answer: Client.predict has no timeout of its own.       *)
(***************************************************************************)
EXTENDS Naturals, Sequences, FiniteSets

CONSTANTS
  Requests,  \* POST /generate
  Probes,    \* GET /health
  Threads,   \* of the default executor
  NoItem,    \* what an idle thread works on
  Refusals   \* the refusals that happen, a bound: all of them are alike

Items == Requests \cup Probes

ASSUME ItemsAssumption ==
  /\ Requests \cap Probes = {} /\ NoItem \notin Items
  /\ IsFiniteSet(Items) /\ IsFiniteSet(Threads)

VARIABLES
  handler,    \* where each item's coroutine stands
  answer,     \* the HTTP status it was answered with, 0 before
  queue,      \* work items of the executor that no thread has taken
  thread,     \* what each thread works on, and the line it stands at
  future,     \* the executor's Future of each item
  files,      \* requests whose temporary image is on disk
  counted     \* multimodal_requests_total by outcome

service == <<handler, answer, queue, thread, future, files, counted>>

Idle == [item |-> NoItem, at |-> "idle"]
Outcomes == {"success", "timeout", "upstream_error"}

TypeOK ==
  /\ handler \in [Items -> {"new", "reading", "waiting", "answered"}]
  /\ answer \in [Items -> {0, 200, 400, 413, 415, 422, 500, 502, 503, 504}]
  /\ queue \in Seq(Items)
  /\ thread \in [Threads -> [item : Items \cup {NoItem},
                             at : {"idle", "write", "predict", "unlink_ok",
                                   "unlink_error", "urlopen"}]]
  /\ future \in [Items -> {"pending", "running", "cancelled",
                          "ok", "error", "oserror"}]
  /\ files \subseteq Requests
  /\ counted \in [Outcomes -> Nat]

ServiceInit ==
  /\ handler = [i \in Items |-> "new"]
  /\ answer = [i \in Items |-> 0]
  /\ queue = <<>>
  /\ thread = [t \in Threads |-> Idle]
  /\ future = [i \in Items |-> "pending"]
  /\ files = {}
  /\ counted = [o \in Outcomes |-> 0]

-----------------------------------------------------------------------------
(* The event loop.                                                         *)

Respond(i, status) ==
  /\ handler' = [handler EXCEPT ![i] = "answered"]
  /\ answer' = [answer EXCEPT ![i] = status]

Count(o) == counted' = [counted EXCEPT ![o] = @ + 1]

(* The form is checked before the image is read: what is wrong with it is  *)
(* named by the status it earns, in the order of the checks.               *)
FormFaults == {415, 400, 422} \cap Refusals

Receive(r) ==
  /\ handler[r] = "new"
  /\ \/ handler' = [handler EXCEPT ![r] = "reading"] /\ UNCHANGED answer
     \/ \E status \in FormFaults : Respond(r, status)
  /\ UNCHANGED <<queue, thread, future, files, counted>>

(* After image.read(): an empty or too large image is refused, any other   *)
(* is handed to the executor.                                              *)
ImageFaults == {400, 413} \cap Refusals

Submit(r) ==
  /\ handler[r] = "reading"
  /\ \/ /\ \E status \in ImageFaults : Respond(r, status)
        /\ UNCHANGED queue
     \/ /\ handler' = [handler EXCEPT ![r] = "waiting"]
        /\ queue' = Append(queue, r)
        /\ UNCHANGED answer
  /\ UNCHANGED <<thread, future, files, counted>>

(* Mutant: the call is shielded from the cancellation.                     *)
TimeOutShielded(r) ==
  /\ handler[r] = "waiting"
  /\ Respond(r, 504)
  /\ Count("timeout")
  /\ UNCHANGED <<queue, thread, future, files>>

(* Mutant: a running call counts as cancelled too.                         *)
TimeOutRunning(r) ==
  /\ handler[r] = "waiting"
  /\ Respond(r, 504)
  /\ Count("timeout")
  /\ future' = [future EXCEPT ![r] =
                  IF @ \in {"pending", "running"} THEN "cancelled" ELSE @]
  /\ UNCHANGED <<queue, thread, files>>

(* Mutant: the timeout waits for the thread to end.                        *)
TimeOutJoining(r) ==
  /\ handler[r] = "waiting" /\ future[r] # "running"
  /\ Respond(r, 504)
  /\ Count("timeout")
  /\ future' = [future EXCEPT ![r] = IF @ = "pending" THEN "cancelled" ELSE @]
  /\ UNCHANGED <<queue, thread, files>>

(* wait_for gives up: a work item no thread has taken is cancelled, a      *)
(* running one goes on, and so does one whose result is on its way.        *)
TimeOut(r) ==
  /\ handler[r] = "waiting"
  /\ Respond(r, 504)
  /\ Count("timeout")
  /\ future' = [future EXCEPT ![r] = IF @ = "pending" THEN "cancelled" ELSE @]
  /\ UNCHANGED <<queue, thread, files>>

(* update_gpu_metrics runs on the loop, after the success was counted: no  *)
(* nvidia-smi is caught, a reading that is not a number ("[N/A]") is not.  *)
GpuReadings == {"absent", "numbers", "text"}

(* Mutant: counted after the early return of update_gpu_metrics.           *)
FinishCountingLate(r) ==
  /\ handler[r] = "waiting"
  /\ \/ /\ future[r] = "ok"
        /\ \E reading \in GpuReadings :
             /\ Respond(r, IF reading = "text" THEN 500 ELSE 200)
             /\ IF reading = "absent" THEN UNCHANGED counted ELSE Count("success")
     \/ future[r] = "error" /\ Count("upstream_error") /\ Respond(r, 502)
     \/ future[r] = "oserror" /\ Respond(r, 500) /\ UNCHANGED counted
  /\ UNCHANGED <<queue, thread, future, files>>

Finish(r) ==
  /\ handler[r] = "waiting"
  /\ \/ /\ future[r] = "ok" /\ Count("success")
        /\ \E reading \in GpuReadings :
             Respond(r, IF reading = "text" THEN 500 ELSE 200)
     \/ future[r] = "error" /\ Count("upstream_error") /\ Respond(r, 502)
     \/ future[r] = "oserror" /\ Respond(r, 500) /\ UNCHANGED counted
  /\ UNCHANGED <<queue, thread, future, files>>

(* multimodal_health: no wait_for here, the timeout of urlopen only counts *)
(* from the moment a thread takes the probe.                               *)
StartProbe(p) ==
  /\ handler[p] = "new"
  /\ handler' = [handler EXCEPT ![p] = "waiting"]
  /\ queue' = Append(queue, p)
  /\ UNCHANGED <<answer, thread, future, files, counted>>

(* Mutant: the probe is answered when BAGEL is up.                         *)
FinishProbeWhenUp(p) ==
  /\ handler[p] = "waiting" /\ future[p] = "ok"
  /\ Respond(p, 200)
  /\ UNCHANGED <<queue, thread, future, files, counted>>

FinishProbe(p) ==
  /\ handler[p] = "waiting" /\ future[p] \in {"ok", "error"}
  /\ Respond(p, IF future[p] = "ok" THEN 200 ELSE 503)
  /\ UNCHANGED <<queue, thread, future, files, counted>>

-----------------------------------------------------------------------------
(* The executor's threads: _call_bagel, and urlopen for a probe.           *)

Goto(t, line) == thread' = [thread EXCEPT ![t].at = line]

Return(t, result) ==
  /\ thread' = [thread EXCEPT ![t] = Idle]
  /\ future' = [future EXCEPT ![thread[t].item] = result]

(* A thread takes the oldest work item, and drops it if it was cancelled.  *)
Take(t) ==
  /\ thread[t] = Idle /\ queue # <<>>
  /\ queue' = Tail(queue)
  /\ LET i == Head(queue) IN
     \/ future[i] = "cancelled" /\ UNCHANGED <<thread, future>>
     \/ /\ future[i] # "cancelled"
        /\ future' = [future EXCEPT ![i] = "running"]
        /\ thread' = [thread EXCEPT ![t] =
             [item |-> i, at |-> IF i \in Probes THEN "urlopen" ELSE "write"]]
  /\ UNCHANGED <<handler, answer, files, counted>>

(* The temporary file is made with delete=False and outside of the try: if *)
(* writing it fails nothing removes it.                                    *)
WriteImage(t) ==
  /\ thread[t].at = "write"
  /\ \/ Goto(t, "predict") /\ files' = files \cup {thread[t].item} /\ UNCHANGED future
     \/ Return(t, "oserror") /\ files' \in {files, files \cup {thread[t].item}}
  /\ UNCHANGED <<handler, answer, queue, counted>>

(* BAGEL answers, or raises, or _bagel_client cannot make its Client (which *)
(* lru_cache does not remember): this step is under no fairness.           *)
Predict(t) ==
  /\ thread[t].at = "predict"
  /\ \E line \in {"unlink_ok", "unlink_error"} : Goto(t, line)
  /\ UNCHANGED <<handler, answer, queue, future, files, counted>>

(* Mutant: no finally.                                                     *)
UnlinkOnSuccess(t) ==
  /\ thread[t].at \in {"unlink_ok", "unlink_error"}
  /\ files' = IF thread[t].at = "unlink_ok" THEN files \ {thread[t].item} ELSE files
  /\ Return(t, IF thread[t].at = "unlink_ok" THEN "ok" ELSE "error")
  /\ UNCHANGED <<handler, answer, queue, counted>>

Unlink(t) ==
  /\ thread[t].at \in {"unlink_ok", "unlink_error"}
  /\ files' = files \ {thread[t].item}
  /\ Return(t, IF thread[t].at = "unlink_ok" THEN "ok" ELSE "error")
  /\ UNCHANGED <<handler, answer, queue, counted>>

OpenUrl(t) ==
  /\ thread[t].at = "urlopen"
  /\ \E result \in {"ok", "error"} : Return(t, result)
  /\ UNCHANGED <<handler, answer, queue, files, counted>>

-----------------------------------------------------------------------------
ThreadStep(t) == Take(t) \/ WriteImage(t) \/ Unlink(t) \/ OpenUrl(t)

ServiceNext ==
  \/ \E r \in Requests : Submit(r) \/ TimeOut(r) \/ Finish(r)
  \/ \E p \in Probes : StartProbe(p) \/ FinishProbe(p)
  \/ \E t \in Threads : ThreadStep(t) \/ Predict(t)

(* The service under any clients.                                          *)
ServiceSpec ==
  ServiceInit /\ [][ServiceNext \/ \E r \in Requests : Receive(r)]_service

(* The loop runs every coroutine that is ready and every timer that is     *)
(* due, and threads run; only BAGEL may keep a thread forever.             *)
ServiceFairness ==
  /\ \A r \in Requests : WF_service(Submit(r) \/ TimeOut(r) \/ Finish(r))
  /\ \A p \in Probes : WF_service(FinishProbe(p))
  /\ \A t \in Threads : WF_service(ThreadStep(t))

-----------------------------------------------------------------------------
(* A temporary image is on disk only while a thread is about to remove it, *)
(* however its request was answered in the meantime; what stays is the     *)
(* file whose writing failed.                                              *)
NoStrayFile ==
  \A r \in files :
    \/ \E t \in Threads : thread[t].item = r /\ thread[t].at # "write"
    \/ future[r] = "oserror"

(* An item is with one thread, or once in the queue, or neither, as its    *)
(* Future says: were a timed-out request left in the queue, or queued      *)
(* again, BAGEL would work for nobody, or twice for one request.           *)
OneCallPerRequest ==
  /\ \A t \in Threads : thread[t] # Idle =>
       /\ future[thread[t].item] = "running"
       /\ \A u \in Threads \ {t} : thread[u].item # thread[t].item
  /\ \A i \in Items : future[i] = "running" => \E t \in Threads : thread[t].item = i
  /\ \A k \in 1..Len(queue) :
       /\ future[queue[k]] \in {"pending", "cancelled"}
       /\ \A l \in 1..Len(queue) : queue[k] = queue[l] => k = l

(* The status tells what BAGEL did: an answer was BAGEL's, an upstream     *)
(* error is one, and what was refused, or given up before a thread took    *)
(* it, is never sent to BAGEL.                                             *)
AnswerIsTrue ==
  \A r \in Requests :
    /\ answer[r] = 200 => future[r] = "ok"
    /\ answer[r] = 502 => future[r] = "error"
    /\ answer[r] \in FormFaults \cup ImageFaults => future[r] = "pending"
    /\ answer[r] = 504 => future[r] # "pending"
    /\ future[r] = "cancelled" => answer[r] = 504

-----------------------------------------------------------------------------
(* Why it is correct: the inductive invariant.                             *)

Queued == {queue[k] : k \in 1..Len(queue)}

(* A busy thread is at a line of _call_bagel for a request, or at urlopen  *)
(* for a probe.                                                            *)
ThreadsFit ==
  \A t \in Threads :
    \/ thread[t] = Idle
    \/ /\ thread[t].item \in Requests
       /\ thread[t].at \in {"write", "predict", "unlink_ok", "unlink_error"}
    \/ thread[t].item \in Probes /\ thread[t].at = "urlopen"

(* An item is handed to the executor once, by a handler that then waits;   *)
(* only a handler that gave up leaves a cancelled item in the queue.       *)
HandlersFit ==
  \A i \in Items :
    /\ handler[i] \in {"new", "reading"} =>
         future[i] = "pending" /\ answer[i] = 0 /\ i \notin Queued
    /\ handler[i] = "waiting" => answer[i] = 0 /\ future[i] # "cancelled"
    /\ i \in Requests /\ answer[i] \in FormFaults \cup ImageFaults => i \notin Queued

ServiceInvariant ==
  TypeOK /\ ThreadsFit /\ HandlersFit /\ NoStrayFile /\ OneCallPerRequest /\ AnswerIsTrue

=============================================================================
