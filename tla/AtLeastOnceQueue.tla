--------------------------- MODULE AtLeastOnceQueue ---------------------------
(***************************************************************************)
(* What an at-least-once job queue promises its clients, without streams,  *)
(* pending lists, replies or clocks.  A submitted job is leased to workers *)
(* one after the other; each new lease takes the job away from the holder  *)
(* of the previous one; the current holder may finish it, once.  The       *)
(* document that clients read may be forgotten at any time.                *)
(***************************************************************************)
CONSTANTS Jobs, Workers, Nobody

VARIABLES
  submitted,  \* the jobs submitted so far
  status,     \* the status a client reads
  holder,     \* who got the latest lease on each job
  doneBy      \* who finished each job

vars == <<submitted, status, holder, doneBy>>

Init ==
  /\ submitted = {}
  /\ status = [j \in Jobs |-> "missing"]
  /\ holder = [j \in Jobs |-> Nobody]
  /\ doneBy = [j \in Jobs |-> Nobody]

Submit(j) ==
  /\ j \notin submitted
  /\ submitted' = submitted \cup {j}
  /\ status' = [status EXCEPT ![j] = "queued"]
  /\ UNCHANGED <<holder, doneBy>>

Lease(j, w) ==
  /\ j \in submitted
  /\ doneBy[j] = Nobody
  /\ status' = [status EXCEPT ![j] = "running"]
  /\ holder' = [holder EXCEPT ![j] = w]
  /\ UNCHANGED <<submitted, doneBy>>

Finish(j, result) ==
  /\ status[j] = "running"
  /\ doneBy[j] = Nobody
  /\ status' = [status EXCEPT ![j] = result]
  /\ doneBy' = [doneBy EXCEPT ![j] = holder[j]]
  /\ UNCHANGED <<submitted, holder>>

Forget(j) ==
  /\ status' = [status EXCEPT ![j] = "missing"]
  /\ UNCHANGED <<submitted, holder, doneBy>>

Next ==
  \E j \in Jobs :
    \/ Submit(j)
    \/ \E w \in Workers : Lease(j, w)
    \/ \E result \in {"succeeded", "failed"} : Finish(j, result)
    \/ Forget(j)

Spec == Init /\ [][Next]_vars

===============================================================================
