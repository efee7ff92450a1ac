-------------------------- MODULE ContinuousBatching --------------------------
(***************************************************************************)
(* simulate_continuous_batching of scripts/scheduler_simulation.py: a step *)
(* is one round of its inner loops.  waiting and pending_index need no     *)
(* variables: the list of waiting requests is brought up to date after     *)
(* every change of the clock, so that it holds the requests that have      *)
(* arrived and were not admitted, in order of arrival.                     *)
(*                                                                         *)
(* Times are whole numbers of some unit.  The code uses floats and rounds  *)
(* the results to six digits, which is left out.                           *)
(***************************************************************************)
EXTENDS Integers, FiniteSets

CONSTANTS
  N,               \* number of requests
  Arrivals,        \* the times at which requests may arrive
  PromptTokens,    \* the lengths a prompt may have
  OutputTokens,    \* the lengths an output may have
  PrefillPerToken, \* prefill_time_per_token
  MaxActive,       \* max_active_requests
  StepBase,        \* decode_step_time_base
  StepPerRequest   \* decode_step_time_per_request

ASSUME BatchingAssumption ==
  /\ N \in Nat
  /\ Arrivals \subseteq Nat
  /\ PromptTokens \subseteq Nat
  /\ OutputTokens \subseteq Nat
  /\ PrefillPerToken \in Nat
  /\ MaxActive \in Nat \ {0}
  /\ StepBase \in Nat
  /\ StepPerRequest \in Nat

(* A request's number is its place in sorted_requests.                     *)
Requests == 1 .. N

VARIABLES
  arrival, prompt, output,  \* the requests, chosen once
  time,                     \* current_time
  busy, idle,               \* gpu_busy_time and gpu_idle_time
  admitted,                 \* requests taken from the list
  active,                   \* those of them that are not finished
  start, finish,            \* their times, 0 before
  remaining                 \* remaining_output_tokens of active requests

input == <<arrival, prompt, output>>

vars == <<input, time, busy, idle, admitted, active, start, finish, remaining>>

TypeOK ==
  /\ arrival \in [Requests -> Nat]
  /\ prompt \in [Requests -> Nat]
  /\ output \in [Requests -> Nat]
  /\ time \in Nat /\ busy \in Nat /\ idle \in Nat
  /\ admitted \subseteq Requests
  /\ active \subseteq admitted
  /\ start \in [Requests -> Nat]
  /\ finish \in [Requests -> Nat]
  /\ remaining \in [Requests -> Int]
  /\ Cardinality(active) <= MaxActive

(* generate_requests: arrival times only grow.                             *)
Generated ==
  /\ arrival \in [Requests -> Arrivals]
  /\ \A q, r \in Requests : q < r => arrival[q] <= arrival[r]
  /\ prompt \in [Requests -> PromptTokens]
  /\ output \in [Requests -> OutputTokens]

Init ==
  /\ Generated
  /\ time = 0 /\ busy = 0 /\ idle = 0
  /\ admitted = {} /\ active = {}
  /\ start = [r \in Requests |-> 0]
  /\ finish = [r \in Requests |-> 0]
  /\ remaining = [r \in Requests |-> 0]

Completed == admitted \ active

Arrived == {r \in Requests : arrival[r] <= time}

(* The requests still in the list whose turn is next.                      *)
First(S) == {r \in S : \A q \in S : r <= q}

(* The GPU waits for request r to arrive.                                  *)
IdleUntil(r) ==
  /\ idle' = idle + (arrival[r] - time)
  /\ time' = arrival[r]

(* The GPU works for d units.                                              *)
Work(d) ==
  /\ time' = time + d
  /\ busy' = busy + d

(* Mutant: a request that arrives just now is not seen.                    *)
WaitingLate == {r \in Requests \ admitted : arrival[r] < time}

Waiting == {r \in Requests \ admitted : arrival[r] <= time}

(* Mutant: the last of the list is popped.                                 *)
LastOfWaiting == {r \in Waiting : \A q \in Waiting : q <= r}

NextUp == First(Waiting)

SlotFree == Cardinality(active) < MaxActive

(* Mutant: the start is noted after the prefill.                           *)
AdmitAfterPrefill ==
  /\ SlotFree
  /\ \E r \in NextUp :
       /\ Work(prompt[r] * PrefillPerToken)
       /\ start' = [start EXCEPT ![r] = time']
       /\ admitted' = admitted \cup {r}
       /\ active' = active \cup {r}
       /\ remaining' = [remaining EXCEPT ![r] = output[r]]
  /\ UNCHANGED <<input, idle, finish>>

(* A waiting request is given a free slot and prefilled.                   *)
Admit ==
  /\ SlotFree
  /\ \E r \in NextUp :
       /\ start' = [start EXCEPT ![r] = time]
       /\ Work(prompt[r] * PrefillPerToken)
       /\ admitted' = admitted \cup {r}
       /\ active' = active \cup {r}
       /\ remaining' = [remaining EXCEPT ![r] = output[r]]
  /\ UNCHANGED <<input, idle, finish>>

(* Mutants: the time skipped is not accounted, or the clock is moved to    *)
(* the next arrival although requests are active.                          *)
SkipUnaccounted ==
  /\ active = {} /\ Waiting = {}
  /\ \E r \in First(Requests \ admitted) : time < arrival[r] /\ time' = arrival[r]
  /\ UNCHANGED <<input, busy, idle, admitted, active, start, finish, remaining>>
SkipThoughActive ==
  /\ Waiting = {}
  /\ \E r \in First(Requests \ admitted) : time < arrival[r] /\ IdleUntil(r)
  /\ UNCHANGED <<input, busy, admitted, active, start, finish, remaining>>

(* Nothing is active and nothing waits: on to the next arrival.            *)
Skip ==
  /\ active = {} /\ Waiting = {}
  /\ \E r \in First(Requests \ admitted) : time < arrival[r] /\ IdleUntil(r)
  /\ UNCHANGED <<input, busy, admitted, active, start, finish, remaining>>

(* The requests that the next decode step finishes.                        *)
Leaving == {r \in active : remaining[r] - 1 <= 0}

(* One decode step for all active requests, when no request can be         *)
(* admitted.                                                               *)
Decode ==
  /\ active # {}
  /\ Waiting = {} \/ ~SlotFree
  /\ Work(StepBase + StepPerRequest * Cardinality(active))
  /\ remaining' = [r \in Requests |-> IF r \in active THEN remaining[r] - 1
                                                      ELSE remaining[r]]
  /\ active' = active \ Leaving
  /\ finish' = [r \in Requests |-> IF r \in Leaving THEN time' ELSE finish[r]]
  /\ UNCHANGED <<input, idle, admitted, start>>

Next == Admit \/ Skip \/ Decode

Spec == Init /\ [][Next]_vars

-----------------------------------------------------------------------------
(* The clock is accounted for: busy and idle time add up to it, through    *)
(* every branch of the loops, so that gpu_utilization is a share of all    *)
(* the time there was.                                                     *)
ClockAccounted == busy + idle = time

(* A request is overtaken by no later one that asks for as many tokens or  *)
(* more.                                                                   *)
ShorterIsNotOvertaken ==
  \A q, r \in Completed : q < r /\ output[q] <= output[r] => finish[q] <= finish[r]

(* The GPU never idles while a request that has arrived is not finished:   *)
(* what continuous batching is for.                                        *)
NeverIdleWhileWaiting == [][idle' # idle => Arrived \subseteq Completed]_vars

(* A decode step for one request alone.                                    *)
Unit == StepBase + StepPerRequest

(* What a request is said to have taken covers its own work: its prefill   *)
(* and, in steps shared with others, every token of its output.            *)
LatencyCoversWork ==
  \A r \in Completed :
    /\ arrival[r] <= start[r]
    /\ start[r] + prompt[r] * PrefillPerToken + output[r] * Unit <= finish[r]

-----------------------------------------------------------------------------
(* Why: the inductive invariant.                                           *)

(* Requests arrive and are admitted in order, and what an active one still *)
(* needs follows from what it has been given.                              *)
Progress ==
  /\ \A q, r \in Requests : q < r => arrival[q] <= arrival[r]
  /\ \A r \in admitted, q \in Requests : q < r => q \in admitted
  /\ \A r \in admitted : arrival[r] <= start[r] /\ start[r] <= time
  /\ \A r \in active :
       /\ remaining[r] <= output[r]
       /\ start[r] + prompt[r] * PrefillPerToken + (output[r] - remaining[r]) * Unit <= time

(* Of two active requests the earlier has had at least as many steps, so   *)
(* one that asks for no more is not behind.                                *)
Order ==
  /\ \A r \in Completed : finish[r] <= time
  /\ \A q, r \in active : q < r /\ output[q] <= output[r] => remaining[q] <= remaining[r]
  /\ \A q \in active, r \in Completed : q < r => output[q] > output[r]

IInv ==
  /\ TypeOK
  /\ ClockAccounted
  /\ Progress
  /\ Order
  /\ ShorterIsNotOvertaken
  /\ LatencyCoversWork

=============================================================================
