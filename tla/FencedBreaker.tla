--------------------------- MODULE FencedBreaker ---------------------------
(***************************************************************************)
(* What the gateways want of the circuit breaker they share: one breaker,  *)
(* and for each call in flight the knowledge whether its result counts.    *)
(* A result counts only if nothing happened to the breaker since the call  *)
(* was let through: a change of state makes all other results void.        *)
(***************************************************************************)
EXTENDS Integers

CONSTANTS Calls, FailureThreshold

VARIABLES
  state,     \* "closed", "open" or "half_open"
  failures,  \* consecutive failures
  ready,     \* the breaker has been open for the recovery timeout
  entitled   \* calls in flight whose results count

vars == <<state, failures, ready, entitled>>

Init ==
  /\ state = "closed"
  /\ failures = 0
  /\ ready = FALSE
  /\ entitled = {}

(* Any number of calls while the breaker is closed.                        *)
Admit(c) ==
  /\ state = "closed"
  /\ entitled' = entitled \cup {c}
  /\ UNCHANGED <<state, failures, ready>>

(* One probe, once the breaker has been open long enough or the last probe *)
(* has lost its claim.  The prober may die before it learns of its luck.   *)
Probe(c) ==
  /\ state = "half_open" \/ (state = "open" /\ ready)
  /\ entitled = {}
  /\ state' = "half_open"
  /\ failures' = 0
  /\ ready' = FALSE
  /\ entitled' \in {{c}, {}}

Succeed(c) ==
  /\ c \in entitled
  /\ state' = "closed"
  /\ failures' = 0
  /\ entitled' = entitled \ {c}
  /\ UNCHANGED ready

Fail(c) ==
  /\ c \in entitled
  /\ state = "closed"
  /\ failures + 1 < FailureThreshold
  /\ failures' = failures + 1
  /\ entitled' = entitled \ {c}
  /\ UNCHANGED <<state, ready>>

Trip(c) ==
  /\ c \in entitled
  /\ state = "half_open" \/ failures + 1 = FailureThreshold
  /\ state' = "open"
  /\ failures' = FailureThreshold
  /\ entitled' = {}
  /\ UNCHANGED ready

(* Results are lost: with their gateway, their store or their lease.       *)
Withdraw ==
  /\ entitled' \in SUBSET entitled
  /\ UNCHANGED <<state, failures, ready>>

Ripen ==
  /\ state = "open"
  /\ ready' = TRUE
  /\ UNCHANGED <<state, failures, entitled>>

Next ==
  \/ \E c \in Calls : Admit(c) \/ Probe(c) \/ Succeed(c) \/ Fail(c) \/ Trip(c)
  \/ Withdraw
  \/ Ripen

Spec == Init /\ [][Next]_vars

=============================================================================
