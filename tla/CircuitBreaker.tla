--------------------------- MODULE CircuitBreaker ---------------------------
(***************************************************************************)
(* The process-local circuit breaker (class CircuitBreaker of              *)
(* app/resilience.py) as a value and the operations on it.  Every method   *)
(* holds the breaker's lock from its first to its last access, so each     *)
(* operation is one function from breakers to breakers.                    *)
(*                                                                         *)
(* opened_at and the clock appear as ready: recovery_timeout_seconds have  *)
(* passed since the breaker was opened last.  The failure counter stops at *)
(* the threshold: the code only asks whether it has been reached, and only *)
(* a success takes it back, to zero.                                       *)
(***************************************************************************)
EXTENDS Integers

CONSTANT FailureThreshold   \* RESILIENCE_FAILURE_THRESHOLD

ASSUME ThresholdAssumption == FailureThreshold \in Nat \ {0}

CircuitStates == {"closed", "open", "half_open"}

Breaker == [state : CircuitStates, failures : 0 .. FailureThreshold,
            ready : BOOLEAN, probing : BOOLEAN]

NewBreaker == [state |-> "closed", failures |-> 0, ready |-> FALSE, probing |-> FALSE]

OneMore(n) == IF n < FailureThreshold THEN n + 1 ELSE n

(* _advance_open_state_if_ready, which every reading method calls first.   *)
Advanced(b) ==
  IF b.state = "open" /\ b.ready
    THEN [b EXCEPT !.state = "half_open", !.ready = FALSE, !.probing = FALSE]
    ELSE b

(* allow_primary_call raises CircuitOpenError.                             *)
Blocks(b) ==
  \/ Advanced(b).state = "open"
  \/ Advanced(b).state = "half_open" /\ Advanced(b).probing

(* Mutant: the probe is let through but not remembered.                    *)
AdmittedUnmarked(b) == Advanced(b)

(* allow_primary_call returns a permit.                                    *)
Admitted(b) ==
  IF Advanced(b).state = "half_open" THEN [Advanced(b) EXCEPT !.probing = TRUE]
                                     ELSE Advanced(b)

Opened(b) == [b EXCEPT !.state = "open", !.ready = FALSE]

(* Mutant: the counter keeps its value when the breaker closes.            *)
ClosedKeepingCount(b) == [NewBreaker EXCEPT !.failures = b.failures]

(* record_success: no permit is looked at.                                 *)
AfterSuccess(b) == NewBreaker

(* record_failure: no permit is looked at.  A failure in HALF_OPEN is not  *)
(* counted, one in OPEN is, and opens the breaker again.                   *)
AfterFailure(b) ==
  LET n == OneMore(b.failures)
      resolved == [b EXCEPT !.probing = FALSE]
  IN IF b.state = "half_open" THEN Opened(resolved)
     ELSE IF n = FailureThreshold THEN Opened([resolved EXCEPT !.failures = n])
     ELSE [resolved EXCEPT !.failures = n]

(* Time passes until the breaker may be probed.                            *)
Ripens(b) == b.state = "open" /\ ~b.ready
Ripe(b) == [b EXCEPT !.ready = TRUE]

=============================================================================
