------------------------------ MODULE Gateway ------------------------------
(***************************************************************************)
(* One gateway process that answers POST /generate: the route              *)
(* (app/main.py), generate_text (app/inference.py) and the resilience      *)
(* controller with its process-local circuit breaker (app/resilience.py).  *)
(*                                                                         *)
(* FastAPI runs the route in a thread pool, so several requests are in     *)
(* execute() at a time and share the breaker.  A step is what a thread     *)
(* does between two accesses to the breaker, or up to the end of a call to *)
(* a backend.  A backend call returns a result or raises one of the        *)
(* classes of app/backends/errors.py, or anything else ("other").          *)
(***************************************************************************)
EXTENDS CircuitBreaker, FiniteSets

CONSTANTS
  Requests,       \* threads of the pool, each with one request at a time
  RetryAttempts,  \* RESILIENCE_RETRY_ATTEMPTS
  HasFallback     \* is a fallback backend configured

ASSUME GatewayAssumption ==
  /\ RetryAttempts \in Nat
  /\ HasFallback \in BOOLEAN

VARIABLES
  breaker,     \* the CircuitBreaker instance
  pc,          \* where each thread is
  attempts,    \* primary_attempts
  error,       \* the exception last raised for the request, or "none"
  backend,     \* the backend called last for the request, or "none"
  answer,      \* HTTP status of the request's answer, 0 before it
  \* history, read by no action
  streak,      \* failures recorded since the last recorded success
  probes       \* requests admitted since HALF_OPEN was entered last

thread  == <<pc, attempts, error, backend, answer>>
vars    == <<breaker, thread, streak, probes>>

Errors == {"unavailable", "timeout", "exhausted", "protocol", "other"}

Phases == {"idle", "admit", "primary", "backoff", "success", "failure",
           "blocked", "fallback", "report"}

(* _is_retry_safe and _is_fallback_safe.                                   *)
RetrySafe == {"unavailable", "timeout"}

(* Mutant: only what may be retried goes to the fallback.                  *)
RetrySafeOnly == RetrySafe

FallbackSafe == {"unavailable", "timeout", "exhausted"}

(* execute() goes around its loop again after exception e.                 *)
Retries(r, e) == attempts[r] <= RetryAttempts /\ e \in RetrySafe

(* The except clauses of the route; an exception without one becomes 500.  *)
StatusOf(e) ==
  CASE e \in {"circuit_open", "unavailable"} -> 503
    [] e = "timeout"                          -> 504
    [] e = "protocol"                         -> 502
    [] OTHER                                  -> 500

-----------------------------------------------------------------------------
TypeOK ==
  /\ breaker \in Breaker
  /\ pc \in [Requests -> Phases]
  /\ attempts \in [Requests -> 0 .. RetryAttempts + 1]
  /\ error \in [Requests -> Errors \cup {"none", "circuit_open"}]
  /\ backend \in [Requests -> {"none", "primary", "fallback"}]
  /\ answer \in [Requests -> {0, 200, 500, 502, 503, 504}]
  /\ streak \in 0 .. FailureThreshold
  /\ probes \in Nat

Init ==
  /\ breaker = NewBreaker
  /\ pc = [r \in Requests |-> "idle"]
  /\ attempts = [r \in Requests |-> 0]
  /\ error = [r \in Requests |-> "none"]
  /\ backend = [r \in Requests |-> "none"]
  /\ answer = [r \in Requests |-> 0]
  /\ streak = 0
  /\ probes = 0

Goto(r, phase) == pc' = [pc EXCEPT ![r] = phase]

(* The state and snapshot of the breaker are read, which may take it from  *)
(* OPEN to HALF_OPEN.                                                      *)
Observe ==
  /\ breaker' = Advanced(breaker)
  /\ probes' = IF breaker'.state # breaker.state THEN 0 ELSE probes
  /\ UNCHANGED streak

(* The route ends with an HTTP answer.                                     *)
Answer(r, status) ==
  /\ answer' = [answer EXCEPT ![r] = status]
  /\ Goto(r, "idle")
  /\ UNCHANGED <<attempts, error, backend>>

-----------------------------------------------------------------------------
(* A request arrives; generate_text exports the breaker's state.           *)
Begin(r) ==
  /\ pc[r] = "idle"
  /\ Observe
  /\ Goto(r, "admit")
  /\ attempts' = [attempts EXCEPT ![r] = 0]
  /\ error' = [error EXCEPT ![r] = "none"]
  /\ backend' = [backend EXCEPT ![r] = "none"]
  /\ answer' = [answer EXCEPT ![r] = 0]

CallPrimary(r) ==
  /\ Goto(r, "primary")
  /\ attempts' = [attempts EXCEPT ![r] = @ + 1]
  /\ backend' = [backend EXCEPT ![r] = "primary"]

CallFallback(r) ==
  /\ Goto(r, "fallback")
  /\ backend' = [backend EXCEPT ![r] = "fallback"]

(* allow_primary_call lets the request through.                            *)
Admit(r) ==
  /\ pc[r] = "admit"
  /\ ~Blocks(breaker)
  /\ breaker' = Admitted(breaker)
  /\ probes' = IF breaker'.state # "half_open" THEN probes
               ELSE IF breaker.state = "open" THEN 1
               ELSE probes + 1
  /\ CallPrimary(r)
  /\ UNCHANGED <<error, answer, streak>>

(* Mutant: a blocked request waits until the circuit lets it through.      *)
BlockAndWait(r) ==
  /\ pc[r] = "admit"
  /\ Blocks(breaker)
  /\ Observe
  /\ UNCHANGED thread

(* It raises CircuitOpenError: on to the fallback, or without one to the   *)
(* snapshot() that fills in a new CircuitOpenError.                        *)
Block(r) ==
  /\ pc[r] = "admit"
  /\ Blocks(breaker)
  /\ Observe
  /\ IF HasFallback
       THEN CallFallback(r) /\ UNCHANGED error
       ELSE /\ Goto(r, "blocked")
            /\ error' = [error EXCEPT ![r] = "circuit_open"]
            /\ UNCHANGED backend
  /\ UNCHANGED <<attempts, answer>>

TellBlocked(r) ==
  /\ pc[r] = "blocked"
  /\ Observe
  /\ Answer(r, StatusOf("circuit_open"))

PrimaryReturns(r) ==
  /\ pc[r] = "primary"
  /\ Goto(r, "success")
  /\ UNCHANGED <<breaker, attempts, error, backend, answer, streak, probes>>

PrimaryFails(r) ==
  /\ pc[r] = "primary"
  /\ \E e \in Errors :
       /\ error' = [error EXCEPT ![r] = e]
       /\ Goto(r, IF Retries(r, e) THEN "backoff" ELSE "failure")
  /\ UNCHANGED <<breaker, attempts, backend, answer, streak, probes>>

(* The backoff is over; the breaker is not asked again.                    *)
Retry(r) ==
  /\ pc[r] = "backoff"
  /\ CallPrimary(r)
  /\ error' = [error EXCEPT ![r] = "none"]
  /\ UNCHANGED <<breaker, answer, streak, probes>>

RecordSuccess(r) ==
  /\ pc[r] = "success"
  /\ breaker' = AfterSuccess(breaker)
  /\ streak' = 0
  /\ Goto(r, "report")
  /\ UNCHANGED <<attempts, error, backend, answer, probes>>

(* After the last attempt: to the fallback, or out of execute() with the   *)
(* exception.                                                              *)
Leave(r) ==
  IF HasFallback /\ error[r] \in FallbackSafe
    THEN CallFallback(r) /\ UNCHANGED <<attempts, error, answer>>
    ELSE Answer(r, StatusOf(error[r]))

(* Mutant: only the errors that say the primary is down reach the breaker. *)
RecordFailureOfOutage(r) ==
  /\ pc[r] = "failure"
  /\ IF error[r] \in FallbackSafe
       THEN breaker' = AfterFailure(breaker) /\ streak' = OneMore(streak)
       ELSE UNCHANGED <<breaker, streak>>
  /\ Leave(r)
  /\ UNCHANGED probes

RecordFailure(r) ==
  /\ pc[r] = "failure"
  /\ breaker' = AfterFailure(breaker)
  /\ streak' = OneMore(streak)
  /\ Leave(r)
  /\ UNCHANGED probes

(* The outcome carries the breaker's state.                                *)
FallbackReturns(r) ==
  /\ pc[r] = "fallback"
  /\ Observe
  /\ Goto(r, "report")
  /\ UNCHANGED <<attempts, error, backend, answer>>

FallbackFails(r) ==
  /\ pc[r] = "fallback"
  /\ \E e \in Errors :
       /\ error' = [error EXCEPT ![r] = e]
       /\ answer' = [answer EXCEPT ![r] = StatusOf(e)]
  /\ Goto(r, "idle")
  /\ UNCHANGED <<breaker, attempts, backend, streak, probes>>

(* generate_text exports the breaker's state and the route returns 200.    *)
Report(r) ==
  /\ pc[r] = "report"
  /\ Observe
  /\ Answer(r, 200)

(* recovery_timeout_seconds have passed since the breaker was opened.      *)
Elapse ==
  /\ Ripens(breaker)
  /\ breaker' = Ripe(breaker)
  /\ UNCHANGED <<thread, streak, probes>>

-----------------------------------------------------------------------------
(* What a thread does once its request has arrived.                        *)
Work(r) ==
  \/ Admit(r)
  \/ Block(r)
  \/ TellBlocked(r)
  \/ PrimaryReturns(r)
  \/ PrimaryFails(r)
  \/ Retry(r)
  \/ RecordSuccess(r)
  \/ RecordFailure(r)
  \/ FallbackReturns(r)
  \/ FallbackFails(r)
  \/ Report(r)

Next == Elapse \/ \E r \in Requests : Begin(r) \/ Work(r)

Spec == Init /\ [][Next]_vars

(* Every backend call ends, because its socket has a timeout; threads run; *)
(* the clock advances.  Nobody has to send a request.                      *)
FairSpec == Spec /\ WF_vars(Elapse) /\ \A r \in Requests : WF_vars(Work(r))

-----------------------------------------------------------------------------
(* The breaker is closed exactly as long as fewer than the threshold of    *)
(* failures were recorded since the last success, in the order in which    *)
(* the threads' results came in: stale results, probes and concurrent      *)
(* openings never make it forget failures or count them twice.             *)
ClosedMeansFewFailures ==
  breaker.state = "closed" <=> streak < FailureThreshold

(* From the moment the breaker becomes HALF_OPEN until it leaves that      *)
(* state, at most one request is let through to the primary, although any  *)
(* thread, and a mere read of the state, may cause the change.             *)
OneProbePerHalfOpen == breaker.state = "half_open" => probes <= 1

Outages == {"unavailable", "timeout", "exhausted", "circuit_open"}

(* A backend that is down, slow or out of resources is hidden from the     *)
(* client by the fallback: with one configured, an answer that says so     *)
(* (500 for exhaustion, 503, 504) comes only after the fallback failed.    *)
FallbackShieldsClients ==
  \A r \in Requests :
    HasFallback /\ answer[r] \notin {0, 200} /\ error[r] \in Outages
      => backend[r] = "fallback"

(* A circuit that opened does not stay so: again and again there is a      *)
(* moment at which a request would be let through to the primary.  The     *)
(* probe's flag is given back whatever way its call ends.                  *)
AdmitsAgain == []<>~Blocks(breaker)

(* Every request is answered: retries are bounded and no thread waits for  *)
(* the circuit.                                                            *)
EveryRequestIsAnswered ==
  \A r \in Requests : pc[r] = "admit" ~> answer[r] # 0

-----------------------------------------------------------------------------
(* Why: the inductive invariant.                                           *)

(* The breaker's own counter agrees with what was recorded, and its probe  *)
(* flag with the requests let through.                                     *)
Accounts ==
  /\ breaker.failures = streak
  /\ ClosedMeansFewFailures
  /\ breaker.state = "half_open" => probes = IF breaker.probing THEN 1 ELSE 0

(* A thread at work has no answer yet, and what it did so far fits the     *)
(* place it is at.                                                         *)
Underway ==
  \A r \in Requests :
    /\ pc[r] # "idle" => answer[r] = 0
    /\ pc[r] = "admit" => attempts[r] = 0
    /\ pc[r] = "backoff" => attempts[r] <= RetryAttempts
    /\ pc[r] = "failure" => error[r] \in Errors
    /\ pc[r] = "blocked" => ~HasFallback
    /\ pc[r] = "fallback" => backend[r] = "fallback"

IInv == TypeOK /\ Accounts /\ Underway /\ FallbackShieldsClients

=============================================================================
