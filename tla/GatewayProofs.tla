---------------------------- MODULE GatewayProofs ----------------------------
(***************************************************************************)
(* Proofs about Gateway: any number of threads, any threshold, any number  *)
(* of retries, with or without a fallback.                                 *)
(***************************************************************************)
EXTENDS Gateway, CircuitBreakerProofs

-----------------------------------------------------------------------------
(* The breaker's part of the invariant.                                    *)
BreakerOK ==
  /\ breaker \in Breaker
  /\ streak \in 0 .. FailureThreshold
  /\ probes \in Nat
  /\ Accounts

(* Reading it keeps the breaker's part.                                    *)
LEMMA ObserveStep == BreakerOK /\ Observe => BreakerOK'
<1> SUFFICES ASSUME BreakerOK, Observe PROVE BreakerOK'
  OBVIOUS
<1>1. /\ breaker' = Advanced(breaker) /\ streak' = streak
      /\ probes' = IF breaker'.state # breaker.state THEN 0 ELSE probes
  BY DEF Observe
<1>2. breaker' \in Breaker /\ probes' \in Nat
  BY <1>1, AdvancedFacts DEF BreakerOK
<1>3. breaker'.failures = streak' /\ (breaker'.state = "closed" <=> streak' < FailureThreshold)
  BY <1>1, AdvancedFacts DEF BreakerOK, Accounts, ClosedMeansFewFailures
<1>4. breaker'.state = "half_open" => probes' = IF breaker'.probing THEN 1 ELSE 0
  <2>1. CASE breaker'.state = breaker.state
    BY <1>1, <2>1, AdvancedFacts DEF BreakerOK, Accounts
  <2>2. CASE breaker'.state # breaker.state
    BY <1>1, <2>2, AdvancedFacts DEF BreakerOK, Accounts
  <2> QED BY <2>1, <2>2
<1> QED BY <1>1, <1>2, <1>3, <1>4 DEF BreakerOK, Accounts, ClosedMeansFewFailures

(* Letting a request through does.                                         *)
LEMMA AdmitStep ==
  ASSUME BreakerOK, NEW r \in Requests, Admit(r)
  PROVE  BreakerOK'
<1>1. /\ ~Blocks(breaker) /\ breaker' = Admitted(breaker) /\ streak' = streak
      /\ probes' = IF breaker'.state # "half_open" THEN probes
                   ELSE IF breaker.state = "open" THEN 1
                   ELSE probes + 1
  BY DEF Admit
<1>2. breaker' \in Breaker /\ probes' \in Nat
  BY <1>1, AdmittedFacts DEF BreakerOK
<1>3. breaker'.failures = streak' /\ (breaker'.state = "closed" <=> streak' < FailureThreshold)
  BY <1>1, AdmittedFacts DEF BreakerOK, Accounts, ClosedMeansFewFailures
<1>4. breaker'.state = "half_open" => breaker'.probing /\ probes' = 1
  <2> SUFFICES ASSUME breaker'.state = "half_open" PROVE breaker'.probing /\ probes' = 1
    OBVIOUS
  <2>1. breaker'.probing /\ breaker.state # "closed"
    BY <1>1, AdmittedFacts DEF BreakerOK
  <2>2. CASE breaker.state = "open"
    BY <1>1, <2>1, <2>2
  <2>3. CASE breaker.state = "half_open"
    <3>1. ~breaker.probing
      BY <1>1, <2>3, AdmittedFacts DEF BreakerOK
    <3> QED BY <1>1, <2>1, <2>3, <3>1 DEF BreakerOK, Accounts
  <2> QED BY <2>1, <2>2, <2>3 DEF BreakerOK, Breaker, CircuitStates
<1> QED BY <1>1, <1>2, <1>3, <1>4 DEF BreakerOK, Accounts, ClosedMeansFewFailures

(* So do the two ways to record a result, and time.                        *)
LEMMA RecordStep ==
  ASSUME BreakerOK, UNCHANGED probes,
         \/ breaker' = AfterSuccess(breaker) /\ streak' = 0
         \/ breaker' = AfterFailure(breaker) /\ streak' = OneMore(streak)
  PROVE  BreakerOK'
<1>1. CASE breaker' = AfterSuccess(breaker) /\ streak' = 0
  BY <1>1, ThresholdAssumption
  DEF AfterSuccess, NewBreaker, BreakerOK, Breaker, CircuitStates, Accounts, ClosedMeansFewFailures
<1>2. CASE breaker' = AfterFailure(breaker) /\ streak' = OneMore(streak)
  <2>1. breaker.failures = streak /\ (breaker.state = "closed" <=> breaker.failures < FailureThreshold)
    BY DEF BreakerOK, Accounts, ClosedMeansFewFailures
  <2>2. /\ breaker' \in Breaker
        /\ breaker'.failures = streak'
        /\ breaker'.state # "half_open"
        /\ breaker'.state = "closed" <=> streak' < FailureThreshold
    BY <1>2, <2>1, AfterFailureFacts DEF BreakerOK
  <2>3. streak' \in 0 .. FailureThreshold
    BY <1>2, ThresholdAssumption DEF OneMore, BreakerOK
  <2> QED BY <2>2, <2>3 DEF BreakerOK, Accounts, ClosedMeansFewFailures
<1> QED BY <1>1, <1>2

(* Time does.                                                              *)
LEMMA ElapseStep == BreakerOK /\ Elapse => BreakerOK'
  BY DEF Elapse, Ripens, Ripe, BreakerOK, Breaker, CircuitStates, Accounts, ClosedMeansFewFailures

(* Every step keeps the breaker's part.                                    *)
LEMMA BreakerStep == BreakerOK /\ [Next]_vars => BreakerOK'
<1> SUFFICES ASSUME BreakerOK, [Next]_vars PROVE BreakerOK'
  OBVIOUS
<1>1. CASE Elapse
  BY <1>1, ElapseStep
<1>2. ASSUME NEW r \in Requests, Begin(r) \/ Work(r) PROVE BreakerOK'
  <2>1. CASE Begin(r) \/ Block(r) \/ TellBlocked(r) \/ FallbackReturns(r) \/ Report(r)
    BY <2>1, ObserveStep DEF Begin, Block, TellBlocked, FallbackReturns, Report
  <2>2. CASE Admit(r)
    BY <2>2, AdmitStep
  <2>3. CASE RecordSuccess(r) \/ RecordFailure(r)
    BY <2>3, RecordStep DEF RecordSuccess, RecordFailure
  <2>4. CASE PrimaryReturns(r) \/ PrimaryFails(r) \/ Retry(r) \/ FallbackFails(r)
    <3>1. UNCHANGED <<breaker, streak, probes>>
      BY <2>4 DEF PrimaryReturns, PrimaryFails, Retry, FallbackFails
    <3> QED BY <3>1 DEF BreakerOK, Accounts, ClosedMeansFewFailures
  <2> QED BY <1>2, <2>1, <2>2, <2>3, <2>4 DEF Work
<1>3. CASE UNCHANGED vars
  BY <1>3 DEF vars, BreakerOK, Accounts, ClosedMeansFewFailures
<1> QED BY <1>1, <1>2, <1>3 DEF Next

-----------------------------------------------------------------------------
(* The threads' part.                                                      *)
ThreadTypes ==
  /\ pc \in [Requests -> Phases]
  /\ attempts \in [Requests -> 0 .. RetryAttempts + 1]
  /\ error \in [Requests -> Errors \cup {"none", "circuit_open"}]
  /\ backend \in [Requests -> {"none", "primary", "fallback"}]
  /\ answer \in [Requests -> {0, 200, 500, 502, 503, 504}]

ThreadsOK == ThreadTypes /\ Underway /\ FallbackShieldsClients

(* Whatever the exception, it becomes one of the route's statuses.         *)
LEMMA StatusType == \A e : StatusOf(e) \in {500, 502, 503, 504}
  BY DEF StatusOf

(* Every step keeps the threads' part.                                     *)
LEMMA ThreadStep == ThreadsOK /\ [Next]_vars => ThreadsOK'
<1> SUFFICES ASSUME ThreadsOK, [Next]_vars PROVE ThreadsOK'
  OBVIOUS
<1> USE GatewayAssumption
    DEF ThreadsOK, ThreadTypes, Underway, FallbackShieldsClients, Outages, Errors, Phases,
        Goto, thread
<1>1. ASSUME UNCHANGED thread PROVE ThreadsOK'
  BY <1>1
<1>2. ASSUME NEW r \in Requests, Begin(r) PROVE ThreadsOK'
  BY <1>2 DEF Begin
<1>3. ASSUME NEW r \in Requests, Admit(r) PROVE ThreadsOK'
  BY <1>3 DEF Admit, CallPrimary
<1>4. ASSUME NEW r \in Requests, Block(r) PROVE ThreadsOK'
  <2>1. CASE HasFallback
    BY <1>4, <2>1 DEF Block, CallFallback
  <2>2. CASE ~HasFallback
    BY <1>4, <2>2 DEF Block
  <2> QED BY <2>1, <2>2
<1>5. ASSUME NEW r \in Requests, TellBlocked(r) PROVE ThreadsOK'
  BY <1>5, StatusType DEF TellBlocked, Answer
<1>6. ASSUME NEW r \in Requests, PrimaryReturns(r) PROVE ThreadsOK'
  BY <1>6 DEF PrimaryReturns
<1>7. ASSUME NEW r \in Requests, PrimaryFails(r) PROVE ThreadsOK'
  <2>1. PICK e \in Errors : /\ error' = [error EXCEPT ![r] = e]
                            /\ pc' = [pc EXCEPT ![r] = IF Retries(r, e) THEN "backoff" ELSE "failure"]
    BY <1>7 DEF PrimaryFails
  <2>2. CASE Retries(r, e)
    BY <1>7, <2>1, <2>2 DEF PrimaryFails, Retries
  <2>3. CASE ~Retries(r, e)
    BY <1>7, <2>1, <2>3 DEF PrimaryFails
  <2> QED BY <2>2, <2>3
<1>8. ASSUME NEW r \in Requests, Retry(r) PROVE ThreadsOK'
  BY <1>8 DEF Retry, CallPrimary
<1>9. ASSUME NEW r \in Requests, RecordSuccess(r) PROVE ThreadsOK'
  BY <1>9 DEF RecordSuccess
<1>10. ASSUME NEW r \in Requests, RecordFailure(r) PROVE ThreadsOK'
  <2>1. CASE HasFallback /\ error[r] \in FallbackSafe
    BY <1>10, <2>1 DEF RecordFailure, Leave, CallFallback
  <2>2. CASE ~(HasFallback /\ error[r] \in FallbackSafe)
    <3>1. Answer(r, StatusOf(error[r])) /\ pc[r] = "failure"
      BY <1>10, <2>2 DEF RecordFailure, Leave
    <3> QED BY <2>2, <3>1, StatusType DEF Answer, FallbackSafe
  <2> QED BY <2>1, <2>2
<1>11. ASSUME NEW r \in Requests, FallbackReturns(r) PROVE ThreadsOK'
  BY <1>11 DEF FallbackReturns
<1>12. ASSUME NEW r \in Requests, FallbackFails(r) PROVE ThreadsOK'
  BY <1>12, StatusType DEF FallbackFails
<1>13. ASSUME NEW r \in Requests, Report(r) PROVE ThreadsOK'
  BY <1>13 DEF Report, Answer
<1>14. (Elapse \/ UNCHANGED vars) => UNCHANGED thread
  BY DEF Elapse, vars
<1> QED
  BY <1>1, <1>2, <1>3, <1>4, <1>5, <1>6, <1>7, <1>8, <1>9, <1>10, <1>11, <1>12, <1>13, <1>14
  DEF Next, Work

-----------------------------------------------------------------------------
(* The invariant holds.                                                    *)
LEMMA Invariance == Spec => [](BreakerOK /\ ThreadsOK)
<1>1. Init => BreakerOK
  BY ThresholdAssumption
  DEF Init, BreakerOK, NewBreaker, Breaker, CircuitStates, Accounts, ClosedMeansFewFailures
<1>2. Init => ThreadsOK
  BY GatewayAssumption
  DEF Init, ThreadsOK, ThreadTypes, Underway, FallbackShieldsClients, Phases, Errors
<1>3. (BreakerOK /\ ThreadsOK) /\ [Next]_vars => (BreakerOK /\ ThreadsOK)'
  BY BreakerStep, ThreadStep
<1> QED BY <1>1, <1>2, <1>3, PTL DEF Spec

(* The inductive invariant that the runs check holds for any number of     *)
(* requests: the breaker's accounts, what each thread is at, its answers.  *)
THEOREM GatewayInvariant == Spec => []IInv
<1>1. BreakerOK /\ ThreadsOK => IInv
  BY DEF BreakerOK, ThreadsOK, ThreadTypes, TypeOK, IInv
<1> QED BY <1>1, Invariance, PTL

(* The variables keep their types: in particular no request reaches the    *)
(* primary more often than the retries allow.                              *)
THEOREM GatewayTypes == Spec => []TypeOK
<1>1. BreakerOK /\ ThreadsOK => TypeOK
  BY DEF BreakerOK, ThreadsOK, ThreadTypes, TypeOK
<1> QED BY <1>1, Invariance, PTL

(* The local breaker is closed exactly while fewer failures than the       *)
(* threshold were recorded since the last success, however threads         *)
(* interleave.                                                             *)
THEOREM FailuresAreCounted == Spec => []ClosedMeansFewFailures
<1>1. BreakerOK => ClosedMeansFewFailures
  BY DEF BreakerOK, Accounts
<1> QED BY <1>1, Invariance, PTL

(* At most one request is let through per stay in HALF_OPEN.               *)
THEOREM OneProbe == Spec => []OneProbePerHalfOpen
<1>1. BreakerOK => OneProbePerHalfOpen
  BY DEF BreakerOK, Accounts, OneProbePerHalfOpen
<1> QED BY <1>1, Invariance, PTL

(* With a fallback configured, clients hear of an outage of the primary    *)
(* only when the fallback failed too.                                      *)
THEOREM FallbackShields == Spec => []FallbackShieldsClients
<1>1. ThreadsOK => FallbackShieldsClients
  BY DEF ThreadsOK
<1> QED BY <1>1, Invariance, PTL

=============================================================================
