------------------------ MODULE CircuitBreakerProofs ------------------------
(***************************************************************************)
(* What the operations of CircuitBreaker do, for every threshold.          *)
(***************************************************************************)
EXTENDS CircuitBreaker, TLAPS

(* Reading the breaker gives a breaker, which is closed if it was.         *)
LEMMA AdvancedFacts ==
  ASSUME NEW b \in Breaker
  PROVE  /\ Advanced(b) \in Breaker
         /\ Advanced(b).failures = b.failures
         /\ Advanced(b).state = "closed" <=> b.state = "closed"
         /\ Advanced(b).state # b.state =>
              b.state = "open" /\ Advanced(b).state = "half_open" /\ ~Advanced(b).probing
         /\ Advanced(b).state = b.state => Advanced(b) = b
  BY DEF Advanced, Breaker, CircuitStates

(* Letting a call through counts it in HALF_OPEN and nothing else.         *)
LEMMA AdmittedFacts ==
  ASSUME NEW b \in Breaker, ~Blocks(b)
  PROVE  /\ Admitted(b) \in Breaker
         /\ Admitted(b).failures = b.failures
         /\ Admitted(b).state = "closed" <=> b.state = "closed"
         /\ Admitted(b).state = "half_open" => Admitted(b).probing
         /\ b.state = "half_open" => ~b.probing
  BY DEF Admitted, Blocks, Advanced, Breaker, CircuitStates

(* Recording a failure counts it, up to the threshold, at which the        *)
(* breaker is open.                                                        *)
LEMMA AfterFailureFacts ==
  ASSUME NEW b \in Breaker,
         b.state = "closed" <=> b.failures < FailureThreshold
  PROVE  /\ AfterFailure(b) \in Breaker
         /\ AfterFailure(b).failures = OneMore(b.failures)
         /\ AfterFailure(b).state # "half_open"
         /\ AfterFailure(b).state = "closed" <=> OneMore(b.failures) < FailureThreshold
<1> USE ThresholdAssumption DEF Breaker, CircuitStates
<1> DEFINE n == OneMore(b.failures)
<1>1. n \in 0 .. FailureThreshold /\ (n < FailureThreshold <=> n # FailureThreshold)
  BY DEF OneMore
<1>2. CASE b.state = "half_open"
  <2>1. n = b.failures /\ n = FailureThreshold
    BY <1>2 DEF OneMore
  <2>2. AfterFailure(b) = [b EXCEPT !.probing = FALSE, !.state = "open", !.ready = FALSE]
    BY <1>2 DEF AfterFailure, Opened
  <2> QED BY <1>1, <1>2, <2>1, <2>2
<1>3. CASE b.state # "half_open" /\ n = FailureThreshold
  <2>1. AfterFailure(b) = [b EXCEPT !.probing = FALSE, !.failures = n, !.state = "open",
                                    !.ready = FALSE]
    BY <1>3 DEF AfterFailure, Opened
  <2> QED BY <1>1, <1>3, <2>1
<1>4. CASE b.state # "half_open" /\ n # FailureThreshold
  <2>1. AfterFailure(b) = [b EXCEPT !.probing = FALSE, !.failures = n]
    BY <1>4 DEF AfterFailure
  <2>2. b.state = "closed"
    BY <1>4 DEF OneMore
  <2> QED BY <1>1, <1>4, <2>1, <2>2
<1> QED BY <1>2, <1>3, <1>4

(* Recording a failure gives a breaker, whatever the breaker's state.      *)
LEMMA AfterFailureType ==
  ASSUME NEW b \in Breaker
  PROVE  AfterFailure(b) \in Breaker
<1> USE ThresholdAssumption DEF Breaker, CircuitStates
<1> DEFINE n == OneMore(b.failures)
<1>1. n \in 0 .. FailureThreshold
  BY DEF OneMore
<1>2. AfterFailure(b) \in
        {[b EXCEPT !.probing = FALSE, !.state = "open", !.ready = FALSE],
         [b EXCEPT !.probing = FALSE, !.failures = n, !.state = "open", !.ready = FALSE],
         [b EXCEPT !.probing = FALSE, !.failures = n]}
  BY DEF AfterFailure, Opened
<1> HIDE DEF n
<1> QED BY <1>1, <1>2

(* A new breaker is one, and so is a breaker that has ripened.             *)
LEMMA NewBreakerType == NewBreaker \in Breaker
  BY ThresholdAssumption DEF NewBreaker, Breaker, CircuitStates

LEMMA RipeType == \A b \in Breaker : Ripe(b) \in Breaker
  BY DEF Ripe, Breaker

=============================================================================
