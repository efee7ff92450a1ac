------------------------- MODULE SharedBreakerProofs -------------------------
(***************************************************************************)
(* Proofs about SharedBreaker: any gateways, threads, threshold, retries,  *)
(* lease, faults and bounds.                                               *)
(***************************************************************************)
EXTENDS SharedBreaker, CircuitBreakerProofs

-----------------------------------------------------------------------------
(* Types.                                                                  *)

(* The operations on the local breakers give breakers.                     *)
LEMMA LocalTypes ==
  ASSUME NEW b \in Breaker
  PROVE  /\ Advanced(b) \in Breaker
         /\ AfterSuccess(b) \in Breaker
         /\ AfterFailure(b) \in Breaker
         /\ Ripe(b) \in Breaker
         /\ ~Blocks(b) => Admitted(b) \in Breaker
  BY AdvancedFacts, AdmittedFacts, AfterFailureType, NewBreakerType, RipeType DEF AfterSuccess

(* A permit that the local breaker gives.                                  *)
LEMMA LocalPermitType == \A b \in Breaker : LocalPermit(b) \in Permit
  BY DEF LocalPermit, Permit, Breaker

(* The scripts keep the types of their keys.                               *)
LEMMA ScriptTypes ==
  ASSUME circuit \in Circuit, probe \in Tokens \cup {NoToken}, NEW p \in Permit,
         SuccessScript(p) \/ FailureScript(p)
  PROVE  circuit' \in Circuit /\ probe' \in Tokens \cup {NoToken}
<1> USE ThresholdAssumption DEF Circuit, CircuitStates
<1>1. CASE SuccessScript(p)
  <2>1. circuit' \in {circuit, [circuit EXCEPT !.failures = 0],
                      [state |-> "closed", version |-> circuit.version + 1,
                       failures |-> 0, ready |-> FALSE]}
    BY <1>1 DEF SuccessScript, NewCircuit, redis
  <2>2. probe' \in {probe, NoToken}
    BY <1>1 DEF SuccessScript, redis
  <2>3. CASE circuit' = circuit
    BY <2>2, <2>3
  <2>4. CASE circuit' = [circuit EXCEPT !.failures = 0]
    BY <2>2, <2>4
  <2>5. CASE circuit' = [state |-> "closed", version |-> circuit.version + 1,
                         failures |-> 0, ready |-> FALSE]
    <3>1. circuit.version + 1 \in Nat /\ 0 \in 0 .. FailureThreshold
      OBVIOUS
    <3> QED BY <2>2, <2>5, <3>1
  <2> QED BY <2>1, <2>3, <2>4, <2>5
<1>2. CASE FailureScript(p)
  <2>1. \/ circuit' = circuit
        \/ /\ circuit' = [circuit EXCEPT !.failures = circuit.failures + 1]
           /\ circuit.failures + 1 < FailureThreshold
        \/ circuit' = [state |-> "open", version |-> circuit.version + 1,
                       failures |-> FailureThreshold, ready |-> FALSE]
    BY <1>2 DEF FailureScript, redis
  <2>2. probe' \in {probe, NoToken}
    BY <1>2 DEF FailureScript, redis
  <2>3. CASE circuit' = circuit
    BY <2>2, <2>3
  <2>4. CASE /\ circuit' = [circuit EXCEPT !.failures = circuit.failures + 1]
             /\ circuit.failures + 1 < FailureThreshold
    <3>1. circuit.failures + 1 \in 0 .. FailureThreshold
      BY <2>4
    <3> QED BY <2>2, <2>4, <3>1
  <2>5. CASE circuit' = [state |-> "open", version |-> circuit.version + 1,
                         failures |-> FailureThreshold, ready |-> FALSE]
    <3>1. circuit.version + 1 \in Nat /\ FailureThreshold \in 0 .. FailureThreshold
      OBVIOUS
    <3> QED BY <2>2, <2>5, <3>1
  <2> QED BY <2>1, <2>3, <2>4, <2>5
<1> QED BY <1>1, <1>2

(* The local breaker decides about a call.                                 *)
LEMMA AskLocalType ==
  ASSUME TypeOK, NEW c \in Calls, AskLocal(c)
  PROVE  /\ fallback' \in [Gateways -> Breaker]
         /\ pc' \in [Calls -> {"idle", "primary", "success", "failure"}]
         /\ attempts' \in [Calls -> 0 .. RetryAttempts + 1]
         /\ permit' \in [Calls -> Permit]
<1> DEFINE g == GatewayOf[c]
<1>1. g \in Gateways /\ fallback[g] \in Breaker
  BY SharedAssumption DEF TypeOK
<1>2. CASE Blocks(fallback[g])
  BY <1>1, <1>2, LocalTypes DEF AskLocal, TypeOK
<1>3. CASE ~Blocks(fallback[g])
  <2>1. LocalPermit(Admitted(fallback[g])) \in Permit
    BY <1>1, <1>3, LocalTypes, LocalPermitType
  <2> QED BY <1>1, <1>3, <2>1, LocalTypes, SharedAssumption DEF AskLocal, Enter, TypeOK
<1> QED BY <1>2, <1>3

(* Every step keeps the variables' types.                                  *)
LEMMA TypeStep == TypeOK /\ [Next]_vars => TypeOK'
<1> SUFFICES ASSUME TypeOK, [Next]_vars PROVE TypeOK'
  OBVIOUS
<1> USE SharedAssumption DEF TypeOK, redis
<1>none. NoPermit \in Permit
  BY NewBreakerType, LocalPermitType DEF NoPermit
<1>fault. ASSUME NEW k, Fault(k) PROVE faults' \in 0 .. MaxFaults
  BY <1>fault DEF Fault
<1>1. ASSUME NEW c \in Calls, AdmitClosed(c) PROVE TypeOK'
  <2>1. RedisPermit(circuit, NoToken) \in Permit
    BY DEF RedisPermit, Permit, Circuit
  <2> QED BY <1>1, <2>1 DEF AdmitClosed, Enter
<1>2. ASSUME NEW c \in Calls, AcquireProbe(c) PROVE TypeOK'
  <2>1. PICK t \in FreshTokens :
           /\ probe' = t
           /\ \/ Enter(c, RedisPermit(Probed, t)) /\ UNCHANGED <<fallback, faults>>
              \/ Fault("reply") /\ AskLocal(c)
    BY <1>2 DEF AcquireProbe
  <2>2. circuit' = Probed /\ Probed \in Circuit
    BY <1>2, ThresholdAssumption DEF AcquireProbe, Probed, Circuit, CircuitStates
  <2>3. t \in Tokens /\ RedisPermit(Probed, t) \in Permit
    BY <2>2 DEF FreshTokens, RedisPermit, Permit, Circuit
  <2>4. CASE Enter(c, RedisPermit(Probed, t)) /\ UNCHANGED <<fallback, faults>>
    BY <2>1, <2>2, <2>3, <2>4 DEF Enter
  <2>5. CASE Fault("reply") /\ AskLocal(c)
    BY <2>1, <2>2, <2>3, <2>5, <1>fault, AskLocalType
  <2> QED BY <2>1, <2>4, <2>5
<1>3. ASSUME NEW c \in Calls, AdmitLocally(c) PROVE TypeOK'
  BY <1>3, <1>fault, AskLocalType DEF AdmitLocally
<1>4. ASSUME NEW c \in Calls, PrimaryReturns(c) \/ PrimaryFails(c) \/ Retry(c) PROVE TypeOK'
  BY <1>4 DEF PrimaryReturns, PrimaryFails, Retry
<1>5. ASSUME NEW c \in Calls, RecordSuccess(c) \/ RecordFailure(c) PROVE TypeOK'
  <2>1. permit[c] \in Permit /\ fallback[GatewayOf[c]] \in Breaker
    OBVIOUS
  <2>2. /\ pc' \in [Calls -> {"idle", "primary", "success", "failure"}]
        /\ attempts' \in [Calls -> 0 .. RetryAttempts + 1]
        /\ permit' \in [Calls -> Permit]
    BY <1>5, <1>none DEF RecordSuccess, RecordFailure, Leave
  <2>3. circuit' \in Circuit /\ probe' \in Tokens \cup {NoToken}
    BY <1>5, <2>1, ScriptTypes DEF RecordSuccess, RecordFailure
  <2>4. fallback' \in [Gateways -> Breaker]
    BY <1>5, <2>1, LocalTypes DEF RecordSuccess, RecordFailure, Tell
  <2>5. faults' \in 0 .. MaxFaults
    BY <1>5, <1>fault DEF RecordSuccess, RecordFailure
  <2> QED BY <2>2, <2>3, <2>4, <2>5
<1>6. ASSUME NEW g \in Gateways, Observe(g) PROVE TypeOK'
  BY <1>6, <1>fault, LocalTypes DEF Observe
<1>7. ASSUME NEW g \in Gateways, Crash(g) PROVE TypeOK'
  BY <1>7, <1>fault, <1>none, NewBreakerType DEF Crash
<1>8. ASSUME NEW g \in Gateways, ElapseLocally(g) PROVE TypeOK'
  BY <1>8, LocalTypes DEF ElapseLocally
<1>9. CASE Elapse
  BY <1>9 DEF Elapse, Circuit
<1>10. CASE LeaseExpires
  BY <1>10 DEF LeaseExpires
<1>11. CASE UNCHANGED vars
  BY <1>11 DEF vars
<1> QED
  BY <1>1, <1>2, <1>3, <1>4, <1>5, <1>6, <1>7, <1>8, <1>9, <1>10, <1>11 DEF Next, Work

-----------------------------------------------------------------------------
(* The inductive invariant.                                                *)

(* A step leaves the call's permit alone, or the call holds no permit of   *)
(* Redis after it.                                                         *)
Kept(c) == permit'[c] = permit[c] /\ (InFlight(c)' <=> InFlight(c))
Free(c) == permit'[c].store = "local" /\ permit'[c].token = NoToken
KeptOrFree == \A c \in Calls : Kept(c) \/ Free(c)

(* The keys as they may change when no permit is given out: within a       *)
(* version, or to the next one without a probe.                            *)
SameVersion ==
  /\ circuit'.version = circuit.version
  /\ circuit'.state = circuit.state
  /\ probe' \in {probe, NoToken}
NextVersion ==
  /\ circuit'.version = circuit.version + 1
  /\ probe' = NoToken
Sound ==
  /\ circuit.state = "open" <=> circuit.failures = FailureThreshold
  /\ circuit.ready => circuit.state = "open"

(* A step without a new permit keeps the invariant.                        *)
LEMMA NoNewPermit ==
  ASSUME IInv, TypeOK', KeptOrFree, Sound', SameVersion \/ NextVersion
  PROVE  IInv'
<1> USE DEF Kept, Free, KeptOrFree, Probing, Holds, IInv, Circuit
<1>1. \A c \in Calls : Holds(c)' => Holds(c) /\ permit'[c] = permit[c]
  BY DEF TypeOK
<1>2. \A c \in Calls : permit'[c].token # NoToken =>
        permit[c].token # NoToken /\ Probing(c) /\ Probing(c)'
  BY DEF PermitsFit, TypeOK
<1>3. CASE SameVersion
  <2>1. KeysAgree'
    BY <1>2, <1>3 DEF SameVersion, Sound, KeysAgree, Current
  <2>2. PermitsFit'
    <3>1. \A c \in Calls : Holds(c)' =>
            /\ permit'[c].version <= circuit'.version
            /\ permit'[c].state \in {"closed", "half_open"}
            /\ permit'[c].state = "half_open" => permit'[c].token # NoToken
            /\ permit'[c].version = circuit'.version =>
                 /\ permit'[c].state = circuit'.state
                 /\ Probing(c)' => probe' \in {permit'[c].token, NoToken}
            /\ Probing(c)' /\ permit'[c].token = probe' =>
                 permit'[c].version = circuit'.version
      BY <1>1, <1>3 DEF SameVersion, PermitsFit
    <3>2. \A c, d \in Calls :
            Probing(c)' /\ Probing(d)' /\ permit'[c].version = permit'[d].version => c = d
      BY <1>1 DEF PermitsFit
    <3> QED BY <1>2, <3>1, <3>2 DEF PermitsFit
  <2> QED BY <2>1, <2>2 DEF Sound
<1>4. CASE NextVersion
  <2>1. KeysAgree'
    BY <1>4 DEF NextVersion, Sound, KeysAgree
  <2>2. PermitsFit'
    <3>1. \A c \in Calls : Holds(c)' =>
            /\ permit'[c].version < circuit'.version
            /\ permit'[c].state \in {"closed", "half_open"}
            /\ permit'[c].state = "half_open" => permit'[c].token # NoToken
            /\ Probing(c)' => permit'[c].token # probe'
      BY <1>1, <1>4 DEF NextVersion, PermitsFit, TypeOK, Permit
    <3>2. \A c, d \in Calls :
            Probing(c)' /\ Probing(d)' /\ permit'[c].version = permit'[d].version => c = d
      BY <1>1 DEF PermitsFit
    <3> QED BY <1>2, <3>1, <3>2 DEF PermitsFit, TypeOK, Permit
  <2> QED BY <2>1, <2>2 DEF Sound
<1> QED BY <1>3, <1>4

(* A call that Redis lets through while the circuit is closed.             *)
LEMMA AdmitClosedStep ==
  ASSUME IInv, TypeOK', NEW c \in Calls, AdmitClosed(c)
  PROVE  IInv'
<1> USE DEF Probing, Holds, InFlight
<1>1. /\ circuit.state = "closed" /\ UNCHANGED redis
      /\ permit'[c] = RedisPermit(circuit, NoToken)
      /\ \A d \in Calls \ {c} : permit'[d] = permit[d] /\ pc'[d] = pc[d]
  BY DEF AdmitClosed, Enter, IInv, TypeOK
<1>2. /\ permit'[c].token = NoToken /\ permit'[c].state = "closed"
      /\ permit'[c].version = circuit.version
  BY <1>1 DEF RedisPermit
<1>3. KeysAgree'
  BY <1>1, <1>2 DEF IInv, KeysAgree, redis, Current
<1>4. PermitsFit'
  <2>1. \A d \in Calls : permit'[d].token # NoToken => Probing(d)'
    BY <1>1, <1>2 DEF IInv, PermitsFit
  <2>2. \A d \in Calls : Holds(d)' =>
          /\ permit'[d].version <= circuit'.version
          /\ permit'[d].state \in {"closed", "half_open"}
          /\ permit'[d].state = "half_open" => permit'[d].token # NoToken
          /\ permit'[d].version = circuit'.version =>
               /\ permit'[d].state = circuit'.state
               /\ Probing(d)' => probe' \in {permit'[d].token, NoToken}
          /\ Probing(d)' /\ permit'[d].token = probe' => permit'[d].version = circuit'.version
    <3>1. CASE circuit.version <= circuit.version
      BY <1>1, <1>2, <3>1 DEF IInv, PermitsFit, redis
    <3> QED BY <3>1 DEF IInv, TypeOK, Circuit
  <2>3. \A d, e \in Calls :
          Probing(d)' /\ Probing(e)' /\ permit'[d].version = permit'[e].version => d = e
    BY <1>1, <1>2 DEF IInv, PermitsFit
  <2> QED BY <2>1, <2>2, <2>3 DEF PermitsFit
<1> QED BY <1>1, <1>3, <1>4 DEF IInv, redis

(* What the local breaker lets through holds no permit of Redis.           *)
LEMMA AskLocalFrees ==
  ASSUME TypeOK, NEW c \in Calls, AskLocal(c)
  PROVE  KeptOrFree
<1>1. CASE UNCHANGED <<pc, permit>>
  BY <1>1 DEF KeptOrFree, Kept, InFlight
<1>2. CASE Enter(c, LocalPermit(Admitted(fallback[GatewayOf[c]])))
  <2>1. Free(c)
    BY <1>2 DEF Enter, Free, LocalPermit, TypeOK
  <2>2. \A d \in Calls \ {c} : Kept(d)
    BY <1>2 DEF Enter, Kept, InFlight, TypeOK
  <2> QED BY <2>1, <2>2 DEF KeptOrFree
<1> QED BY <1>1, <1>2 DEF AskLocal

(* The call that Redis makes the probe, whether it hears of it or not.     *)
LEMMA AcquireProbeStep ==
  ASSUME IInv, TypeOK', NEW c \in Calls, AcquireProbe(c)
  PROVE  IInv'
<1> USE DEF Probing, Holds
<1>1. PICK t \in FreshTokens :
         /\ probe' = t
         /\ \/ Enter(c, RedisPermit(Probed, t)) /\ UNCHANGED <<fallback, faults>>
            \/ Fault("reply") /\ AskLocal(c)
  BY DEF AcquireProbe
<1>2. /\ circuit' = Probed /\ pc[c] = "idle"
      /\ circuit'.version = circuit.version + 1
      /\ circuit'.state = "half_open" /\ circuit'.failures = 0 /\ ~circuit'.ready
  BY DEF AcquireProbe, Probed
<1>3. t # NoToken /\ \A d \in Calls : permit[d].token # t
  BY SharedAssumption DEF FreshTokens
<1>4. \A d \in Calls \ {c} :
         \/ permit'[d] = permit[d] /\ (InFlight(d)' <=> InFlight(d))
         \/ Free(d)
  <2>1. CASE Enter(c, RedisPermit(Probed, t))
    BY <2>1 DEF Enter, InFlight, IInv, TypeOK
  <2>2. CASE AskLocal(c)
    BY <2>2, AskLocalFrees DEF KeptOrFree, Kept, IInv
  <2> QED BY <1>1, <2>1, <2>2
<1>5. \/ Free(c)
      \/ /\ permit'[c].store = "redis" /\ permit'[c].state = "half_open" /\ InFlight(c)'
         /\ permit'[c].version = circuit'.version /\ permit'[c].token = t
      \/ permit'[c] = permit[c] /\ (InFlight(c)' <=> InFlight(c))
  <2>1. CASE Enter(c, RedisPermit(Probed, t))
    BY <1>2, <2>1 DEF Enter, InFlight, IInv, TypeOK, RedisPermit
  <2>2. CASE AskLocal(c)
    BY <2>2, AskLocalFrees DEF KeptOrFree, Kept, IInv
  <2> QED BY <1>1, <2>1, <2>2
<1>6. \A d \in Calls : Holds(d)' =>
        \/ Holds(d) /\ permit'[d] = permit[d]
        \/ /\ d = c /\ permit'[d].state = "half_open"
           /\ permit'[d].version = circuit'.version /\ permit'[d].token = t
  BY <1>4, <1>5 DEF Free
<1>7. \A d \in Calls : Holds(d) =>
        permit[d].version < circuit'.version /\ permit[d].token # probe'
  BY <1>1, <1>2, <1>3 DEF IInv, PermitsFit, TypeOK, Permit, Circuit
<1>8. \A d \in Calls : permit'[d].token # NoToken => Probing(d)'
  BY <1>4, <1>5 DEF IInv, PermitsFit, Free
<1>9. PermitsFit'
  <2>1. \A d \in Calls : Holds(d)' =>
          /\ permit'[d].version <= circuit'.version
          /\ permit'[d].state \in {"closed", "half_open"}
          /\ permit'[d].state = "half_open" => permit'[d].token # NoToken
          /\ permit'[d].version = circuit'.version =>
               /\ permit'[d].state = circuit'.state
               /\ Probing(d)' => probe' \in {permit'[d].token, NoToken}
          /\ Probing(d)' /\ permit'[d].token = probe' => permit'[d].version = circuit'.version
    <3> SUFFICES ASSUME NEW d \in Calls, Holds(d)'
                 PROVE  /\ permit'[d].version <= circuit'.version
                        /\ permit'[d].state \in {"closed", "half_open"}
                        /\ permit'[d].state = "half_open" => permit'[d].token # NoToken
                        /\ permit'[d].version = circuit'.version =>
                             /\ permit'[d].state = circuit'.state
                             /\ Probing(d)' => probe' \in {permit'[d].token, NoToken}
                        /\ Probing(d)' /\ permit'[d].token = probe' =>
                             permit'[d].version = circuit'.version
      OBVIOUS
    <3>1. CASE Holds(d) /\ permit'[d] = permit[d]
      BY <1>7, <3>1 DEF IInv, PermitsFit, TypeOK, Permit, Circuit
    <3>2. CASE /\ permit'[d].state = "half_open" /\ permit'[d].version = circuit'.version
               /\ permit'[d].token = t
      BY <1>1, <1>2, <1>3, <3>2 DEF TypeOK, Circuit
    <3> QED BY <1>6, <3>1, <3>2
  <2>2. \A d, e \in Calls :
          Probing(d)' /\ Probing(e)' /\ permit'[d].version = permit'[e].version => d = e
    <3> SUFFICES ASSUME NEW d \in Calls, NEW e \in Calls, Probing(d)', Probing(e)',
                        permit'[d].version = permit'[e].version
                 PROVE  d = e
      OBVIOUS
    <3>1. CASE d = c \/ e = c
      BY <1>6, <1>7, <3>1 DEF IInv, PermitsFit, TypeOK, Permit, Circuit
    <3>2. CASE d # c /\ e # c
      BY <1>6, <3>2 DEF IInv, PermitsFit
    <3> QED BY <3>1, <3>2
  <2> QED BY <1>8, <2>1, <2>2 DEF PermitsFit
<1>10. KeysAgree'
  <2>1. \A d \in Calls : InFlight(d)' /\ permit'[d].token = probe' => Current(permit[d])'
    BY <1>1, <1>2, <1>3, <1>6, <1>7, <1>8 DEF Current
  <2> QED BY <1>2, <2>1, ThresholdAssumption DEF KeysAgree
<1> QED BY <1>2, <1>9, <1>10 DEF IInv

(* A call that leaves gives its permit back.                               *)
LEMMA LeaveFrees ==
  ASSUME TypeOK, NEW c \in Calls, Leave(c)
  PROVE  /\ KeptOrFree /\ Free(c) /\ ~InFlight(c)'
         /\ \A d \in Calls \ {c} : Kept(d)
  BY DEF Leave, KeptOrFree, Kept, Free, InFlight, NoPermit, LocalPermit, TypeOK

(* What the record scripts do to the keys.                                 *)
LEMMA ScriptEffects ==
  ASSUME IInv, NEW p, SuccessScript(p) \/ FailureScript(p)
  PROVE  (SameVersion \/ NextVersion) /\ Sound'
<1> USE ThresholdAssumption DEF IInv, TypeOK, Circuit, KeysAgree, Sound
<1>0. CASE UNCHANGED redis
  BY <1>0 DEF redis, SameVersion
<1>1. CASE SuccessScript(p)
  <2>1. CASE Current(p) /\ p.state = "half_open"
    <3>1. circuit' = [NewCircuit EXCEPT !.version = circuit.version + 1] /\ probe' = NoToken
      BY <1>1, <2>1 DEF SuccessScript
    <3> QED BY <3>1 DEF NewCircuit, NextVersion
  <2>2. CASE Current(p) /\ p.state = "closed"
    <3>1. circuit' = [circuit EXCEPT !.failures = 0] /\ probe' = probe /\ circuit.state = "closed"
      BY <1>1, <2>2 DEF SuccessScript, Current
    <3> QED BY <3>1 DEF SameVersion
  <2> QED BY <1>0, <1>1, <2>1, <2>2 DEF SuccessScript
<1>2. CASE FailureScript(p)
  <2>1. CASE /\ Current(p) /\ p.state = "closed" /\ circuit.failures + 1 < FailureThreshold
             /\ circuit' = [circuit EXCEPT !.failures = circuit.failures + 1]
             /\ UNCHANGED probe
    <3>1. circuit.state = "closed"
      BY <2>1 DEF Current
    <3> QED BY <2>1, <3>1 DEF SameVersion
  <2>2. CASE /\ Current(p)
             /\ circuit' = [state |-> "open", version |-> circuit.version + 1,
                            failures |-> FailureThreshold, ready |-> FALSE]
             /\ probe' = IF p.state = "half_open" THEN NoToken ELSE probe
    <3>1. probe' = NoToken
      BY <2>2 DEF Current
    <3> QED BY <2>2, <3>1 DEF NextVersion
  <2> QED BY <1>0, <1>2, <2>1, <2>2 DEF FailureScript
<1> QED BY <1>1, <1>2

(* Every step keeps the invariant.                                         *)
LEMMA InvariantStep == IInv /\ [Next]_vars => IInv'
<1> SUFFICES ASSUME IInv, [Next]_vars PROVE IInv'
  OBVIOUS
<1>0. TypeOK /\ TypeOK' /\ Sound
  BY TypeStep DEF IInv, KeysAgree, Sound
<1>quiet. ASSUME UNCHANGED redis, KeptOrFree PROVE IInv'
  <2>1. SameVersion /\ Sound'
    BY <1>0, <1>quiet DEF SameVersion, Sound, redis
  <2> QED BY <1>0, <1>quiet, <2>1, NoNewPermit
<1>kept. ASSUME UNCHANGED permit, \A c \in Calls : InFlight(c)' <=> InFlight(c) PROVE KeptOrFree
  BY <1>kept DEF KeptOrFree, Kept
<1>1. ASSUME NEW c \in Calls, AdmitClosed(c) PROVE IInv'
  BY <1>0, <1>1, AdmitClosedStep
<1>2. ASSUME NEW c \in Calls, AcquireProbe(c) PROVE IInv'
  BY <1>0, <1>2, AcquireProbeStep
<1>3. ASSUME NEW c \in Calls, AdmitLocally(c) PROVE IInv'
  BY <1>0, <1>3, <1>quiet, AskLocalFrees DEF AdmitLocally
<1>4. ASSUME NEW c \in Calls, PrimaryReturns(c) \/ PrimaryFails(c) \/ Retry(c) PROVE IInv'
  <2>1. UNCHANGED redis /\ UNCHANGED permit
    BY <1>4 DEF PrimaryReturns, PrimaryFails, Retry
  <2>2. \A d \in Calls : InFlight(d)' <=> InFlight(d)
    BY <1>0, <1>4 DEF PrimaryReturns, PrimaryFails, Retry, InFlight, TypeOK
  <2> QED BY <2>1, <2>2, <1>quiet, <1>kept
<1>5. ASSUME NEW c \in Calls, RecordSuccess(c) \/ RecordFailure(c) PROVE IInv'
  <2>1. KeptOrFree
    BY <1>0, <1>5, LeaveFrees DEF RecordSuccess, RecordFailure
  <2>2. UNCHANGED redis \/ SuccessScript(permit[c]) \/ FailureScript(permit[c])
    BY <1>5 DEF RecordSuccess, RecordFailure
  <2>3. CASE SuccessScript(permit[c]) \/ FailureScript(permit[c])
    BY <1>0, <2>1, <2>3, ScriptEffects, NoNewPermit
  <2> QED BY <2>1, <2>2, <2>3, <1>quiet
<1>6. ASSUME NEW g \in Gateways, Observe(g) \/ ElapseLocally(g) PROVE IInv'
  <2>1. UNCHANGED redis /\ UNCHANGED <<pc, permit>>
    BY <1>6 DEF Observe, ElapseLocally
  <2> QED BY <2>1, <1>quiet, <1>kept DEF InFlight
<1>7. ASSUME NEW g \in Gateways, Crash(g) PROVE IInv'
  <2>1. KeptOrFree
    BY <1>7 DEF Crash, KeptOrFree, Kept, Free, InFlight, NoPermit, LocalPermit
  <2> QED BY <1>7, <2>1, <1>quiet DEF Crash
<1>8. CASE Elapse
  <2>1. SameVersion /\ Sound' /\ UNCHANGED <<pc, permit>>
    BY <1>0, <1>8 DEF Elapse, SameVersion, Sound, TypeOK, Circuit
  <2> QED BY <1>0, <2>1, <1>kept, NoNewPermit DEF InFlight
<1>9. CASE LeaseExpires
  <2>1. SameVersion /\ Sound' /\ UNCHANGED <<pc, permit>>
    BY <1>0, <1>9 DEF LeaseExpires, SameVersion, Sound
  <2> QED BY <1>0, <2>1, <1>kept, NoNewPermit DEF InFlight
<1>10. CASE UNCHANGED vars
  BY <1>10, <1>quiet, <1>kept DEF vars, InFlight
<1> QED
  BY <1>1, <1>2, <1>3, <1>4, <1>5, <1>6, <1>7, <1>8, <1>9, <1>10 DEF Next, Work

(* It holds at the start.                                                  *)
LEMMA InvariantInit == Init => IInv
<1> SUFFICES ASSUME Init PROVE IInv
  OBVIOUS
<1>1. TypeOK
  BY SharedAssumption, ThresholdAssumption, NewBreakerType, LocalPermitType
  DEF Init, TypeOK, NewCircuit, Circuit, CircuitStates, NoPermit
<1>2. KeysAgree /\ ~circuit.ready
  BY ThresholdAssumption DEF Init, KeysAgree, NewCircuit
<1>3. PermitsFit
  BY DEF Init, PermitsFit, Holds, Probing, InFlight, NoPermit, LocalPermit
<1> QED BY <1>1, <1>2, <1>3 DEF IInv

(* So it holds always, for any gateways, threads, leases and faults.       *)
THEOREM SharedInvariant == Spec => []IInv
  BY InvariantInit, InvariantStep, PTL DEF Spec

-----------------------------------------------------------------------------
(* The variables keep their types.                                         *)
THEOREM SharedTypes == Spec => []TypeOK
<1>1. IInv => TypeOK
  BY DEF IInv
<1> QED BY <1>1, SharedInvariant, PTL

(* The circuit's hash and the probe's key fit together in every state.     *)
THEOREM TwoKeysAgree == Spec => []KeysAgree
<1>1. IInv => KeysAgree
  BY DEF IInv
<1> QED BY <1>1, SharedInvariant, PTL

-----------------------------------------------------------------------------
(* The lease.  It must outlast all attempts of a call.                     *)

(* Then the call that is the probe keeps its key until it leaves.          *)
LEMMA OwnerStep ==
  ASSUME RetryAttempts < LeaseAttempts
  PROVE  IInv /\ ProbeIsOwner /\ [Next]_vars => ProbeIsOwner'
<1> SUFFICES ASSUME IInv, ProbeIsOwner, [Next]_vars PROVE ProbeIsOwner'
  OBVIOUS
<1> USE DEF ProbeIsOwner, Probing
<1>0. TypeOK /\ TypeOK' /\ PermitsFit
  BY TypeStep DEF IInv
<1>same. ASSUME UNCHANGED probe, KeptOrFree PROVE ProbeIsOwner'
  BY <1>same DEF KeptOrFree, Kept, Free
<1>kept. ASSUME UNCHANGED permit, \A c \in Calls : InFlight(c)' <=> InFlight(c) PROVE KeptOrFree
  BY <1>kept DEF KeptOrFree, Kept
<1>1. ASSUME NEW c \in Calls, AdmitClosed(c) PROVE ProbeIsOwner'
  <2>1. /\ UNCHANGED probe /\ permit'[c].state = "closed"
        /\ \A d \in Calls \ {c} : permit'[d] = permit[d] /\ pc'[d] = pc[d]
    BY <1>0, <1>1 DEF AdmitClosed, Enter, RedisPermit, TypeOK, redis
  <2> QED BY <2>1 DEF InFlight
<1>2. ASSUME NEW c \in Calls, AcquireProbe(c) PROVE ProbeIsOwner'
  <2>1. \A d \in Calls : ~Probing(d)
    BY <1>0, <1>2 DEF AcquireProbe, ProbeFree, PermitsFit, Holds
  <2>2. PICK t \in FreshTokens :
           /\ probe' = t
           /\ \/ Enter(c, RedisPermit(Probed, t)) /\ UNCHANGED <<fallback, faults>>
              \/ Fault("reply") /\ AskLocal(c)
    BY <1>2 DEF AcquireProbe
  <2>3. CASE Enter(c, RedisPermit(Probed, t))
    <3>1. /\ permit'[c].token = probe'
          /\ \A d \in Calls \ {c} : permit'[d] = permit[d] /\ pc'[d] = pc[d]
      BY <1>0, <2>2, <2>3 DEF Enter, RedisPermit, TypeOK
    <3> QED BY <2>1, <3>1 DEF InFlight
  <2>4. CASE AskLocal(c)
    BY <1>0, <2>1, <2>4, AskLocalFrees DEF KeptOrFree, Kept, Free
  <2> QED BY <2>2, <2>3, <2>4
<1>3. ASSUME NEW c \in Calls, AdmitLocally(c) PROVE ProbeIsOwner'
  BY <1>0, <1>3, <1>same, AskLocalFrees DEF AdmitLocally, redis
<1>4. ASSUME NEW c \in Calls, PrimaryReturns(c) \/ PrimaryFails(c) \/ Retry(c) PROVE ProbeIsOwner'
  <2>1. UNCHANGED <<probe, permit>>
    BY <1>4 DEF PrimaryReturns, PrimaryFails, Retry, redis
  <2>2. \A d \in Calls : InFlight(d)' <=> InFlight(d)
    BY <1>0, <1>4 DEF PrimaryReturns, PrimaryFails, Retry, InFlight, TypeOK
  <2> QED BY <2>1, <2>2, <1>same, <1>kept
<1>5. ASSUME NEW c \in Calls, RecordSuccess(c) \/ RecordFailure(c) PROVE ProbeIsOwner'
  <2>1. /\ KeptOrFree /\ Free(c) /\ ~InFlight(c)'
        /\ \A d \in Calls \ {c} : Kept(d)
    BY <1>0, <1>5, LeaveFrees DEF RecordSuccess, RecordFailure
  <2>2. CASE UNCHANGED probe
    BY <2>1, <2>2, <1>same
  <2>3. CASE probe' # probe
    <3>1. \/ permit[c].store = "redis" /\ SuccessScript(permit[c])
          \/ permit[c].store = "redis" /\ FailureScript(permit[c])
      BY <1>5, <2>3 DEF RecordSuccess, RecordFailure, redis
    <3>2. permit[c].state = "half_open" /\ permit[c].token = probe
      BY <2>3, <3>1 DEF SuccessScript, FailureScript, Current, redis
    <3>3. Probing(c)
      BY <1>5, <3>1, <3>2 DEF RecordSuccess, RecordFailure, InFlight
    <3>4. \A d \in Calls : Probing(d) => d = c
      BY <1>0, <3>2, <3>3 DEF PermitsFit, Holds
    <3> QED BY <2>1, <3>4 DEF Kept
  <2> QED BY <2>2, <2>3
<1>6. ASSUME NEW g \in Gateways, Observe(g) \/ ElapseLocally(g) PROVE ProbeIsOwner'
  <2>1. UNCHANGED <<probe, pc, permit>>
    BY <1>6 DEF Observe, ElapseLocally, redis
  <2> QED BY <2>1, <1>same, <1>kept DEF InFlight
<1>7. ASSUME NEW g \in Gateways, Crash(g) PROVE ProbeIsOwner'
  <2>1. KeptOrFree
    BY <1>7 DEF Crash, KeptOrFree, Kept, Free, InFlight, NoPermit, LocalPermit
  <2> QED BY <1>7, <2>1, <1>same DEF Crash, redis
<1>8. CASE Elapse
  BY <1>8, <1>same, <1>kept DEF Elapse, InFlight
<1>9. CASE LeaseExpires
  <2>1. \A c \in Calls : attempts[c] <= LeaseAttempts
    BY <1>0, SharedAssumption DEF TypeOK
  <2>2. \A c \in Calls : ~Probing(c)
    BY <1>9, <2>1, SharedAssumption, <1>0 DEF LeaseExpires, TypeOK
  <2> QED BY <1>9, <2>2 DEF LeaseExpires, InFlight
<1>10. CASE UNCHANGED vars
  BY <1>10, <1>same, <1>kept DEF vars, redis, InFlight
<1> QED
  BY <1>1, <1>2, <1>3, <1>4, <1>5, <1>6, <1>7, <1>8, <1>9, <1>10 DEF Next, Work

(* With a lease that outlasts all attempts of a call to the primary, Redis *)
(* never has two probes in flight, whatever fails.                         *)
THEOREM OneProbe ==
  ASSUME RetryAttempts < LeaseAttempts
  PROVE  Spec => []OneProbeAtATime
<1>1. Init => ProbeIsOwner
  BY DEF Init, ProbeIsOwner, Probing, InFlight
<1>2. IInv /\ ProbeIsOwner => OneProbeAtATime
  BY DEF IInv, PermitsFit, Holds, Probing, ProbeIsOwner, OneProbeAtATime
<1> QED BY <1>1, <1>2, OwnerStep, SharedInvariant, PTL DEF Spec

-----------------------------------------------------------------------------
(* The refinement.                                                         *)

(* A step without a new permit takes entitlements away.                    *)
LEMMA EntitledShrinks ==
  ASSUME IInv, KeptOrFree
  PROVE  /\ SameVersion => Entitled' \subseteq Entitled
         /\ NextVersion => Entitled' = {}
<1>1. \A c \in Calls : Holds(c)' => Holds(c) /\ permit'[c] = permit[c]
  BY DEF KeptOrFree, Kept, Free, Holds
<1>2. ASSUME SameVersion PROVE Entitled' \subseteq Entitled
  <2> SUFFICES ASSUME NEW c \in Calls, Holds(c)', Current(permit[c])'
               PROVE  Holds(c) /\ Current(permit[c])
    BY DEF Entitled, Holds
  <2>1. permit[c].state = "half_open" => permit[c].token # NoToken
    BY <1>1 DEF IInv, PermitsFit
  <2> QED BY <1>1, <1>2, <2>1 DEF Current, SameVersion
<1>3. ASSUME NextVersion PROVE Entitled' = {}
  <2>1. \A c \in Calls : Holds(c) => permit[c].version < circuit'.version
    BY <1>3 DEF NextVersion, IInv, PermitsFit, TypeOK, Permit, Circuit
  <2>2. \A c \in Calls : Holds(c) => permit[c].version # circuit'.version
    BY <2>1 DEF IInv, TypeOK, Permit
  <2> QED BY <1>1, <2>2 DEF Entitled, Holds, Current
<1> QED BY <1>2, <1>3

(* When only the call that leaves loses its permit, only it loses its      *)
(* entitlement.                                                            *)
LEMMA EntitledWithout ==
  ASSUME TypeOK, NEW c \in Calls, Leave(c),
         circuit'.version = circuit.version, circuit'.state = circuit.state, UNCHANGED probe
  PROVE  Entitled' = Entitled \ {c}
<1>1. ~InFlight(c)' /\ \A d \in Calls \ {c} : Kept(d)
  BY LeaveFrees
<1> QED BY <1>1 DEF Entitled, Kept, Current

(* At most one call is entitled when the circuit is half open.             *)
LEMMA EntitledProbe ==
  ASSUME IInv, circuit.state = "half_open", NEW c \in Entitled, NEW d \in Entitled
  PROVE  c = d
<1>1. Probing(c) /\ Probing(d) /\ permit[c].version = permit[d].version
  BY DEF Entitled, Current, Probing
<1> QED BY <1>1 DEF IInv, PermitsFit, Entitled

(* Taking entitlements away is a step of the fenced breaker.               *)
LEMMA WithdrawRefines ==
  ASSUME Entitled' \subseteq Entitled, circuit'.state = circuit.state,
         circuit'.failures = circuit.failures, circuit'.ready = circuit.ready
  PROVE  Fenced!Next
  BY DEF Fenced!Next, Fenced!Withdraw

(* A result that comes in is a step of the fenced breaker.                 *)
LEMMA RecordRefines ==
  ASSUME IInv, NEW c \in Calls, RecordSuccess(c) \/ RecordFailure(c)
  PROVE  Fenced!Next
<1>0. TypeOK /\ KeysAgree /\ Leave(c) /\ KeptOrFree
  BY LeaveFrees DEF IInv, RecordSuccess, RecordFailure
<1>1. CASE UNCHANGED redis
  <2>1. Entitled' = Entitled \ {c}
    BY <1>0, <1>1, EntitledWithout DEF redis
  <2> QED BY <1>1, <2>1, WithdrawRefines DEF redis
<1>2. ASSUME Current(permit[c]), permit[c].store = "redis", SuccessScript(permit[c])
      PROVE  Fenced!Succeed(c)
  <2>1. c \in Entitled
    BY <1>2 DEF Entitled, InFlight, RecordSuccess, RecordFailure
  <2>2. CASE permit[c].state = "half_open"
    <3>1. circuit' = [NewCircuit EXCEPT !.version = circuit.version + 1] /\ probe' = NoToken
      BY <1>2, <2>2 DEF SuccessScript
    <3>2. Entitled' = {}
      BY <1>0, <3>1, EntitledShrinks DEF NextVersion, NewCircuit
    <3>3. Entitled \ {c} = {}
      BY <1>2, <2>1, <2>2, EntitledProbe DEF Current
    <3>4. ~circuit.ready /\ circuit.ready \in BOOLEAN
      BY <1>2, <2>2 DEF IInv, Current, TypeOK, Circuit
    <3> QED BY <2>1, <3>1, <3>2, <3>3, <3>4 DEF Fenced!Succeed, NewCircuit
  <2>3. CASE permit[c].state = "closed"
    <3>1. circuit' = [circuit EXCEPT !.failures = 0] /\ UNCHANGED probe /\ circuit.state = "closed"
      BY <1>2, <2>3 DEF SuccessScript, Current
    <3>2. /\ circuit'.version = circuit.version /\ circuit'.state = circuit.state
          /\ circuit'.failures = 0 /\ circuit'.ready = circuit.ready
      BY <1>0, <3>1 DEF TypeOK, Circuit
    <3>3. Entitled' = Entitled \ {c}
      BY <1>0, <3>1, <3>2, EntitledWithout
    <3> QED BY <2>1, <3>1, <3>2, <3>3 DEF Fenced!Succeed
  <2> QED BY <1>2, <2>2, <2>3 DEF SuccessScript
<1>3. ASSUME Current(permit[c]), permit[c].store = "redis", FailureScript(permit[c])
      PROVE  Fenced!Fail(c) \/ Fenced!Trip(c)
  <2>1. c \in Entitled
    BY <1>3 DEF Entitled, InFlight, RecordSuccess, RecordFailure
  <2>2. CASE /\ permit[c].state = "closed" /\ circuit.failures + 1 < FailureThreshold
             /\ circuit' = [circuit EXCEPT !.failures = circuit.failures + 1]
             /\ UNCHANGED probe
    <3>1. circuit.state = "closed"
      BY <1>3, <2>2 DEF Current
    <3>2. /\ circuit'.version = circuit.version /\ circuit'.state = circuit.state
          /\ circuit'.failures = circuit.failures + 1 /\ circuit'.ready = circuit.ready
      BY <1>0, <2>2 DEF TypeOK, Circuit
    <3>3. Entitled' = Entitled \ {c}
      BY <1>0, <2>2, <3>2, EntitledWithout
    <3> QED BY <2>1, <2>2, <3>1, <3>2, <3>3 DEF Fenced!Fail
  <2>3. CASE /\ permit[c].state = "half_open" \/ circuit.failures + 1 >= FailureThreshold
             /\ circuit' = [state |-> "open", version |-> circuit.version + 1,
                            failures |-> FailureThreshold, ready |-> FALSE]
             /\ probe' = IF permit[c].state = "half_open" THEN NoToken ELSE probe
    <3>1. probe' = NoToken /\ circuit.state = permit[c].state
      BY <1>0, <1>3, <2>3 DEF Current, KeysAgree
    <3>2. Entitled' = {}
      BY <1>0, <2>3, <3>1, EntitledShrinks DEF NextVersion
    <3>3. permit[c].state \in {"closed", "half_open"}
      BY <1>3, <2>1 DEF IInv, PermitsFit, Holds, Entitled
    <3>4. circuit.state = "half_open" \/ circuit.failures + 1 = FailureThreshold
      <4>1. circuit.failures \in 0 .. FailureThreshold
        BY <1>0 DEF TypeOK, Circuit
      <4>2. CASE permit[c].state = "closed"
        <5>1. circuit.failures # FailureThreshold
          BY <1>0, <3>1, <4>2 DEF KeysAgree
        <5> QED BY <2>3, <4>1, <4>2, <5>1, ThresholdAssumption
      <4> QED BY <3>1, <3>3, <4>2
    <3>5. ~circuit.ready /\ circuit.ready \in BOOLEAN
      BY <3>1, <3>3 DEF IInv, TypeOK, Circuit
    <3> QED BY <2>1, <2>3, <3>2, <3>4, <3>5 DEF Fenced!Trip
  <2> QED BY <1>3, <2>2, <2>3 DEF FailureScript
<1>4. \/ UNCHANGED redis
      \/ /\ Current(permit[c]) /\ permit[c].store = "redis"
         /\ SuccessScript(permit[c]) \/ FailureScript(permit[c])
  BY DEF RecordSuccess, RecordFailure, SuccessScript, FailureScript
<1> QED BY <1>1, <1>2, <1>3, <1>4 DEF Fenced!Next

(* Every step is a step of the fenced breaker, or none.                    *)
LEMMA StepRefines == IInv /\ [Next]_vars => [Fenced!Next]_(Fenced!vars)
<1> SUFFICES ASSUME IInv, [Next]_vars PROVE [Fenced!Next]_(Fenced!vars)
  OBVIOUS
<1>0. TypeOK /\ PermitsFit
  BY DEF IInv
<1>quiet. ASSUME UNCHANGED redis, KeptOrFree PROVE Fenced!Next
  <2>1. Entitled' \subseteq Entitled
    BY <1>quiet, EntitledShrinks DEF SameVersion, redis
  <2> QED BY <1>quiet, <2>1, WithdrawRefines DEF redis
<1>kept. ASSUME UNCHANGED permit, \A c \in Calls : InFlight(c)' <=> InFlight(c) PROVE KeptOrFree
  BY <1>kept DEF KeptOrFree, Kept
<1>1. ASSUME NEW c \in Calls, AdmitClosed(c) PROVE Fenced!Next
  <2>1. /\ circuit.state = "closed" /\ UNCHANGED redis
        /\ permit'[c] = RedisPermit(circuit, NoToken) /\ pc'[c] = "primary"
        /\ \A d \in Calls \ {c} : permit'[d] = permit[d] /\ pc'[d] = pc[d]
    BY <1>0, <1>1 DEF AdmitClosed, Enter, TypeOK
  <2>2. Entitled' = Entitled \cup {c}
    BY <2>1 DEF Entitled, InFlight, Current, RedisPermit, redis
  <2>3. Fenced!Admit(c)
    BY <2>1, <2>2 DEF Fenced!Admit, redis
  <2> QED BY <2>3 DEF Fenced!Next
<1>2. ASSUME NEW c \in Calls, AcquireProbe(c) PROVE Fenced!Next
  <2>1. PICK t \in FreshTokens :
           /\ probe' = t
           /\ \/ Enter(c, RedisPermit(Probed, t)) /\ UNCHANGED <<fallback, faults>>
              \/ Fault("reply") /\ AskLocal(c)
    BY <1>2 DEF AcquireProbe
  <2>2. /\ circuit' = Probed /\ ProbeFree
        /\ circuit'.version = circuit.version + 1
        /\ circuit'.state = "half_open" /\ circuit'.failures = 0 /\ circuit'.ready = FALSE
    BY <1>2 DEF AcquireProbe, Probed
  <2>3. Entitled = {}
    BY <1>0, <2>2 DEF Entitled, Current, ProbeFree, PermitsFit, Holds
  <2>4. \A d \in Calls : Holds(d) => permit[d].version # circuit'.version
    <3>1. \A d \in Calls : Holds(d) => permit[d].version <= circuit.version
      BY <1>0 DEF PermitsFit
    <3> QED BY <1>0, <2>2, <3>1 DEF TypeOK, Permit, Circuit
  <2>5. Entitled' \in {{c}, {}}
    <3>1. CASE Enter(c, RedisPermit(Probed, t))
      <4>1. \A d \in Calls \ {c} : permit'[d] = permit[d] /\ pc'[d] = pc[d]
        BY <1>0, <3>1 DEF Enter, TypeOK
      <4>2. Entitled' \subseteq {c}
        BY <2>4, <4>1 DEF Entitled, Current, Holds, InFlight
      <4> QED BY <4>2
    <3>2. CASE AskLocal(c)
      <4>1. \A d \in Calls : Holds(d)' => Holds(d) /\ permit'[d] = permit[d]
        BY <1>0, <3>2, AskLocalFrees DEF KeptOrFree, Kept, Free, Holds
      <4>2. Entitled' = {}
        BY <2>4, <4>1 DEF Entitled, Current, Holds
      <4> QED BY <4>2
    <3> QED BY <2>1, <3>1, <3>2
  <2>6. Fenced!Probe(c)
    BY <2>2, <2>3, <2>5 DEF Fenced!Probe, ProbeFree
  <2> QED BY <2>6 DEF Fenced!Next
<1>3. ASSUME NEW c \in Calls, AdmitLocally(c) PROVE Fenced!Next
  BY <1>0, <1>3, <1>quiet, AskLocalFrees DEF AdmitLocally
<1>4. ASSUME NEW c \in Calls, PrimaryReturns(c) \/ PrimaryFails(c) \/ Retry(c) PROVE Fenced!Next
  <2>1. UNCHANGED redis /\ UNCHANGED permit
    BY <1>4 DEF PrimaryReturns, PrimaryFails, Retry
  <2>2. \A d \in Calls : InFlight(d)' <=> InFlight(d)
    BY <1>0, <1>4 DEF PrimaryReturns, PrimaryFails, Retry, InFlight, TypeOK
  <2> QED BY <2>1, <2>2, <1>quiet, <1>kept
<1>5. ASSUME NEW c \in Calls, RecordSuccess(c) \/ RecordFailure(c) PROVE Fenced!Next
  BY <1>5, RecordRefines
<1>6. ASSUME NEW g \in Gateways, Observe(g) \/ ElapseLocally(g) PROVE Fenced!Next
  <2>1. UNCHANGED redis /\ UNCHANGED <<pc, permit>>
    BY <1>6 DEF Observe, ElapseLocally
  <2> QED BY <2>1, <1>quiet, <1>kept DEF InFlight
<1>7. ASSUME NEW g \in Gateways, Crash(g) PROVE Fenced!Next
  <2>1. KeptOrFree
    BY <1>7 DEF Crash, KeptOrFree, Kept, Free, InFlight, NoPermit, LocalPermit
  <2> QED BY <1>7, <2>1, <1>quiet DEF Crash
<1>8. CASE Elapse
  <2>1. /\ circuit.state = "open" /\ circuit'.state = circuit.state
        /\ circuit'.version = circuit.version
        /\ circuit'.failures = circuit.failures /\ circuit'.ready = TRUE
        /\ UNCHANGED <<probe, pc, permit>>
    BY <1>0, <1>8 DEF Elapse, TypeOK, Circuit
  <2>2. Entitled' = Entitled
    BY <2>1 DEF Entitled, InFlight, Current
  <2>3. Fenced!Ripen
    BY <2>1, <2>2 DEF Fenced!Ripen
  <2> QED BY <2>3 DEF Fenced!Next
<1>9. CASE LeaseExpires
  <2>1. SameVersion /\ UNCHANGED circuit /\ KeptOrFree
    BY <1>9, <1>kept DEF LeaseExpires, SameVersion, InFlight
  <2> QED BY <2>1, EntitledShrinks, WithdrawRefines
<1>10. CASE UNCHANGED vars
  BY <1>10, <1>quiet, <1>kept DEF vars, InFlight
<1> QED
  BY <1>1, <1>2, <1>3, <1>4, <1>5, <1>6, <1>7, <1>8, <1>9, <1>10 DEF Next, Work

(* The shared breaker implements the fenced one: late results change       *)
(* nothing, for any number of gateways, threads and cycles, and whatever   *)
(* becomes of Redis's replies, the gateways and the lease.                 *)
THEOREM IsFenced == Spec => ImplementsFenced
<1>1. Init => Fenced!Init
  BY DEF Init, NewCircuit, Fenced!Init, Entitled, InFlight
<1>2. IInv /\ [Next]_vars => [Fenced!Next]_(Fenced!vars)
  BY StepRefines
<1> QED BY <1>1, <1>2, SharedInvariant, PTL DEF Spec, ImplementsFenced, Fenced!Spec

=============================================================================
