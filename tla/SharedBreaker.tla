--------------------------- MODULE SharedBreaker ---------------------------
(***************************************************************************)
(* The circuit breaker that gateways share through Redis, with a local     *)
(* breaker per gateway for the time Redis cannot be reached                *)
(* (app/redis_circuit_breaker.py), under the calls that execute() makes of *)
(* it (app/resilience.py).                                                 *)
(*                                                                         *)
(* Each Lua script is atomic.  Between a call's allow_primary_call and its *)
(* record_success or record_failure other calls run, Redis may go away and *)
(* come back, and the probe's lease may end.                               *)
(*                                                                         *)
(* Time appears as "the circuit has been open for the recovery timeout"    *)
(* (ready) and as the end of the probe's lease, which is longer than       *)
(* LeaseAttempts calls to the primary, and no more.                        *)
(***************************************************************************)
EXTENDS CircuitBreaker, FiniteSets

CONSTANTS
  Gateways,       \* gateway processes
  Calls,          \* request threads of all gateways
  GatewayOf,      \* the gateway a thread belongs to
  RetryAttempts,  \* RESILIENCE_RETRY_ATTEMPTS
  LeaseAttempts,  \* calls to the primary that fit in the probe's lease
  Tokens,         \* probe tokens (uuid4 values)
  NoToken,        \* no probe token
  FaultKinds,     \* the faults a run allows
  MaxFaults,      \* bound: number of faults
  MaxVersion      \* bound: the primary fails no more once the version is here

ASSUME SharedAssumption ==
  /\ GatewayOf \in [Calls -> Gateways]
  /\ RetryAttempts \in Nat
  /\ LeaseAttempts \in Nat
  /\ NoToken \notin Tokens
  /\ FaultKinds \subseteq {"down", "reply", "crash"}
  /\ MaxFaults \in Nat
  /\ MaxVersion \in Nat

VARIABLES
  circuit,   \* Redis: the hash {prefix}:circuit
  probe,     \* Redis: the token under {prefix}:probe, or NoToken
  fallback,  \* each gateway's fallback_breaker
  pc,        \* where each call is
  attempts,  \* its calls to the primary
  permit,    \* its CircuitPermit
  faults     \* faults so far

redis == <<circuit, probe>>
vars  == <<redis, fallback, pc, attempts, permit, faults>>

Circuit == [state : CircuitStates, version : Nat,
            failures : 0 .. FailureThreshold, ready : BOOLEAN]

(* A missing hash: every HGET has a default.                               *)
NewCircuit == [state |-> "closed", version |-> 0, failures |-> 0, ready |-> FALSE]

Permit == [store : {"redis", "local"}, state : CircuitStates, version : Nat,
           token : Tokens \cup {NoToken}]

LocalPermit(b) ==
  [store |-> "local", state |-> b.state, version |-> 0, token |-> NoToken]

RedisPermit(c, t) ==
  [store |-> "redis", state |-> c.state, version |-> c.version, token |-> t]

NoPermit == LocalPermit(NewBreaker)

InFlight(c) == pc[c] # "idle"

TypeOK ==
  /\ circuit \in Circuit
  /\ probe \in Tokens \cup {NoToken}
  /\ fallback \in [Gateways -> Breaker]
  /\ pc \in [Calls -> {"idle", "primary", "success", "failure"}]
  /\ attempts \in [Calls -> 0 .. RetryAttempts + 1]
  /\ permit \in [Calls -> Permit]
  /\ faults \in 0 .. MaxFaults

Init ==
  /\ circuit = NewCircuit
  /\ probe = NoToken
  /\ fallback = [g \in Gateways |-> NewBreaker]
  /\ pc = [c \in Calls |-> "idle"]
  /\ attempts = [c \in Calls |-> 0]
  /\ permit = [c \in Calls |-> NoPermit]
  /\ faults = 0

Fault(kind) ==
  /\ kind \in FaultKinds
  /\ faults < MaxFaults
  /\ faults' = faults + 1

FreshTokens == Tokens \ ({probe} \cup {permit[c].token : c \in Calls})

-----------------------------------------------------------------------------
(* The scripts.                                                            *)

(* Mutant: any script call in HALF_OPEN may take the probe.                *)
ProbeFreeAnyway == circuit.state = "half_open" \/ (circuit.state = "open" /\ circuit.ready)

(* _ALLOW_PRIMARY_LUA gets as far as SET NX, and the key is free.          *)
ProbeFree ==
  /\ circuit.state = "half_open" \/ (circuit.state = "open" /\ circuit.ready)
  /\ probe = NoToken

Probed == [state |-> "half_open", version |-> circuit.version + 1,
           failures |-> 0, ready |-> FALSE]

(* Mutant: the version is not compared.                                    *)
CurrentState(p) ==
  /\ circuit.state = p.state
  /\ p.state = "half_open" => probe = p.token

(* What the record scripts compare; a permit that fails is stale.          *)
Current(p) ==
  /\ circuit.state = p.state
  /\ circuit.version = p.version
  /\ p.state = "half_open" => probe = p.token

(* _RECORD_SUCCESS_LUA.                                                    *)
SuccessScript(p) ==
  \/ ~Current(p) /\ UNCHANGED redis
  \/ /\ Current(p)
     /\ p.state = "half_open"
     /\ circuit' = [NewCircuit EXCEPT !.version = circuit.version + 1]
     /\ probe' = NoToken
  \/ /\ Current(p)
     /\ p.state = "closed"
     /\ circuit' = [circuit EXCEPT !.failures = 0]
     /\ UNCHANGED probe

(* Mutant: the circuit opens one failure late.                             *)
TrippedLate(p) ==
  \/ ~Current(p) /\ UNCHANGED redis
  \/ /\ Current(p)
     /\ p.state = "closed" /\ circuit.failures < FailureThreshold
     /\ circuit' = [circuit EXCEPT !.failures = circuit.failures + 1]
     /\ UNCHANGED probe
  \/ /\ Current(p)
     /\ p.state = "half_open" \/ circuit.failures = FailureThreshold
     /\ circuit' = [state |-> "open", version |-> circuit.version + 1,
                    failures |-> FailureThreshold, ready |-> FALSE]
     /\ probe' = NoToken

(* _RECORD_FAILURE_LUA.                                                    *)
FailureScript(p) ==
  \/ ~Current(p) /\ UNCHANGED redis
  \/ /\ Current(p)
     /\ p.state = "closed" /\ circuit.failures + 1 < FailureThreshold
     /\ circuit' = [circuit EXCEPT !.failures = circuit.failures + 1]
     /\ UNCHANGED probe
  \/ /\ Current(p)
     /\ p.state = "half_open" \/ circuit.failures + 1 >= FailureThreshold
     /\ circuit' = [state |-> "open", version |-> circuit.version + 1,
                    failures |-> FailureThreshold, ready |-> FALSE]
     /\ probe' = IF p.state = "half_open" THEN NoToken ELSE probe

-----------------------------------------------------------------------------
(* allow_primary_call.  A blocked call changes nothing and has no action.  *)

Enter(c, p) ==
  /\ pc' = [pc EXCEPT ![c] = "primary"]
  /\ attempts' = [attempts EXCEPT ![c] = 1]
  /\ permit' = [permit EXCEPT ![c] = p]

(* Without an answer from Redis the local breaker decides.                 *)
AskLocal(c) ==
  LET g == GatewayOf[c] IN
  \/ /\ Blocks(fallback[g])
     /\ fallback' = [fallback EXCEPT ![g] = Advanced(@)]
     /\ UNCHANGED <<pc, attempts, permit>>
  \/ /\ ~Blocks(fallback[g])
     /\ fallback' = [fallback EXCEPT ![g] = Admitted(@)]
     /\ Enter(c, LocalPermit(Admitted(fallback[g])))

AdmitClosed(c) ==
  /\ pc[c] = "idle"
  /\ circuit.state = "closed"
  /\ Enter(c, RedisPermit(circuit, NoToken))
  /\ UNCHANGED <<redis, fallback, faults>>

(* The call becomes the probe, or the reply that says so is lost and the   *)
(* token belongs to nobody.                                                *)
AcquireProbe(c) ==
  /\ pc[c] = "idle"
  /\ ProbeFree
  /\ circuit' = Probed
  /\ \E t \in FreshTokens :
       /\ probe' = t
       /\ \/ Enter(c, RedisPermit(Probed, t)) /\ UNCHANGED <<fallback, faults>>
          \/ Fault("reply") /\ AskLocal(c)

(* The script fails, or the reply of one that changed nothing is lost.     *)
AdmitLocally(c) ==
  /\ pc[c] = "idle"
  /\ Fault("down")
  /\ AskLocal(c)
  /\ UNCHANGED redis

-----------------------------------------------------------------------------
(* The loop of execute().                                                  *)

PrimaryReturns(c) ==
  /\ pc[c] = "primary"
  /\ pc' = [pc EXCEPT ![c] = "success"]
  /\ UNCHANGED <<redis, fallback, attempts, permit, faults>>

PrimaryFails(c) ==
  /\ pc[c] = "primary"
  /\ circuit.version < MaxVersion
  /\ pc' = [pc EXCEPT ![c] = "failure"]
  /\ UNCHANGED <<redis, fallback, attempts, permit, faults>>

(* A retry-safe failure with an attempt left.                              *)
Retry(c) ==
  /\ pc[c] = "primary"
  /\ attempts[c] <= RetryAttempts
  /\ circuit.version < MaxVersion
  /\ attempts' = [attempts EXCEPT ![c] = @ + 1]
  /\ UNCHANGED <<redis, fallback, pc, permit, faults>>

-----------------------------------------------------------------------------
(* record_success and record_failure.                                      *)

Leave(c) ==
  /\ pc' = [pc EXCEPT ![c] = "idle"]
  /\ attempts' = [attempts EXCEPT ![c] = 0]
  /\ permit' = [permit EXCEPT ![c] = NoPermit]

Tell(c, b) == fallback' = [fallback EXCEPT ![GatewayOf[c]] = b]

(* Mutant: the store of the permit is not looked at.                       *)
RecordSuccessInRedis(c) ==
  /\ pc[c] = "success"
  /\ Leave(c)
  /\ SuccessScript(permit[c])
  /\ UNCHANGED <<fallback, faults>>

(* A permit of the local breaker goes back to it; one of Redis goes to     *)
(* Redis, and to the local breaker when Redis does not answer, whether or  *)
(* not the script ran.                                                     *)
RecordSuccess(c) ==
  /\ pc[c] = "success"
  /\ Leave(c)
  /\ \/ /\ permit[c].store = "local"
        /\ Tell(c, AfterSuccess(fallback[GatewayOf[c]]))
        /\ UNCHANGED <<redis, faults>>
     \/ /\ permit[c].store = "redis"
        /\ SuccessScript(permit[c])
        /\ UNCHANGED <<fallback, faults>>
     \/ /\ permit[c].store = "redis"
        /\ \/ Fault("reply") /\ SuccessScript(permit[c])
           \/ Fault("down") /\ UNCHANGED redis
        /\ Tell(c, AfterSuccess(fallback[GatewayOf[c]]))

RecordFailure(c) ==
  /\ pc[c] = "failure"
  /\ Leave(c)
  /\ \/ /\ permit[c].store = "local"
        /\ Tell(c, AfterFailure(fallback[GatewayOf[c]]))
        /\ UNCHANGED <<redis, faults>>
     \/ /\ permit[c].store = "redis"
        /\ FailureScript(permit[c])
        /\ UNCHANGED <<fallback, faults>>
     \/ /\ permit[c].store = "redis"
        /\ \/ Fault("reply") /\ FailureScript(permit[c])
           \/ Fault("down") /\ UNCHANGED redis
        /\ Tell(c, AfterFailure(fallback[GatewayOf[c]]))

-----------------------------------------------------------------------------
(* The environment.                                                        *)

(* A gateway reads the state for its metrics while Redis does not answer.  *)
Observe(g) ==
  /\ Fault("down")
  /\ fallback' = [fallback EXCEPT ![g] = Advanced(@)]
  /\ UNCHANGED <<redis, pc, attempts, permit>>

(* A gateway dies and is started again, without its calls.                 *)
Crash(g) ==
  /\ Fault("crash")
  /\ fallback' = [fallback EXCEPT ![g] = NewBreaker]
  /\ pc' = [c \in Calls |-> IF GatewayOf[c] = g THEN "idle" ELSE pc[c]]
  /\ attempts' = [c \in Calls |-> IF GatewayOf[c] = g THEN 0 ELSE attempts[c]]
  /\ permit' = [c \in Calls |-> IF GatewayOf[c] = g THEN NoPermit ELSE permit[c]]
  /\ UNCHANGED redis

(* recovery_timeout_seconds have passed since the circuit was opened.      *)
Elapse ==
  /\ circuit.state = "open" /\ ~circuit.ready
  /\ circuit' = [circuit EXCEPT !.ready = TRUE]
  /\ UNCHANGED <<probe, fallback, pc, attempts, permit, faults>>

ElapseLocally(g) ==
  /\ Ripens(fallback[g])
  /\ fallback' = [fallback EXCEPT ![g] = Ripe(@)]
  /\ UNCHANGED <<redis, pc, attempts, permit, faults>>

(* PX probe_lease_ms: the key goes, at the earliest when its owner has     *)
(* made more calls than the lease allows for.                              *)
LeaseExpires ==
  /\ probe # NoToken
  /\ \A c \in Calls :
       InFlight(c) /\ permit[c].token = probe => attempts[c] > LeaseAttempts
  /\ probe' = NoToken
  /\ UNCHANGED <<circuit, fallback, pc, attempts, permit, faults>>

-----------------------------------------------------------------------------
Work(c) ==
  \/ PrimaryReturns(c)
  \/ PrimaryFails(c)
  \/ Retry(c)
  \/ RecordSuccess(c)
  \/ RecordFailure(c)

Next ==
  \/ \E c \in Calls : AdmitClosed(c) \/ AcquireProbe(c) \/ AdmitLocally(c) \/ Work(c)
  \/ \E g \in Gateways : Observe(g) \/ Crash(g) \/ ElapseLocally(g)
  \/ Elapse
  \/ LeaseExpires

Spec == Init /\ [][Next]_vars

(* Backend calls end, threads run, clocks advance and Redis expires keys.  *)
FairSpec ==
  /\ Spec
  /\ \A c \in Calls : WF_vars(Work(c))
  /\ \A g \in Gateways : WF_vars(ElapseLocally(g))
  /\ WF_vars(Elapse)
  /\ WF_vars(LeaseExpires)

-----------------------------------------------------------------------------
(* Correctness.                                                            *)

Probing(c) == InFlight(c) /\ permit[c].store = "redis" /\ permit[c].state = "half_open"

(* Only one instance gets the half-open probe: while a call that Redis let *)
(* through as the probe is in flight, no gateway lets through another      *)
(* (test_only_one_instance_gets_half_open_probe).                          *)
OneProbeAtATime == \A c, d \in Calls : Probing(c) /\ Probing(d) => c = d

(* The probe key and the circuit's hash are two keys, but fit together: a  *)
(* token is stored only in HALF_OPEN, for the permit of the current        *)
(* version, and an open circuit has reached the threshold, a closed one    *)
(* has not.                                                                *)
KeysAgree ==
  /\ probe # NoToken => circuit.state = "half_open"
  /\ \A c \in Calls : InFlight(c) /\ permit[c].token = probe /\ probe # NoToken =>
       Current(permit[c])
  /\ circuit.state = "open" <=> circuit.failures = FailureThreshold

(* A call holds a permit of Redis.                                         *)
Holds(c) == InFlight(c) /\ permit[c].store = "redis"

(* A permit of Redis says what the circuit was when it was given out.  If  *)
(* its version is still the circuit's, so are its state and, unless the    *)
(* lease has ended, its token; and no two probes share a version.          *)
PermitsFit ==
  /\ \A c \in Calls : permit[c].token # NoToken => Probing(c)
  /\ \A c \in Calls : Holds(c) =>
       /\ permit[c].version <= circuit.version
       /\ permit[c].state \in {"closed", "half_open"}
       /\ permit[c].state = "half_open" => permit[c].token # NoToken
       /\ permit[c].version = circuit.version =>
            /\ permit[c].state = circuit.state
            /\ Probing(c) => probe \in {permit[c].token, NoToken}
       /\ Probing(c) /\ permit[c].token = probe => permit[c].version = circuit.version
  /\ \A c, d \in Calls :
       Probing(c) /\ Probing(d) /\ permit[c].version = permit[d].version => c = d

IInv ==
  /\ TypeOK
  /\ KeysAgree
  /\ PermitsFit
  /\ circuit.ready => circuit.state = "open"

(* With a lease that outlasts all attempts, the probe in flight owns it.   *)
ProbeIsOwner == \A c \in Calls : Probing(c) => permit[c].token = probe

(* Whatever Redis, the gateways and the lease do, the circuit does not     *)
(* stay shut: again and again a request would be let through, by Redis and *)
(* also by each gateway's own breaker.                                     *)
AdmitsAgain ==
  /\ []<>(circuit.state = "closed" \/ ProbeFree)
  /\ \A g \in Gateways : []<>~Blocks(fallback[g])

(* The calls whose results the record scripts would accept.                *)
Entitled == {c \in Calls : InFlight(c) /\ permit[c].store = "redis" /\ Current(permit[c])}

Fenced == INSTANCE FencedBreaker WITH
  state    <- circuit.state,
  failures <- circuit.failures,
  ready    <- circuit.ready,
  entitled <- Entitled

(* The shared breaker is a fenced one: a result that arrives after the     *)
(* circuit changed state, in whatever order and through however many       *)
(* cycles of opening and closing, changes nothing                          *)
(* (test_stale_success_cannot_close_newer_open_state).                     *)
ImplementsFenced == Fenced!Spec

=============================================================================
