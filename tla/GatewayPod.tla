------------------------------ MODULE GatewayPod ------------------------------
(***************************************************************************)
(* A gateway's pod under Kubernetes: the readiness and liveness routes of  *)
(* app/main.py and the probes of deployment/week3_ha/k8s.  All routes are  *)
(* plain functions, so Starlette runs them in one pool of threads, in the  *)
(* order of their arrival: a call of /generate that waits for a backend    *)
(* keeps a thread from the probes.  A request whose client has gone keeps  *)
(* its place: nothing takes it out of the line or ends its thread.         *)
(***************************************************************************)
EXTENDS Naturals, Sequences, FiniteSets

CONSTANTS
  PoolSize,            \* threads of the pool
  MaxLine,             \* bound on the calls waiting for a thread
  ReadinessThreshold,  \* readinessProbe.failureThreshold
  LivenessThreshold,   \* livenessProbe.failureThreshold
  ReadyzPerLivez       \* readiness probes between two liveness probes, by
                       \* their periodSeconds, which are the same

ASSUME PodAssumption ==
  /\ PoolSize \in Nat \ {0} /\ MaxLine \in Nat
  /\ ReadinessThreshold \in Nat \ {0} /\ LivenessThreshold \in Nat \ {0}
  /\ ReadyzPerLivez \in Nat \ {0}

VARIABLES
  health,          \* of the primary and the fallback backend
  line,            \* requests that wait for a thread, stale: for nobody
  calls,           \* threads with a call of /generate
  lingering,       \* threads whose client no longer waits
  checking,        \* the backend that /readyz is checking
  primaryReady,    \* what it found of the primary
  livezFailures,   \* probes failed in a row
  readyzFailures,
  inService,       \* the pod is among the service's endpoints
  sinceLivez       \* readiness probes since the last liveness probe

pool == <<line, calls, lingering, checking, primaryReady>>
kubelet == <<livezFailures, readyzFailures, inService, sinceLivez>>
podVars == <<health, pool, kubelet>>

Backends == {"primary", "fallback"}
Kinds == {"call", "livez", "staleLivez", "readyz", "staleReadyz"}

PodTypeOK ==
  /\ health \in [Backends -> {"up", "down", "hung", "odd"}]
  /\ line \in Seq(Kinds)
  /\ calls \in Nat /\ lingering \in Nat
  /\ checking \in Backends \cup {"none"}
  /\ primaryReady \in BOOLEAN
  /\ livezFailures \in 0..LivenessThreshold
  /\ readyzFailures \in 0..ReadinessThreshold
  /\ inService \in BOOLEAN
  /\ sinceLivez \in Nat

PodInit ==
  /\ health = [b \in Backends |-> "up"]
  /\ line = <<>> /\ calls = 0 /\ lingering = 0
  /\ checking = "none" /\ primaryReady = FALSE
  /\ livezFailures = 0 /\ readyzFailures = 0
  /\ inService = FALSE
  /\ sinceLivez = 0

Taken == calls + lingering + (IF checking = "none" THEN 0 ELSE 1)

Full == Taken >= PoolSize

Waits(kind) == \E k \in DOMAIN line : line[k] = kind

-----------------------------------------------------------------------------
(* A backend answers /v1/models, refuses connections, does not answer, or  *)
(* answers what check_ready raises on (a body that is no JSON object).     *)
Health ==
  /\ \E b \in Backends, h \in {"up", "down", "hung", "odd"} :
       health[b] # h /\ health' = [health EXCEPT ![b] = h]
  /\ UNCHANGED <<pool, kubelet>>

Call ==
  /\ inService /\ Cardinality({k \in DOMAIN line : line[k] = "call"}) < MaxLine
  /\ line' = Append(line, "call")
  /\ UNCHANGED <<health, calls, lingering, checking, primaryReady, kubelet>>

(* Mutant: readiness is probed twice as often.                             *)
PacedFaster(kind) == kind = "readyz" => sinceLivez < 2 * ReadyzPerLivez

(* Both kinds of probe are sent at the same pace.                          *)
Paced(kind) == kind = "readyz" => sinceLivez < ReadyzPerLivez

(* The kubelet sends a probe when the one before has been answered or      *)
(* given up.                                                               *)
Probe(kind) ==
  /\ ~Waits(kind) /\ (kind = "readyz" => checking = "none") /\ Paced(kind)
  /\ line' = Append(line, kind)
  /\ sinceLivez' = IF kind = "livez" THEN 0 ELSE sinceLivez + 1
  /\ UNCHANGED <<health, calls, lingering, checking, primaryReady,
                 livezFailures, readyzFailures, inService>>

(* livez(): nothing is looked at.                                          *)
Livez ==
  /\ livezFailures' = 0
  /\ UNCHANGED <<calls, lingering, checking, readyzFailures, inService, sinceLivez>>

(* The first in line gets a free thread.  It does what was asked though    *)
(* the kubelet has given up: /livez takes no time, /readyz its checks.     *)
Enter ==
  /\ line # <<>> /\ ~Full
  /\ line' = Tail(line)
  /\ \/ Head(line) = "livez" /\ Livez
     \/ /\ Head(line) = "staleLivez"
        /\ UNCHANGED <<calls, lingering, checking, kubelet>>
     \/ /\ Head(line) = "readyz" /\ checking' = "primary"
        /\ UNCHANGED <<calls, lingering, kubelet>>
     \/ /\ Head(line) = "staleReadyz" /\ lingering' = lingering + 1
        /\ UNCHANGED <<calls, checking, kubelet>>
     \/ /\ Head(line) = "call" /\ calls' = calls + 1
        /\ UNCHANGED <<lingering, checking, kubelet>>
  /\ UNCHANGED <<health, primaryReady>>

(* generate() returns or raises; or nginx and the client give up first.    *)
EndCall ==
  /\ calls > 0 /\ calls' = calls - 1
  /\ UNCHANGED <<health, line, lingering, checking, primaryReady, kubelet>>

GiveUpCall ==
  /\ calls > 0 /\ calls' = calls - 1 /\ lingering' = lingering + 1
  /\ UNCHANGED <<health, line, checking, primaryReady, kubelet>>

EndLingering ==
  /\ lingering > 0 /\ lingering' = lingering - 1
  /\ UNCHANGED <<health, line, calls, checking, primaryReady, kubelet>>

(* The readiness probe's result: one success puts the pod into service, a  *)
(* number of failures in a row takes it out.                               *)
ReadyzResult(ok) ==
  /\ readyzFailures' = IF ok THEN 0
                       ELSE IF readyzFailures < ReadinessThreshold THEN readyzFailures + 1
                       ELSE readyzFailures
  /\ inService' = (ok \/ (inService /\ readyzFailures' < ReadinessThreshold))
  /\ UNCHANGED <<livezFailures, sinceLivez>>

(* Mutant: a backend that hangs is found not ready in time.                *)
HangsInTime(b) == FALSE

(* check_ready waits up to ten seconds, the kubelet two.                   *)
Hangs(b) == health[b] = "hung"

(* check_ready has not come back when the kubelet gives up: the thread     *)
(* goes on.  One that raises makes the route end with 500.                 *)
CheckFails ==
  /\ checking # "none"
  /\ \/ Hangs(checking) /\ lingering' = lingering + 1
     \/ health[checking] = "odd" /\ UNCHANGED lingering
  /\ checking' = "none"
  /\ ReadyzResult(FALSE)
  /\ UNCHANGED <<health, line, calls, primaryReady>>

CheckPrimary ==
  /\ checking = "primary" /\ ~Hangs("primary") /\ health["primary"] # "odd"
  /\ primaryReady' = (health["primary"] = "up")
  /\ checking' = "fallback"
  /\ UNCHANGED <<health, line, calls, lingering, kubelet>>

(* Mutant: the service is as ready as the primary.                         *)
PrimaryOnly == primaryReady

ServiceReady == primaryReady \/ health["fallback"] = "up"

CheckFallback ==
  /\ checking = "fallback" /\ ~Hangs("fallback") /\ health["fallback"] # "odd"
  /\ ReadyzResult(ServiceReady)
  /\ checking' = "none"
  /\ UNCHANGED <<health, line, calls, lingering, primaryReady>>

(* The kubelet closes the connection of a probe, which stays in line.      *)
Abandon(kind) ==
  LET stale == IF kind = "livez" THEN "staleLivez" ELSE "staleReadyz"
  IN line' = [k \in DOMAIN line |-> IF line[k] = kind THEN stale ELSE line[k]]

(* A probe that gets no thread in time fails.                              *)
ReadyzStarves ==
  /\ Full /\ Waits("readyz")
  /\ Abandon("readyz")
  /\ ReadyzResult(FALSE)
  /\ UNCHANGED <<health, calls, lingering, checking, primaryReady>>

LivezStarves ==
  /\ Full /\ Waits("livez") /\ livezFailures + 1 < LivenessThreshold
  /\ Abandon("livez")
  /\ livezFailures' = livezFailures + 1
  /\ UNCHANGED <<health, calls, lingering, checking, primaryReady,
                 readyzFailures, inService, sinceLivez>>

(* The container is restarted after so many failures in a row, and every   *)
(* call in the pool or in line is lost.                                    *)
Restart ==
  /\ Full /\ Waits("livez") /\ livezFailures + 1 >= LivenessThreshold
  /\ line' = <<>> /\ calls' = 0 /\ lingering' = 0 /\ checking' = "none"
  /\ livezFailures' = 0 /\ readyzFailures' = 0 /\ inService' = FALSE /\ sinceLivez' = 0
  /\ UNCHANGED <<health, primaryReady>>

PodStep ==
  \/ Probe("livez") \/ Probe("readyz") \/ Enter
  \/ EndCall \/ GiveUpCall \/ EndLingering
  \/ CheckFails \/ CheckPrimary \/ CheckFallback
  \/ ReadyzStarves \/ LivezStarves \/ Restart

PodNext == PodStep \/ Health \/ Call

PodSpec == PodInit /\ [][PodNext]_podVars

-----------------------------------------------------------------------------
Places(kinds) == {k \in DOMAIN line : line[k] \in kinds}
LivezKinds == {"livez", "staleLivez"}
ReadyzKinds == {"readyz", "staleReadyz"}

(* However long the pool is full, the probes the kubelet has given up on   *)
(* do not pile up before it: there are no more abandoned liveness probes   *)
(* than failures are counted, so that the restart comes in time to bound   *)
(* the readiness probes too, which by themselves restart nothing.          *)
ProbesDoNotPileUp ==
  /\ Cardinality(Places({"staleLivez"})) <= livezFailures
  /\ Cardinality(Places(ReadyzKinds)) <= ReadyzPerLivez * (LivenessThreshold + 1)

(* Why: behind a probe the kubelet waits for there is none of its kind,    *)
(* and behind any place there are at most so many readiness probes for     *)
(* each liveness probe.                                                    *)
LineFits ==
  /\ \A j, k \in DOMAIN line : j < k =>
       /\ line[j] = "livez" => line[k] \notin LivezKinds
       /\ line[j] = "readyz" => line[k] \notin ReadyzKinds
  /\ \A m \in 0..Len(line) :
       Cardinality({k \in Places(ReadyzKinds) : k > m})
         <= ReadyzPerLivez * Cardinality({k \in Places(LivezKinds) : k > m}) + sinceLivez
  /\ sinceLivez <= ReadyzPerLivez

(* With the types of the variables, and that no more threads are taken     *)
(* than there are, whoever waits for one, and a pod that failed its checks *)
(* too often is not in service, this is inductive.                         *)
PodInvariant ==
  /\ PodTypeOK /\ LineFits /\ ProbesDoNotPileUp
  /\ Taken <= PoolSize
  /\ inService => readyzFailures < ReadinessThreshold
  /\ livezFailures < LivenessThreshold

Answers(b) == health[b] \in {"up", "down"}

(* Once one backend stays up, both answer or refuse, and the pool is no    *)
(* longer full, the pod is in service for good and restarted no more.  (If *)
(* only some backend is up at any time, each may be down when checked.)    *)
StaysInService ==
  \A b \in Backends :
    <>[](health[b] = "up" /\ (\A c \in Backends : Answers(c)) /\ ~Full)
      => <>[](inService /\ livezFailures = 0)

(* Once no backend is up the pod leaves the service.  So it does while one *)
(* of them hangs, or answers with what check_ready raises on, though the   *)
(* other is up and would serve every request: both are always checked.     *)
LeavesService ==
  /\ <>[](\A b \in Backends : health[b] # "up") => <>[]~inService
  /\ \A b \in Backends : <>[]~Answers(b) => <>[]~inService

=============================================================================
