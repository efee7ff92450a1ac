---------------------------- MODULE ProgramProofs ----------------------------
(***************************************************************************)
(* Theorems about a gateway's pod and about the programs that MCPrograms   *)
(* checks side by side.                                                    *)
(***************************************************************************)
EXTENDS MCPrograms, BenchmarkProofs

(***************************************************************************)
(* VLLMBackend.generate                                                    *)
(***************************************************************************)
LEMMA CallStepKeeps ==
  ASSUME CallInvariant, [CallNext]_callVars
  PROVE  CallInvariant'
<1> USE DEF CallInvariant, CallTypeOK, CallFits, RepeatsAreAmbiguous, ResultIsUpstreams,
            CallFailures, Raised, Statuses
<1>1. CASE Connect
  BY <1>1 DEF Connect, Fails
<1>2. CASE AwaitHead
  BY <1>2 DEF AwaitHead, Fails, ErrorAfterSending
<1>3. CASE ReadErrorBody
  BY <1>3 DEF ReadErrorBody, Fails, ErrorOfStatus
<1>4. CASE ReadBody
  BY <1>4 DEF ReadBody, Fails, ErrorAfterSending
<1>5. CASE Upstream
  BY <1>5 DEF Upstream
<1>6. CASE UNCHANGED callVars
  BY <1>6 DEF callVars
<1> QED BY <1>1, <1>2, <1>3, <1>4, <1>5, <1>6 DEF CallNext, CallStep

LEMMA CallStarts == CallInit => CallInvariant
BY DEF CallInit, CallInvariant, CallTypeOK, CallFits, RepeatsAreAmbiguous,
       ResultIsUpstreams, CallFailures, Raised, Statuses

(* What the caller of VLLMBackend.generate may conclude: an error that is  *)
(* tried again or sent to the fallback leaves vLLM untouched unless it was *)
(* a timeout or a proxy's answer, and a result is vLLM's own.              *)
THEOREM CallHolds == CallSpec => []CallInvariant
<1>1. CallInvariant /\ [CallNext]_callVars => CallInvariant'
  BY CallStepKeeps
<1> QED BY CallStarts, <1>1, PTL DEF CallSpec

(***************************************************************************)
(* A gateway's pod                                                         *)
(***************************************************************************)

(* The places of a line behind the m-th that hold one of the given kinds.  *)
Behind(l, kinds, m) == {k \in DOMAIN l : k > m /\ l[k] \in kinds}

LEMMA BehindFinite ==
  ASSUME NEW l \in Seq(Kinds), NEW kinds, NEW m \in Nat
  PROVE  /\ IsFiniteSet(Behind(l, kinds, m)) /\ Cardinality(Behind(l, kinds, m)) \in Nat
         /\ m >= Len(l) => Cardinality(Behind(l, kinds, m)) = 0
<1>1. DOMAIN l = 1..Len(l) /\ Len(l) \in Nat
  OBVIOUS
<1>2. IsFiniteSet(1..Len(l))
  BY <1>1, FS_Interval
<1>3. Behind(l, kinds, m) \in SUBSET (1..Len(l))
  BY <1>1 DEF Behind
<1>4. IsFiniteSet(Behind(l, kinds, m))
  BY <1>2, <1>3, FS_Subset
<1>5. ASSUME m >= Len(l) PROVE Behind(l, kinds, m) = {}
  BY <1>1, <1>5 DEF Behind
<1> QED BY <1>4, <1>5, FS_CardinalityType, FS_EmptySet

(* The line moves up by one place.                                         *)
LEMMA BehindTail ==
  ASSUME NEW l \in Seq(Kinds), l # <<>>, NEW kinds, NEW m \in Nat
  PROVE  Cardinality(Behind(Tail(l), kinds, m)) = Cardinality(Behind(l, kinds, m + 1))
<1> DEFINE n == Len(l)
           S == Behind(l, kinds, m + 1)
           T == Behind(Tail(l), kinds, m)
           f == [k \in S |-> k - 1]
<1>1. n \in Nat /\ n > 0 /\ DOMAIN l = 1..n
  BY EmptySeq
<1>2. /\ Tail(l) \in Seq(Kinds) /\ DOMAIN Tail(l) = 1..(n - 1)
      /\ \A k \in 1..(n - 1) : Tail(l)[k] = l[k + 1]
  BY <1>1, HeadTailProperties
<1> HIDE DEF n
<1>3. \A k \in 1..n : k > m + 1 => k - 1 \in 1..(n - 1) /\ Tail(l)[k - 1] = l[k] /\ k - 1 > m
  <2> SUFFICES ASSUME NEW k \in 1..n, k > m + 1
               PROVE  k - 1 \in 1..(n - 1) /\ Tail(l)[k - 1] = l[k] /\ k - 1 > m
    OBVIOUS
  <2>1. k - 1 \in 1..(n - 1) /\ (k - 1) + 1 = k /\ k - 1 > m
    BY <1>1
  <2> QED BY <1>2, <2>1
<1>4. \A k \in 1..(n - 1) : k > m => k + 1 \in 1..n /\ k + 1 > m + 1 /\ (k + 1) - 1 = k
  BY <1>1
<1>5. f \in [S -> T]
  BY <1>1, <1>2, <1>3 DEF Behind
<1>6. \A a, b \in S : f[a] = f[b] => a = b
  BY <1>1 DEF Behind
<1>7. \A t \in T : \E s \in S : f[s] = t
  <2> SUFFICES ASSUME NEW t \in T PROVE t + 1 \in S /\ f[t + 1] = t
    OBVIOUS
  <2>1. t \in 1..(n - 1) /\ t > m /\ Tail(l)[t] \in kinds
    BY <1>2 DEF Behind
  <2>2. t + 1 \in S
    BY <1>1, <1>2, <1>4, <2>1 DEF Behind
  <2> QED BY <1>4, <2>1, <2>2
<1>8. ExistsBijection(S, T)
  <2>1. f \in Bijection(S, T)
    BY <1>5, <1>6, <1>7 DEF Bijection, Injection, Surjection, IsInjective
  <2> QED BY <2>1 DEF ExistsBijection
<1>9. IsFiniteSet(S)
  BY BehindFinite
<1> QED BY <1>8, <1>9, FS_Bijection

(* One more request at the end of the line.                                *)
LEMMA BehindAppend ==
  ASSUME NEW l \in Seq(Kinds), NEW x \in Kinds, NEW kinds, NEW m \in 0..Len(l)
  PROVE  Cardinality(Behind(Append(l, x), kinds, m))
           = Cardinality(Behind(l, kinds, m)) + (IF x \in kinds THEN 1 ELSE 0)
<1> DEFINE n == Len(l)
           S == Behind(l, kinds, m)
           T == Behind(Append(l, x), kinds, m)
<1>1. n \in Nat /\ DOMAIN l = 1..n /\ m \in 0..n
  OBVIOUS
<1>2. /\ DOMAIN Append(l, x) = 1..(n + 1)
      /\ \A k \in 1..n : Append(l, x)[k] = l[k]
      /\ Append(l, x)[n + 1] = x
  BY <1>1, AppendProperties
<1> HIDE DEF n
<1>3. \A k : k \in 1..(n + 1) <=> k \in 1..n \/ k = n + 1
  BY <1>1
<1>4. n + 1 > m /\ n + 1 \notin 1..n
  BY <1>1
<1>5. IsFiniteSet(S) /\ Cardinality(S) \in Nat
  BY BehindFinite
<1>6. CASE x \in kinds
  <2>1. T = S \cup {n + 1} /\ n + 1 \notin S
    BY <1>1, <1>2, <1>3, <1>4, <1>6 DEF Behind
  <2> QED BY <1>5, <1>6, <2>1, FS_AddElement
<1>7. CASE x \notin kinds
  <2>1. T = S
    BY <1>1, <1>2, <1>3, <1>4, <1>7 DEF Behind
  <2> QED BY <1>5, <1>7, <2>1
<1> QED BY <1>6, <1>7

LEMMA BehindShrinks ==
  ASSUME NEW l \in Seq(Kinds), NEW kinds, NEW m \in Nat, NEW n \in Nat, m <= n
  PROVE  Cardinality(Behind(l, kinds, n)) <= Cardinality(Behind(l, kinds, m))
<1>1. Behind(l, kinds, n) \in SUBSET Behind(l, kinds, m)
  BY DEF Behind
<1> QED BY <1>1, BehindFinite, FS_Subset

LEMMA MultiplesGrow ==
  ASSUME NEW a \in Nat, NEW b \in Nat, NEW k \in Nat, a <= b
  PROVE  /\ k * a \in Nat /\ k * b \in Nat /\ k * a <= k * b
         /\ k * (a + 1) = k * a + k
<1>1. k * a \in Nat /\ k * b \in Nat /\ k * (b - a) \in Nat /\ k * b = k * a + k * (b - a)
  OBVIOUS
<1> QED BY <1>1

(* What the invariant says of a line, of the readiness probes since the    *)
(* last liveness probe and of the failures counted.                        *)
PodLine(l, since, failures) ==
  /\ l \in Seq(Kinds)
  /\ \A j, k \in DOMAIN l : j < k =>
       /\ l[j] = "livez" => l[k] \notin LivezKinds
       /\ l[j] = "readyz" => l[k] \notin ReadyzKinds
  /\ \A m \in 0..Len(l) :
       Cardinality(Behind(l, ReadyzKinds, m))
         <= ReadyzPerLivez * Cardinality(Behind(l, LivezKinds, m)) + since
  /\ since \in 0..ReadyzPerLivez
  /\ failures \in 0..(LivenessThreshold - 1)
  /\ Cardinality(Behind(l, {"staleLivez"}, 0)) <= failures

(* At most one liveness probe is not stale, so that the stale ones bound   *)
(* the probes of both kinds.                                               *)
LEMMA LineIsBounded ==
  ASSUME NEW l, NEW since, NEW failures, PodLine(l, since, failures)
  PROVE  Cardinality(Behind(l, ReadyzKinds, 0)) <= ReadyzPerLivez * (LivenessThreshold + 1)
<1> DEFINE K == ReadyzPerLivez
           A == Behind(l, {"staleLivez"}, 0)
           L == Behind(l, LivezKinds, 0)
<1>1. l \in Seq(Kinds) /\ DOMAIN l = 1..Len(l) /\ Len(l) \in Nat
  BY DEF PodLine
<1>2. IsFiniteSet(A) /\ Cardinality(A) \in Nat /\ IsFiniteSet(L) /\ Cardinality(L) \in Nat
  BY <1>1, BehindFinite
<1>3. Cardinality(L) <= Cardinality(A) + 1
  <2>1. CASE \E p \in DOMAIN l : l[p] = "livez"
    <3> PICK p \in DOMAIN l : l[p] = "livez"
      BY <2>1
    <3>1. \A q \in DOMAIN l : l[q] = "livez" => q = p
      <4>1. \A j, k \in DOMAIN l : j < k => (l[j] = "livez" => l[k] # "livez")
        BY DEF PodLine, LivezKinds
      <4>2. \A q \in DOMAIN l : q < p \/ q = p \/ p < q
        BY <1>1
      <4> QED BY <4>1, <4>2
    <3>2. L \in SUBSET (A \cup {p})
      BY <3>1 DEF Behind, LivezKinds
    <3>3. IsFiniteSet(A \cup {p}) /\ Cardinality(A \cup {p}) <= Cardinality(A) + 1
      <4> HIDE DEF A, L
      <4>1. IsFiniteSet(A \cup {p})
            /\ Cardinality(A \cup {p}) = IF p \in A THEN Cardinality(A) ELSE Cardinality(A) + 1
        BY <1>2, FS_AddElement
      <4> QED BY <1>2, <4>1
    <3>4. Cardinality(L) <= Cardinality(A \cup {p})
      BY <3>2, <3>3, FS_Subset
    <3>5. Cardinality(A \cup {p}) \in Nat
      BY <3>3, FS_CardinalityType
    <3> QED BY <1>2, <3>3, <3>4, <3>5
  <2>2. CASE ~\E p \in DOMAIN l : l[p] = "livez"
    <3>1. L = A
      BY <2>2 DEF Behind, LivezKinds
    <3> QED BY <1>2, <3>1
  <2> QED BY <2>1, <2>2
<1>4. Cardinality(L) <= LivenessThreshold /\ LivenessThreshold \in Nat
  BY <1>2, <1>3, PodAssumption DEF PodLine
<1>5. Cardinality(Behind(l, ReadyzKinds, 0)) <= K * Cardinality(L) + since
  BY <1>1 DEF PodLine
<1>6. Cardinality(Behind(l, ReadyzKinds, 0)) \in Nat
  BY <1>1, BehindFinite
<1>7. /\ K * Cardinality(L) <= K * LivenessThreshold
      /\ K * (LivenessThreshold + 1) = K * LivenessThreshold + K
      /\ K * Cardinality(L) \in Nat /\ K * LivenessThreshold \in Nat
  BY <1>2, <1>4, MultiplesGrow, PodAssumption
<1>8. since \in Nat /\ since <= K /\ K \in Nat
  BY PodAssumption DEF PodLine
<1> HIDE DEF K, L
<1> QED BY <1>5, <1>6, <1>7, <1>8 DEF K

LEMMA LineOfPod ==
  ASSUME PodInvariant
  PROVE  PodLine(line, sinceLivez, livezFailures)
<1>1. line \in Seq(Kinds) /\ DOMAIN line = 1..Len(line) /\ Len(line) \in Nat
  BY DEF PodInvariant, PodTypeOK
<1>2. \A kinds : \A m \in Nat : {k \in Places(kinds) : k > m} = Behind(line, kinds, m)
  BY DEF Places, Behind
<1>3. Places({"staleLivez"}) = Behind(line, {"staleLivez"}, 0)
  BY <1>1 DEF Places, Behind
<1>4. /\ livezFailures \in 0..(LivenessThreshold - 1)
      /\ sinceLivez \in 0..ReadyzPerLivez
      /\ \A j, k \in DOMAIN line : j < k =>
            /\ line[j] = "livez" => line[k] \notin LivezKinds
            /\ line[j] = "readyz" => line[k] \notin ReadyzKinds
      /\ Cardinality(Places({"staleLivez"})) <= livezFailures
  BY PodAssumption DEF PodInvariant, PodTypeOK, LineFits, ProbesDoNotPileUp
<1>5. \A m \in 0..Len(line) :
        Cardinality({k \in Places(ReadyzKinds) : k > m})
          <= ReadyzPerLivez * Cardinality({k \in Places(LivezKinds) : k > m}) + sinceLivez
  BY DEF PodInvariant, LineFits
<1>6. \A m \in 0..Len(line) :
        Cardinality(Behind(line, ReadyzKinds, m))
          <= ReadyzPerLivez * Cardinality(Behind(line, LivezKinds, m)) + sinceLivez
  <2> SUFFICES ASSUME NEW m \in 0..Len(line)
               PROVE  Cardinality(Behind(line, ReadyzKinds, m))
                        <= ReadyzPerLivez * Cardinality(Behind(line, LivezKinds, m)) + sinceLivez
    OBVIOUS
  <2>1. /\ {k \in Places(ReadyzKinds) : k > m} = Behind(line, ReadyzKinds, m)
        /\ {k \in Places(LivezKinds) : k > m} = Behind(line, LivezKinds, m)
    BY <1>1, <1>2
  <2> QED BY <1>5, <2>1
<1> QED BY <1>1, <1>3, <1>4, <1>6 DEF PodLine

(* The other way, of the state and of the one after it.                    *)
PodThreads ==
  /\ health \in [Backends -> {"up", "down", "hung", "odd"}]
  /\ calls \in Nat /\ lingering \in Nat
  /\ checking \in Backends \cup {"none"} /\ primaryReady \in BOOLEAN
  /\ Taken <= PoolSize

PodResult ==
  /\ readyzFailures \in 0..ReadinessThreshold /\ inService \in BOOLEAN
  /\ inService => readyzFailures < ReadinessThreshold

LEMMA PodOfLine ==
  /\ PodLine(line, sinceLivez, livezFailures) /\ PodThreads /\ PodResult => PodInvariant
  /\ PodLine(line', sinceLivez', livezFailures') /\ PodThreads' /\ PodResult' => PodInvariant'
<1>1. ASSUME PodLine(line, sinceLivez, livezFailures), PodThreads, PodResult
      PROVE  PodInvariant
  <2>1. line \in Seq(Kinds) /\ DOMAIN line = 1..Len(line) /\ Len(line) \in Nat
    BY <1>1 DEF PodLine
  <2>2. \A kinds : \A m \in Nat : {k \in Places(kinds) : k > m} = Behind(line, kinds, m)
    BY DEF Places, Behind
  <2>3. \A kinds : Places(kinds) = Behind(line, kinds, 0)
    BY <2>1 DEF Places, Behind
  <2>4. LineFits
    <3>1. \A m \in 0..Len(line) :
            Cardinality({k \in Places(ReadyzKinds) : k > m})
              <= ReadyzPerLivez * Cardinality({k \in Places(LivezKinds) : k > m}) + sinceLivez
      <4> SUFFICES ASSUME NEW m \in 0..Len(line)
                   PROVE  Cardinality({k \in Places(ReadyzKinds) : k > m})
                            <= ReadyzPerLivez * Cardinality({k \in Places(LivezKinds) : k > m})
                                 + sinceLivez
        OBVIOUS
      <4>1. /\ {k \in Places(ReadyzKinds) : k > m} = Behind(line, ReadyzKinds, m)
            /\ {k \in Places(LivezKinds) : k > m} = Behind(line, LivezKinds, m)
        BY <2>1, <2>2
      <4> QED BY <1>1, <4>1 DEF PodLine
    <3>2. sinceLivez <= ReadyzPerLivez
      BY <1>1, PodAssumption DEF PodLine
    <3> QED BY <1>1, <3>1, <3>2 DEF PodLine, LineFits
  <2>5. ProbesDoNotPileUp
    BY <1>1, <2>3, LineIsBounded DEF PodLine, ProbesDoNotPileUp
  <2>6. PodTypeOK
    BY <1>1, PodAssumption DEF PodLine, PodThreads, PodResult, PodTypeOK
  <2> QED BY <1>1, <2>4, <2>5, <2>6, PodAssumption DEF PodLine, PodThreads, PodResult, PodInvariant
<1>2. ASSUME PodLine(line', sinceLivez', livezFailures'), PodThreads', PodResult'
      PROVE  PodInvariant'
  <2>1. line' \in Seq(Kinds) /\ DOMAIN line' = 1..Len(line') /\ Len(line') \in Nat
    BY <1>2 DEF PodLine
  <2>2. \A kinds : \A m \in Nat : {k \in Places(kinds)' : k > m} = Behind(line', kinds, m)
    BY DEF Places, Behind
  <2>3. \A kinds : Places(kinds)' = Behind(line', kinds, 0)
    BY <2>1 DEF Places, Behind
  <2>4. LineFits'
    <3>1. \A m \in 0..Len(line') :
            Cardinality({k \in Places(ReadyzKinds)' : k > m})
              <= ReadyzPerLivez * Cardinality({k \in Places(LivezKinds)' : k > m}) + sinceLivez'
      <4> SUFFICES ASSUME NEW m \in 0..Len(line')
                   PROVE  Cardinality({k \in Places(ReadyzKinds)' : k > m})
                            <= ReadyzPerLivez * Cardinality({k \in Places(LivezKinds)' : k > m})
                                 + sinceLivez'
        OBVIOUS
      <4>1. /\ {k \in Places(ReadyzKinds)' : k > m} = Behind(line', ReadyzKinds, m)
            /\ {k \in Places(LivezKinds)' : k > m} = Behind(line', LivezKinds, m)
        BY <2>1, <2>2
      <4> QED BY <1>2, <4>1 DEF PodLine
    <3>2. sinceLivez' <= ReadyzPerLivez
      BY <1>2, PodAssumption DEF PodLine
    <3> QED BY <1>2, <3>1, <3>2 DEF PodLine, LineFits, LivezKinds, ReadyzKinds
  <2>5. ProbesDoNotPileUp'
    BY <1>2, <2>3, LineIsBounded DEF PodLine, ProbesDoNotPileUp, ReadyzKinds
  <2>6. PodTypeOK'
    BY <1>2, PodAssumption DEF PodLine, PodThreads, PodResult, PodTypeOK, Kinds, Backends
  <2> QED BY <1>2, <2>4, <2>5, <2>6, PodAssumption DEF PodLine, PodThreads, PodResult, PodInvariant
<1> QED BY <1>1, <1>2

(* A call joins the line.                                                  *)
LEMMA CallJoins ==
  ASSUME NEW l, NEW since, NEW failures, PodLine(l, since, failures)
  PROVE  PodLine(Append(l, "call"), since, failures)
<1> DEFINE n == Len(l)
           a == Append(l, "call")
<1>1. l \in Seq(Kinds) /\ n \in Nat /\ DOMAIN l = 1..n /\ "call" \in Kinds
  BY DEF PodLine, Kinds
<1>2. /\ a \in Seq(Kinds) /\ DOMAIN a = 1..(n + 1) /\ Len(a) = n + 1
      /\ \A k \in 1..n : a[k] = l[k]
      /\ a[n + 1] = "call"
  BY <1>1, AppendProperties
<1>3. \A m \in 0..n :
        /\ Cardinality(Behind(a, ReadyzKinds, m)) = Cardinality(Behind(l, ReadyzKinds, m))
        /\ Cardinality(Behind(a, LivezKinds, m)) = Cardinality(Behind(l, LivezKinds, m))
        /\ Cardinality(Behind(a, {"staleLivez"}, m)) = Cardinality(Behind(l, {"staleLivez"}, m))
  <2> SUFFICES ASSUME NEW m \in 0..n
               PROVE  /\ Cardinality(Behind(a, ReadyzKinds, m)) = Cardinality(Behind(l, ReadyzKinds, m))
                      /\ Cardinality(Behind(a, LivezKinds, m)) = Cardinality(Behind(l, LivezKinds, m))
                      /\ Cardinality(Behind(a, {"staleLivez"}, m))
                           = Cardinality(Behind(l, {"staleLivez"}, m))
    OBVIOUS
  <2>1. "call" \notin ReadyzKinds /\ "call" \notin LivezKinds /\ "call" \notin {"staleLivez"}
    BY DEF ReadyzKinds, LivezKinds
  <2>2. \A kinds : Cardinality(Behind(l, kinds, m)) \in Nat
    BY <1>1, BehindFinite
  <2> QED BY <1>1, <2>1, <2>2, BehindAppend
<1>4. /\ Cardinality(Behind(a, ReadyzKinds, n + 1)) = 0
      /\ Cardinality(Behind(a, LivezKinds, n + 1)) = 0
  <2>1. n + 1 \in Nat /\ n + 1 >= Len(a) /\ a \in Seq(Kinds)
    BY <1>1, <1>2
  <2> HIDE DEF a
  <2> QED BY <2>1, BehindFinite
<1> HIDE DEF n, a
<1>5. \A m \in 0..(n + 1) : m \in 0..n \/ m = n + 1
  BY <1>1
<1>6. \A m \in 0..(n + 1) :
        Cardinality(Behind(a, ReadyzKinds, m))
          <= ReadyzPerLivez * Cardinality(Behind(a, LivezKinds, m)) + since
  <2> SUFFICES ASSUME NEW m \in 0..(n + 1)
               PROVE  Cardinality(Behind(a, ReadyzKinds, m))
                        <= ReadyzPerLivez * Cardinality(Behind(a, LivezKinds, m)) + since
    OBVIOUS
  <2>1. CASE m = n + 1
    BY <1>4, <2>1, PodAssumption DEF PodLine
  <2>2. CASE m \in 0..n
    BY <1>3, <2>2 DEF PodLine, n
  <2> QED BY <1>5, <2>1, <2>2
<1>7. \A j, k \in DOMAIN a : j < k =>
        /\ a[j] = "livez" => a[k] \notin LivezKinds
        /\ a[j] = "readyz" => a[k] \notin ReadyzKinds
  <2>1. \A j, k \in 1..(n + 1) : j < k => j \in 1..n /\ (k \in 1..n \/ k = n + 1)
    BY <1>1
  <2>2. \A j, k \in 1..n : j < k =>
          /\ l[j] = "livez" => l[k] \notin LivezKinds
          /\ l[j] = "readyz" => l[k] \notin ReadyzKinds
    BY <1>1 DEF PodLine
  <2> QED BY <1>2, <2>1, <2>2 DEF LivezKinds, ReadyzKinds
<1>8. Cardinality(Behind(a, {"staleLivez"}, 0)) <= failures
  BY <1>1, <1>3 DEF PodLine
<1> QED BY <1>2, <1>6, <1>7, <1>8 DEF PodLine, a

(* A probe joins it, with none of its kind that the kubelet waits for.     *)
LEMMA ProbeJoins ==
  ASSUME NEW l, NEW since, NEW failures, PodLine(l, since, failures),
         NEW kind \in {"livez", "readyz"}, \A k \in DOMAIN l : l[k] # kind,
         kind = "readyz" => since < ReadyzPerLivez
  PROVE  PodLine(Append(l, kind), IF kind = "livez" THEN 0 ELSE since + 1, failures)
<1> DEFINE n == Len(l)
           a == Append(l, kind)
           now == IF kind = "livez" THEN 0 ELSE since + 1
           K == ReadyzPerLivez
<1>1. l \in Seq(Kinds) /\ n \in Nat /\ DOMAIN l = 1..n /\ kind \in Kinds
  BY DEF PodLine, Kinds
<1>2. /\ a \in Seq(Kinds) /\ DOMAIN a = 1..(n + 1) /\ Len(a) = n + 1
      /\ \A k \in 1..n : a[k] = l[k]
      /\ a[n + 1] = kind
  BY <1>1, AppendProperties
<1>3. \A m \in 0..n : \A kinds :
        /\ Cardinality(Behind(l, kinds, m)) \in Nat
        /\ Cardinality(Behind(a, kinds, m))
             = Cardinality(Behind(l, kinds, m)) + (IF kind \in kinds THEN 1 ELSE 0)
  BY <1>1, BehindAppend, BehindFinite
<1>4. /\ Cardinality(Behind(a, ReadyzKinds, n + 1)) = 0
      /\ Cardinality(Behind(a, LivezKinds, n + 1)) = 0
  <2>1. n + 1 \in Nat /\ n + 1 >= Len(a) /\ a \in Seq(Kinds)
    BY <1>1, <1>2
  <2> HIDE DEF a
  <2> QED BY <2>1, BehindFinite
<1>9. K \in Nat /\ since \in 0..K /\ now \in 0..K /\ (kind = "readyz" => now = since + 1)
  BY PodAssumption DEF PodLine
<1> HIDE DEF n, a, now, K
<1>5. \A m \in 0..(n + 1) : m \in 0..n \/ m = n + 1
  BY <1>1
<1>6. \A m \in 0..(n + 1) :
        Cardinality(Behind(a, ReadyzKinds, m)) <= K * Cardinality(Behind(a, LivezKinds, m)) + now
  <2> SUFFICES ASSUME NEW m \in 0..(n + 1)
               PROVE  Cardinality(Behind(a, ReadyzKinds, m))
                        <= K * Cardinality(Behind(a, LivezKinds, m)) + now
    OBVIOUS
  <2>1. CASE m = n + 1
    BY <1>4, <1>9, <2>1
  <2>2. CASE m \in 0..n
    <3> DEFINE r == Cardinality(Behind(l, ReadyzKinds, m))
               v == Cardinality(Behind(l, LivezKinds, m))
    <3>1. r <= K * v + since
      BY <2>2 DEF PodLine, n, K
    <3>2. r \in Nat /\ v \in Nat
      BY <1>3, <2>2
    <3>3. /\ Cardinality(Behind(a, ReadyzKinds, m)) = r + (IF kind = "readyz" THEN 1 ELSE 0)
          /\ Cardinality(Behind(a, LivezKinds, m)) = v + (IF kind = "livez" THEN 1 ELSE 0)
      BY <1>3, <2>2 DEF ReadyzKinds, LivezKinds
    <3> HIDE DEF r, v
    <3>4. K * (v + 1) = K * v + K /\ K * v \in Nat
      BY <1>9, <3>2, MultiplesGrow
    <3>5. CASE kind = "readyz"
      BY <1>9, <3>1, <3>2, <3>3, <3>4, <3>5
    <3>6. CASE kind = "livez"
      BY <1>9, <3>1, <3>2, <3>3, <3>4, <3>6
    <3> QED BY <3>5, <3>6
  <2> QED BY <1>5, <2>1, <2>2
<1>7. \A j, k \in DOMAIN a : j < k =>
        /\ a[j] = "livez" => a[k] \notin LivezKinds
        /\ a[j] = "readyz" => a[k] \notin ReadyzKinds
  <2>1. \A j, k \in 1..(n + 1) : j < k => j \in 1..n /\ (k \in 1..n \/ k = n + 1)
    BY <1>1
  <2>2. \A j, k \in 1..n : j < k =>
          /\ l[j] = "livez" => l[k] \notin LivezKinds
          /\ l[j] = "readyz" => l[k] \notin ReadyzKinds
    BY <1>1 DEF PodLine
  <2> QED BY <1>1, <1>2, <2>1, <2>2 DEF LivezKinds, ReadyzKinds
<1>8. Cardinality(Behind(a, {"staleLivez"}, 0)) <= failures
  <2>1. kind \notin {"staleLivez"} /\ 0 \in 0..n
    BY <1>1
  <2> QED BY <1>3, <2>1 DEF PodLine
<1> QED BY <1>2, <1>6, <1>7, <1>8, <1>9 DEF PodLine, a, now, K

(* The first of the line leaves it.  If that was the liveness probe the    *)
(* kubelet waits for, none is left, and its failures may be forgotten.     *)
LEMMA FirstLeaves ==
  ASSUME NEW l, NEW since, NEW failures, PodLine(l, since, failures), l # <<>>
  PROVE  /\ Head(l) \in Kinds
         /\ PodLine(Tail(l), since, failures)
         /\ Head(l) = "livez" => PodLine(Tail(l), since, 0)
<1> DEFINE n == Len(l)
           t == Tail(l)
<1>1. l \in Seq(Kinds) /\ n \in Nat /\ n > 0 /\ DOMAIN l = 1..n
  BY EmptySeq DEF PodLine
<1>2. /\ t \in Seq(Kinds) /\ DOMAIN t = 1..(n - 1) /\ Len(t) = n - 1
      /\ \A k \in 1..(n - 1) : t[k] = l[k + 1]
      /\ Head(l) = l[1] /\ Head(l) \in Kinds
  BY <1>1, HeadTailProperties
<1>3. \A m \in Nat : \A kinds :
        Cardinality(Behind(t, kinds, m)) = Cardinality(Behind(l, kinds, m + 1))
  BY <1>1, BehindTail
<1> HIDE DEF n, t
<1>4. \A m \in 0..(n - 1) : m \in Nat /\ m + 1 \in 0..n
  BY <1>1
<1>5. \A m \in 0..(n - 1) :
        Cardinality(Behind(t, ReadyzKinds, m))
          <= ReadyzPerLivez * Cardinality(Behind(t, LivezKinds, m)) + since
  <2> SUFFICES ASSUME NEW m \in 0..(n - 1)
               PROVE  Cardinality(Behind(t, ReadyzKinds, m))
                        <= ReadyzPerLivez * Cardinality(Behind(t, LivezKinds, m)) + since
    OBVIOUS
  <2>1. Cardinality(Behind(l, ReadyzKinds, m + 1))
          <= ReadyzPerLivez * Cardinality(Behind(l, LivezKinds, m + 1)) + since
    BY <1>4 DEF PodLine, n
  <2> QED BY <1>3, <1>4, <2>1
<1>6. \A j, k \in 1..(n - 1) : j < k =>
        /\ t[j] = "livez" => t[k] \notin LivezKinds
        /\ t[j] = "readyz" => t[k] \notin ReadyzKinds
  <2> SUFFICES ASSUME NEW j \in 1..(n - 1), NEW k \in 1..(n - 1), j < k
               PROVE  /\ t[j] = "livez" => t[k] \notin LivezKinds
                      /\ t[j] = "readyz" => t[k] \notin ReadyzKinds
    OBVIOUS
  <2>1. j + 1 \in 1..n /\ k + 1 \in 1..n /\ j + 1 < k + 1
    BY <1>1
  <2>2. /\ l[j + 1] = "livez" => l[k + 1] \notin LivezKinds
        /\ l[j + 1] = "readyz" => l[k + 1] \notin ReadyzKinds
    BY <1>1, <2>1 DEF PodLine
  <2> QED BY <1>2, <2>2
<1>7. Cardinality(Behind(t, {"staleLivez"}, 0)) <= failures
  <2>1. Cardinality(Behind(l, {"staleLivez"}, 1)) <= Cardinality(Behind(l, {"staleLivez"}, 0))
    BY <1>1, BehindShrinks
  <2>2. Cardinality(Behind(t, {"staleLivez"}, 0)) = Cardinality(Behind(l, {"staleLivez"}, 1))
    BY <1>3
  <2>3. /\ Cardinality(Behind(l, {"staleLivez"}, 0)) \in Nat
        /\ Cardinality(Behind(l, {"staleLivez"}, 1)) \in Nat
    BY <1>1, BehindFinite
  <2>4. failures \in Nat /\ Cardinality(Behind(l, {"staleLivez"}, 0)) <= failures
    BY PodAssumption DEF PodLine
  <2> QED BY <2>1, <2>2, <2>3, <2>4
<1>8. ASSUME Head(l) = "livez" PROVE Cardinality(Behind(t, {"staleLivez"}, 0)) = 0
  <2>1. \A k \in 1..n : k > 1 => l[k] # "staleLivez"
    <3>1. 1 \in DOMAIN l /\ l[1] = "livez"
      BY <1>1, <1>2, <1>8
    <3>2. \A k \in DOMAIN l : 1 < k => l[k] \notin LivezKinds
      BY <3>1 DEF PodLine
    <3> QED BY <1>1, <3>2 DEF LivezKinds
  <2>2. Behind(t, {"staleLivez"}, 0) = {}
    <3>1. \A k \in 1..(n - 1) : k + 1 \in 1..n /\ k + 1 > 1
      BY <1>1
    <3> QED BY <1>2, <2>1, <3>1 DEF Behind
  <2> QED BY <2>2, FS_EmptySet
<1>9. 0 \in 0..(LivenessThreshold - 1)
  BY PodAssumption
<1> QED BY <1>2, <1>5, <1>6, <1>7, <1>8, <1>9 DEF PodLine, t

(* A probe that the kubelet has given up on keeps its place.               *)
LEMMA ProbeAbandoned ==
  ASSUME NEW l, NEW since, NEW failures, PodLine(l, since, failures),
         NEW kind \in {"livez", "readyz"},
         NEW a, a = [k \in DOMAIN l |->
                       IF l[k] = kind
                       THEN IF kind = "livez" THEN "staleLivez" ELSE "staleReadyz"
                       ELSE l[k]]
  PROVE  /\ kind = "readyz" => PodLine(a, since, failures)
         /\ kind = "livez" /\ failures + 1 < LivenessThreshold => PodLine(a, since, failures + 1)
<1> DEFINE n == Len(l)
           S == Behind(l, {"staleLivez"}, 0)
           T == Behind(a, {"staleLivez"}, 0)
<1>1. l \in Seq(Kinds) /\ n \in Nat /\ DOMAIN l = 1..n /\ \A k \in 1..n : l[k] \in Kinds
  BY DEF PodLine
<1>2. \A k \in 1..n :
        a[k] = IF l[k] = kind THEN IF kind = "livez" THEN "staleLivez" ELSE "staleReadyz"
               ELSE l[k]
  BY <1>1
<1>3. a \in Seq(Kinds) /\ DOMAIN a = 1..n /\ Len(a) = n
  <2>1. a \in [1..n -> Kinds]
    BY <1>1 DEF Kinds
  <2>2. a \in Seq(Kinds)
    BY <1>1, <2>1
  <2> QED BY <1>1, <2>1, <2>2
<1> HIDE DEF n
<1>4. \A k \in 1..n : /\ a[k] \in ReadyzKinds <=> l[k] \in ReadyzKinds
                      /\ a[k] \in LivezKinds <=> l[k] \in LivezKinds
                      /\ a[k] = "livez" => l[k] = "livez"
                      /\ a[k] = "readyz" => l[k] = "readyz"
  BY <1>1, <1>2 DEF Kinds, ReadyzKinds, LivezKinds
<1>5. \A m : /\ Behind(a, ReadyzKinds, m) = Behind(l, ReadyzKinds, m)
             /\ Behind(a, LivezKinds, m) = Behind(l, LivezKinds, m)
  BY <1>1, <1>3, <1>4 DEF Behind
<1>6. \A j, k \in DOMAIN a : j < k =>
        /\ a[j] = "livez" => a[k] \notin LivezKinds
        /\ a[j] = "readyz" => a[k] \notin ReadyzKinds
  BY <1>1, <1>3, <1>4 DEF PodLine
<1>7. \A m \in 0..Len(a) :
        Cardinality(Behind(a, ReadyzKinds, m))
          <= ReadyzPerLivez * Cardinality(Behind(a, LivezKinds, m)) + since
  <2> SUFFICES ASSUME NEW m \in 0..Len(a)
               PROVE  Cardinality(Behind(a, ReadyzKinds, m))
                        <= ReadyzPerLivez * Cardinality(Behind(a, LivezKinds, m)) + since
    OBVIOUS
  <2>1. m \in 0..Len(l)
    BY <1>3 DEF n
  <2>2. Cardinality(Behind(l, ReadyzKinds, m))
          <= ReadyzPerLivez * Cardinality(Behind(l, LivezKinds, m)) + since
    BY <2>1 DEF PodLine
  <2> QED BY <1>5, <2>2
<1>8. /\ IsFiniteSet(S) /\ Cardinality(S) \in Nat /\ IsFiniteSet(T) /\ Cardinality(T) \in Nat
      /\ failures \in Nat /\ Cardinality(S) <= failures
  <2>1. failures \in Nat /\ Cardinality(S) <= failures
    BY PodAssumption DEF PodLine
  <2> QED BY <1>1, <1>3, <2>1, BehindFinite
<1>9. CASE kind = "readyz"
  <2>1. T = S
    BY <1>1, <1>2, <1>3, <1>9 DEF Behind
  <2> QED BY <1>3, <1>6, <1>7, <1>8, <1>9, <2>1 DEF PodLine
<1>10. CASE kind = "livez"
  <2>1. Cardinality(T) <= Cardinality(S) + 1
    <3>1. CASE \E p \in 1..n : l[p] = "livez"
      <4> PICK p \in 1..n : l[p] = "livez"
        BY <3>1
      <4>1. \A q \in 1..n : l[q] = "livez" => q = p
        <5>1. \A j, k \in 1..n : j < k => (l[j] = "livez" => l[k] # "livez")
          BY <1>1 DEF PodLine, LivezKinds
        <5>2. \A q \in 1..n : q < p \/ q = p \/ p < q
          BY <1>1
        <5> QED BY <5>1, <5>2
      <4>2. T \in SUBSET (S \cup {p})
        BY <1>1, <1>2, <1>3, <1>10, <4>1 DEF Behind
      <4> HIDE DEF S, T
      <4>3. IsFiniteSet(S \cup {p})
            /\ Cardinality(S \cup {p}) = IF p \in S THEN Cardinality(S) ELSE Cardinality(S) + 1
        BY <1>8, FS_AddElement
      <4>4. Cardinality(T) <= Cardinality(S \cup {p})
        BY <4>2, <4>3, FS_Subset
      <4> QED BY <1>8, <4>3, <4>4
    <3>2. CASE ~\E p \in 1..n : l[p] = "livez"
      <4>1. T = S
        BY <1>1, <1>2, <1>3, <1>10, <3>2 DEF Behind
      <4> QED BY <1>8, <4>1
    <3> QED BY <3>1, <3>2
  <2>2. ASSUME failures + 1 < LivenessThreshold
        PROVE  failures + 1 \in 0..(LivenessThreshold - 1) /\ Cardinality(T) <= failures + 1
    <3> HIDE DEF S, T
    <3> QED BY <1>8, <2>1, <2>2, PodAssumption
  <2>3. since \in 0..ReadyzPerLivez
    BY DEF PodLine
  <2> QED BY <1>3, <1>6, <1>7, <1>10, <2>2, <2>3 DEF PodLine
<1> QED BY <1>9, <1>10

LEMMA NothingInLine == PodLine(<<>>, 0, 0)
<1> DEFINE e == <<>>
<1>1. e \in Seq(Kinds) /\ Len(e) = 0 /\ DOMAIN e = {}
  OBVIOUS
<1>2. \A kinds : \A m \in Nat : Cardinality(Behind(e, kinds, m)) = 0
  <2>1. \A kinds : \A m \in Nat : Behind(e, kinds, m) = {}
    BY <1>1 DEF Behind
  <2> QED BY <2>1, FS_EmptySet
<1>3. \A m \in 0..Len(e) :
        Cardinality(Behind(e, ReadyzKinds, m))
          <= ReadyzPerLivez * Cardinality(Behind(e, LivezKinds, m)) + 0
  BY <1>1, <1>2, PodAssumption
<1>4. 0 \in 0..ReadyzPerLivez /\ 0 \in 0..(LivenessThreshold - 1)
  BY PodAssumption
<1>5. Cardinality(Behind(e, {"staleLivez"}, 0)) <= 0
  BY <1>2
<1>6. \A j, k \in DOMAIN e : j < k =>
        /\ e[j] = "livez" => e[k] \notin LivezKinds
        /\ e[j] = "readyz" => e[k] \notin ReadyzKinds
  BY <1>1
<1> HIDE DEF e
<1>7. PodLine(e, 0, 0)
  BY <1>1, <1>3, <1>4, <1>5, <1>6 DEF PodLine
<1> QED BY <1>7 DEF e

LEMMA PodParts == PodInvariant => PodThreads /\ PodResult
BY DEF PodInvariant, PodTypeOK, PodThreads, PodResult

(* The kubelet notes what a readiness probe came to.                       *)
LEMMA ResultKeeps ==
  ASSUME PodInvariant, NEW ok \in BOOLEAN, ReadyzResult(ok)
  PROVE  UNCHANGED <<livezFailures, sinceLivez>> /\ PodResult'
<1>1. /\ readyzFailures \in 0..ReadinessThreshold /\ inService \in BOOLEAN
      /\ inService => readyzFailures < ReadinessThreshold
  BY PodParts DEF PodResult
<1> QED BY <1>1, PodAssumption DEF ReadyzResult, PodResult

(* Threads are taken and given back; the line stays as it is.              *)
LEMMA ThreadsKeep ==
  ASSUME PodInvariant,
         Health \/ EndCall \/ GiveUpCall \/ EndLingering \/ CheckFails \/ CheckPrimary
           \/ CheckFallback \/ UNCHANGED podVars
  PROVE  PodThreads' /\ PodResult' /\ UNCHANGED <<line, livezFailures, sinceLivez>>
<1> USE DEF Backends, kubelet, pool, podVars
<1>t. /\ health \in [Backends -> {"up", "down", "hung", "odd"}]
      /\ calls \in Nat /\ lingering \in Nat /\ PoolSize \in Nat
      /\ checking \in Backends \cup {"none"} /\ primaryReady \in BOOLEAN
      /\ Taken <= PoolSize
      /\ PodResult
  BY PodParts, PodAssumption DEF PodThreads
<1>1. CASE Health
  BY <1>t, <1>1 DEF Health, PodThreads, PodResult, Taken
<1>2. CASE EndCall \/ GiveUpCall \/ EndLingering
  BY <1>t, <1>2 DEF EndCall, GiveUpCall, EndLingering, PodThreads, PodResult, Taken
<1>3. CASE CheckFails
  <2>1. UNCHANGED <<livezFailures, sinceLivez>> /\ PodResult'
    BY <1>3, ResultKeeps DEF CheckFails
  <2> QED BY <1>t, <1>3, <2>1 DEF CheckFails, PodThreads, Taken
<1>4. CASE CheckPrimary
  <2>1. /\ primaryReady' \in BOOLEAN /\ checking = "primary" /\ checking' = "fallback"
        /\ UNCHANGED <<health, line, calls, lingering, kubelet>>
    BY <1>4 DEF CheckPrimary
  <2> QED BY <1>t, <2>1 DEF PodThreads, PodResult, Taken
<1>5. CASE CheckFallback
  <2>1. ServiceReady \in BOOLEAN
    BY <1>t DEF ServiceReady
  <2>2. ReadyzResult(ServiceReady)
    BY <1>5 DEF CheckFallback
  <2>3. UNCHANGED <<livezFailures, sinceLivez>> /\ PodResult'
    BY <2>1, <2>2, ResultKeeps
  <2>4. checking' = "none" /\ UNCHANGED <<health, line, calls, lingering, primaryReady>>
    BY <1>5 DEF CheckFallback
  <2> QED BY <1>t, <2>3, <2>4 DEF PodThreads, Taken
<1>6. CASE UNCHANGED podVars
  BY <1>t, <1>6 DEF PodThreads, PodResult, Taken
<1> QED BY <1>1, <1>2, <1>3, <1>4, <1>5, <1>6

LEMMA PodStepKeeps ==
  ASSUME PodInvariant, [PodNext]_podVars
  PROVE  PodInvariant'
<1> USE DEF kubelet
<1>t. /\ health \in [Backends -> {"up", "down", "hung", "odd"}]
      /\ calls \in Nat /\ lingering \in Nat /\ PoolSize \in Nat
      /\ checking \in Backends \cup {"none"} /\ primaryReady \in BOOLEAN
      /\ Taken <= PoolSize
      /\ PodResult /\ PodThreads
  BY PodParts, PodAssumption DEF PodThreads
<1>l. PodLine(line, sinceLivez, livezFailures)
  BY LineOfPod
<1>1. CASE Call
  <2>1. line' = Append(line, "call") /\ UNCHANGED <<health, calls, lingering, checking,
                                                    primaryReady, kubelet>>
    BY <1>1 DEF Call
  <2>2. PodLine(line', sinceLivez', livezFailures')
    BY <1>l, <2>1, CallJoins
  <2>3. PodThreads' /\ PodResult'
    BY <1>t, <2>1 DEF PodThreads, PodResult, Taken
  <2> QED BY <2>2, <2>3, PodOfLine
<1>2. ASSUME NEW kind \in {"livez", "readyz"}, Probe(kind) PROVE PodInvariant'
  <2>1. /\ line' = Append(line, kind) /\ \A k \in DOMAIN line : line[k] # kind
        /\ kind = "readyz" => sinceLivez < ReadyzPerLivez
        /\ sinceLivez' = IF kind = "livez" THEN 0 ELSE sinceLivez + 1
        /\ UNCHANGED <<health, calls, lingering, checking, primaryReady,
                       livezFailures, readyzFailures, inService>>
    BY <1>2 DEF Probe, Waits, Paced
  <2>2. PodLine(line', sinceLivez', livezFailures')
    BY <1>l, <2>1, ProbeJoins
  <2>3. PodThreads' /\ PodResult'
    BY <1>t, <2>1 DEF PodThreads, PodResult, Taken
  <2> QED BY <2>2, <2>3, PodOfLine
<1>3. CASE Enter
  <2>1. line # <<>> /\ line' = Tail(line) /\ ~Full /\ UNCHANGED <<health, primaryReady>>
    BY <1>3 DEF Enter
  <2>2. Taken < PoolSize
    BY <1>t, <2>1 DEF Full, Taken
  <2>3. PodLine(line', sinceLivez, livezFailures)
        /\ (Head(line) = "livez" => PodLine(line', sinceLivez, 0))
    BY <1>l, <2>1, FirstLeaves
  <2>4. CASE Head(line) = "livez" /\ Livez
    <3>1. PodLine(line', sinceLivez', livezFailures')
      BY <2>3, <2>4 DEF Livez
    <3>2. PodThreads' /\ PodResult'
      BY <1>t, <2>1, <2>4 DEF Livez, PodThreads, PodResult, Taken
    <3> QED BY <3>1, <3>2, PodOfLine
  <2>5. CASE Head(line) = "staleLivez" /\ UNCHANGED <<calls, lingering, checking, kubelet>>
    <3>1. PodLine(line', sinceLivez', livezFailures')
      BY <2>3, <2>5
    <3>2. PodThreads' /\ PodResult'
      BY <1>t, <2>1, <2>5 DEF PodThreads, PodResult, Taken
    <3> QED BY <3>1, <3>2, PodOfLine
  <2>6. CASE Head(line) = "readyz" /\ checking' = "primary" /\ UNCHANGED <<calls, lingering, kubelet>>
    <3>1. PodLine(line', sinceLivez', livezFailures')
      BY <2>3, <2>6
    <3>2. Taken' <= PoolSize /\ checking' \in Backends \cup {"none"}
      BY <1>t, <2>2, <2>6 DEF Taken, Backends
    <3>3. PodThreads' /\ PodResult'
      BY <1>t, <2>1, <2>6, <3>2 DEF PodThreads, PodResult
    <3> QED BY <3>1, <3>3, PodOfLine
  <2>7. CASE Head(line) = "staleReadyz" /\ lingering' = lingering + 1
             /\ UNCHANGED <<calls, checking, kubelet>>
    <3>1. PodLine(line', sinceLivez', livezFailures')
      BY <2>3, <2>7
    <3>2. PodThreads' /\ PodResult'
      BY <1>t, <2>1, <2>2, <2>7 DEF PodThreads, PodResult, Taken
    <3> QED BY <3>1, <3>2, PodOfLine
  <2>8. CASE Head(line) = "call" /\ calls' = calls + 1
             /\ UNCHANGED <<lingering, checking, kubelet>>
    <3>1. PodLine(line', sinceLivez', livezFailures')
      BY <2>3, <2>8
    <3>2. PodThreads' /\ PodResult'
      BY <1>t, <2>1, <2>2, <2>8 DEF PodThreads, PodResult, Taken
    <3> QED BY <3>1, <3>2, PodOfLine
  <2> QED BY <1>3, <2>4, <2>5, <2>6, <2>7, <2>8 DEF Enter
<1>4. CASE ReadyzStarves
  <2>1. /\ Abandon("readyz") /\ ReadyzResult(FALSE)
        /\ UNCHANGED <<health, calls, lingering, checking, primaryReady>>
    BY <1>4 DEF ReadyzStarves
  <2>2. UNCHANGED <<livezFailures, sinceLivez>> /\ PodResult'
    BY <2>1, ResultKeeps
  <2>3. PodLine(line', sinceLivez', livezFailures')
    <3>1. line' = [k \in DOMAIN line |-> IF line[k] = "readyz"
                                         THEN IF "readyz" = "livez" THEN "staleLivez" ELSE "staleReadyz"
                                         ELSE line[k]]
      BY <2>1 DEF Abandon
    <3> QED BY <1>l, <2>2, <3>1, ProbeAbandoned
  <2>4. PodThreads'
    BY <1>t, <2>1 DEF PodThreads, Taken
  <2> QED BY <2>2, <2>3, <2>4, PodOfLine
<1>5. CASE LivezStarves
  <2>1. /\ Abandon("livez") /\ livezFailures + 1 < LivenessThreshold
        /\ livezFailures' = livezFailures + 1
        /\ UNCHANGED <<health, calls, lingering, checking, primaryReady,
                       readyzFailures, inService, sinceLivez>>
    BY <1>5 DEF LivezStarves
  <2>2. PodLine(line', sinceLivez', livezFailures')
    <3>1. line' = [k \in DOMAIN line |-> IF line[k] = "livez"
                                         THEN IF "livez" = "livez" THEN "staleLivez" ELSE "staleReadyz"
                                         ELSE line[k]]
      BY <2>1 DEF Abandon
    <3> QED BY <1>l, <2>1, <3>1, ProbeAbandoned
  <2>3. PodThreads' /\ PodResult'
    BY <1>t, <2>1 DEF PodThreads, PodResult, Taken
  <2> QED BY <2>2, <2>3, PodOfLine
<1>6. CASE Restart
  <2>1. /\ line' = <<>> /\ calls' = 0 /\ lingering' = 0 /\ checking' = "none"
        /\ livezFailures' = 0 /\ readyzFailures' = 0 /\ inService' = FALSE /\ sinceLivez' = 0
        /\ UNCHANGED <<health, primaryReady>>
    BY <1>6 DEF Restart
  <2>2. PodLine(line', sinceLivez', livezFailures')
    BY <2>1, NothingInLine
  <2>3. Taken' = 0
    BY <2>1 DEF Taken
  <2>4. Taken' <= PoolSize /\ 0 \in 0..ReadinessThreshold
    BY <2>3, PodAssumption
  <2>5. PodThreads'
    BY <1>t, <2>1, <2>4 DEF PodThreads, Backends
  <2>6. PodResult'
    BY <2>1, <2>4 DEF PodResult
  <2> QED BY <2>2, <2>5, <2>6, PodOfLine
<1>7. CASE Health \/ EndCall \/ GiveUpCall \/ EndLingering \/ CheckFails \/ CheckPrimary
             \/ CheckFallback \/ UNCHANGED podVars
  <2>1. PodThreads' /\ PodResult' /\ UNCHANGED <<line, livezFailures, sinceLivez>>
    BY <1>7, ThreadsKeep
  <2> QED BY <1>l, <2>1, PodOfLine
<1> QED BY <1>1, <1>2, <1>3, <1>4, <1>5, <1>6, <1>7 DEF PodNext, PodStep

LEMMA PodStarts == PodInit => PodInvariant
<1> SUFFICES ASSUME PodInit PROVE PodInvariant
  OBVIOUS
<1>1. PodLine(line, sinceLivez, livezFailures)
  BY NothingInLine DEF PodInit
<1>2. PodThreads /\ PodResult
  <2>1. Taken = 0 /\ PoolSize \in Nat
    BY PodAssumption DEF PodInit, Taken
  <2>2. health \in [Backends -> {"up", "down", "hung", "odd"}]
    BY DEF PodInit
  <2>3. Taken <= PoolSize
    BY <2>1, PodAssumption
  <2>4. 0 \in 0..ReadinessThreshold
    BY PodAssumption
  <2>5. PodThreads
    BY <2>2, <2>3 DEF PodInit, PodThreads
  <2>6. PodResult
    BY <2>4 DEF PodInit, PodResult
  <2> QED BY <2>5, <2>6
<1> QED BY <1>1, <1>2, PodOfLine

(* Whatever threads the pool and failures the kubelet allows: the probes   *)
(* it has given up on, which keep their places, do not pile up before a    *)
(* pool that stays full, since the restart comes before they can.          *)
THEOREM PodHolds == PodSpec => []ProbesDoNotPileUp
<1>1. PodInvariant /\ [PodNext]_podVars => PodInvariant'
  BY PodStepKeeps
<1>2. PodInvariant => ProbesDoNotPileUp
  BY DEF PodInvariant
<1> QED BY PodStarts, <1>1, <1>2, PTL DEF PodSpec

(***************************************************************************)
(* The text workload and the evaluation of its answers                     *)
(***************************************************************************)
TextInvariant == TextTypeOK /\ TextFits /\ ResponsesMatchRecords

LEMMA TextShape ==
  ASSUME TextTypeOK
  PROVE  /\ results \in Seq(Rows) /\ Len(results) \in Nat
         /\ DOMAIN results = 1..Len(results)
         /\ responses \in Seq(Rows) /\ Len(responses) \in Nat
         /\ DOMAIN responses = 1..Len(responses)
         /\ \A k \in DOMAIN results : results[k] \in Rows /\ results[k].case \in Cases
         /\ \A k \in DOMAIN responses : responses[k] \in Rows /\ responses[k].case \in Nat
<1>1. results \in Seq(Rows) /\ responses \in Seq(Rows)
  BY DEF TextTypeOK
<1>2. /\ Len(results) \in Nat /\ DOMAIN results = 1..Len(results)
      /\ Len(responses) \in Nat /\ DOMAIN responses = 1..Len(responses)
  BY <1>1
<1>3. /\ \A k \in DOMAIN results : results[k] \in Rows
      /\ \A k \in DOMAIN responses : responses[k] \in Rows
  BY <1>1
<1>4. \A row \in Rows : row.case \in Cases /\ row.case \in Nat
  BY DEF Rows, Cases
<1> QED BY <1>1, <1>2, <1>3, <1>4

(* A case is noted, in the records and in the file of responses.           *)
LEMMA NoteKeeps ==
  ASSUME TextInvariant, NEW succeeded \in BOOLEAN, Note(succeeded),
         textPc \in {"send", "poll"},
         job' \in [Cases -> {"none", "accepted", "succeeded", "failed", "expired"}],
         \A c \in Cases : c # case => job'[c] = job[c],
         succeeded => job'[case] = "succeeded"
  PROVE  TextInvariant'
<1> DEFINE n == Len(results)
           m == Len(responses)
           row == Row(succeeded)
<1> USE TextAssumption
<1>0. TextTypeOK /\ TextFits /\ ResponsesMatchRecords
  BY DEF TextInvariant
<1>1. /\ results \in Seq(Rows) /\ n \in Nat /\ DOMAIN results = 1..n
      /\ responses \in Seq(Rows) /\ m \in Nat /\ DOMAIN responses = 1..m
  BY <1>0, TextShape
<1>2. /\ case \in Cases /\ n = case - 1 /\ run \in 1..MaxRuns
  BY <1>0 DEF TextTypeOK, TextFits, Cases
<1>3. /\ row \in Rows /\ row.case = n + 1 /\ row.run = run /\ row.succeeded = succeeded
      /\ row.case = case
  BY <1>1, <1>2 DEF Row, Rows, Cases
<1>4. /\ results' = Append(results, row)
      /\ responses' = (IF case \in Functional THEN Append(responses, row) ELSE responses)
      /\ case' = case + 1 /\ textPc' = (IF case = NumCases THEN "write" ELSE "send")
      /\ UNCHANGED <<mode, run, evidence>>
  BY DEF Note
<1> HIDE DEF row, n, m
<1>5. /\ results' \in Seq(Rows) /\ Len(results') = n + 1 /\ DOMAIN results' = 1..(n + 1)
      /\ \A k \in 1..n : results'[k] = results[k]
      /\ results'[n + 1] = row
  <2>1. n = Len(results)
    BY DEF n
  <2> QED BY <1>1, <1>3, <1>4, <2>1, AppendProperties
<1>6. /\ responses' \in Seq(Rows)
      /\ case \in Functional =>
           /\ DOMAIN responses' = 1..(m + 1)
           /\ \A k \in 1..m : responses'[k] = responses[k]
           /\ responses'[m + 1] = row
      /\ case \notin Functional => responses' = responses
  <2>1. m = Len(responses)
    BY DEF m
  <2>2. CASE case \in Functional
    <3>1. responses' = Append(responses, row)
      BY <1>4, <2>2
    <3>2. /\ responses' \in Seq(Rows) /\ Len(responses') = m + 1
          /\ \A k \in 1..m : responses'[k] = responses[k]
          /\ responses'[m + 1] = row
      BY <1>1, <1>3, <2>1, <3>1, AppendProperties
    <3>3. DOMAIN responses' = 1..(m + 1)
      BY <3>2
    <3> QED BY <2>2, <3>2, <3>3
  <2>3. CASE case \notin Functional
    BY <1>1, <1>4, <2>3
  <2> QED BY <2>2, <2>3
<1>7. /\ \A k \in 1..(n + 1) : k \in 1..n \/ k = n + 1
      /\ \A k \in 1..(m + 1) : k \in 1..m \/ k = m + 1
      /\ n + 1 \in 1..(n + 1) /\ m + 1 \in 1..(m + 1)
      /\ \A k \in 1..n : k \in 1..(n + 1)
      /\ \A k \in 1..m : k \in 1..(m + 1) /\ k < m + 1
  BY <1>1
<1>r. \A k \in DOMAIN responses' :
        \/ k \in 1..m /\ responses'[k] = responses[k]
        \/ responses'[k] = row /\ case \in Functional /\ k = m + 1
  <2> SUFFICES ASSUME NEW k \in DOMAIN responses'
               PROVE  \/ k \in 1..m /\ responses'[k] = responses[k]
                      \/ responses'[k] = row /\ case \in Functional /\ k = m + 1
    OBVIOUS
  <2>1. CASE case \in Functional
    <3>1. k \in 1..m \/ k = m + 1
      BY <1>6, <1>7, <2>1
    <3> QED BY <1>6, <2>1, <3>1
  <2>2. CASE case \notin Functional
    <3>1. DOMAIN responses' = 1..m /\ responses' = responses
      BY <1>1, <1>6, <2>2
    <3> QED BY <3>1
  <2> QED BY <2>1, <2>2
<1>8. TextTypeOK'
  <2>1. /\ mode \in {"generate", "jobs"} /\ run \in 0..MaxRuns
        /\ evidence \in [records : Seq(Rows), succeeded : Nat, failed : Nat]
    BY <1>0 DEF TextTypeOK
  <2>2. case' \in 1..(NumCases + 1)
    BY <1>2, <1>4 DEF Cases
  <2>3. textPc' \in {"idle", "send", "poll", "write", "done"}
    BY <1>4
  <2> QED BY <1>4, <1>5, <1>6, <2>1, <2>2, <2>3 DEF TextTypeOK
<1>9. TextFits'
  <2>1. \A k \in 1..(n + 1) : results'[k].case = k /\ results'[k].run = run
    <3>1. \A k \in 1..n : results[k].case = k /\ results[k].run = run
      BY <1>0, <1>1 DEF TextFits
    <3> QED BY <1>3, <1>5, <1>7, <3>1
  <2>2. run > 0 /\ n + 1 = case' - 1
    BY <1>2, <1>4 DEF Cases
  <2>3. textPc' = "send" => case' <= NumCases
    BY <1>2, <1>4 DEF Cases
  <2>4. textPc' = "write" => case' = NumCases + 1
    BY <1>4
  <2>5. textPc' \in {"send", "write"}
    BY <1>4
  <2>6. \A k \in DOMAIN responses' : responses'[k].run <= run
    <3>1. \A k \in 1..m : responses[k].run <= run
      BY <1>0, <1>1 DEF TextFits
    <3>2. row.run <= run
      BY <1>2, <1>3
    <3> QED BY <1>r, <3>1, <3>2
  <2> QED BY <1>4, <1>5, <2>1, <2>2, <2>3, <2>4, <2>5, <2>6 DEF TextFits
<1>10. ResponsesMatchRecords'
  <2>1. \A k \in 1..(n + 1) :
          results'[k].succeeded => job'[results'[k].case] \in {"succeeded", "expired"}
    <3> SUFFICES ASSUME NEW k \in 1..(n + 1), results'[k].succeeded
                 PROVE  job'[results'[k].case] \in {"succeeded", "expired"}
      OBVIOUS
    <3>1. CASE k \in 1..n
      <4>1. results[k].case = k /\ results[k].succeeded
              /\ job[results[k].case] \in {"succeeded", "expired"}
        BY <1>0, <1>1, <1>5, <3>1 DEF TextFits, ResponsesMatchRecords
      <4>2. k \in Cases /\ k # case
        BY <1>1, <1>2, <3>1 DEF Cases
      <4> QED BY <1>5, <3>1, <4>1, <4>2
    <3>2. CASE k = n + 1
      BY <1>3, <1>5, <3>2
    <3> QED BY <1>7, <3>1, <3>2
  <2> DEFINE Ours == {l \in DOMAIN responses : responses[l].run = run}
             Noted == {d \in DOMAIN results : d \in Functional}
  <2>2. {responses[k] : k \in Ours} = {results[c] : c \in Noted}
    BY <1>0 DEF ResponsesMatchRecords
  <2>3. \A l \in 1..m : responses[l].run = run => responses[l].case < row.case
    <3> SUFFICES ASSUME NEW l \in 1..m, responses[l].run = run
                 PROVE  responses[l].case < row.case
      OBVIOUS
    <3>1. l \in Ours
      BY <1>1
    <3>2. PICK c \in Noted : responses[l] = results[c]
      BY <2>2, <3>1
    <3>3. c \in 1..n /\ results[c].case = c
      BY <1>0, <1>1 DEF TextFits
    <3> QED BY <1>1, <1>3, <3>2, <3>3
  <2>4. \A j, k \in DOMAIN responses' : j < k =>
          \/ responses'[j].run < responses'[k].run
          \/ responses'[j].run = responses'[k].run /\ responses'[j].case < responses'[k].case
    <3> SUFFICES ASSUME NEW j \in DOMAIN responses', NEW k \in DOMAIN responses', j < k
                 PROVE  \/ responses'[j].run < responses'[k].run
                        \/ /\ responses'[j].run = responses'[k].run
                           /\ responses'[j].case < responses'[k].case
      OBVIOUS
    <3>1. CASE k \in 1..m /\ responses'[k] = responses[k]
      <4>1. j \in 1..m /\ responses'[j] = responses[j]
        BY <1>1, <1>r, <3>1
      <4> QED BY <1>0, <1>1, <3>1, <4>1 DEF ResponsesMatchRecords
    <3>2. CASE responses'[k] = row /\ k = m + 1
      <4>1. j \in 1..m /\ responses'[j] = responses[j]
        BY <1>1, <1>r, <3>2
      <4>2. responses[j].run <= run /\ responses[j].run \in Nat
        <5>1. responses[j] \in Rows
          BY <1>1, <4>1
        <5> QED BY <1>0, <1>1, <4>1, <5>1 DEF TextFits, Rows
      <4>3. run \in Nat
        BY <1>2
      <4>4. responses[j].run < run \/ responses[j].run = run
        BY <4>2, <4>3
      <4> QED BY <1>3, <2>3, <3>2, <4>1, <4>4
    <3> QED BY <1>r, <3>1, <3>2
  <2>5. {responses'[k] : k \in {l \in DOMAIN responses' : responses'[l].run = run}}
          = {results'[c] : c \in {d \in DOMAIN results' : d \in Functional}}
    <3>1. CASE case \in Functional
      <4>1. {l \in DOMAIN responses' : responses'[l].run = run} = Ours \cup {m + 1}
        BY <1>1, <1>3, <1>6, <1>7, <3>1
      <4>2. {d \in DOMAIN results' : d \in Functional} = Noted \cup {n + 1}
        BY <1>1, <1>3, <1>5, <1>7, <3>1
      <4>3. \A l \in Ours : responses'[l] = responses[l]
        BY <1>1, <1>6, <3>1
      <4>4. \A c \in Noted : results'[c] = results[c]
        BY <1>1, <1>5
      <4>5. responses'[m + 1] = row /\ results'[n + 1] = row
        BY <1>5, <1>6, <3>1
      <4> HIDE DEF Ours, Noted
      <4>6. {responses'[k] : k \in Ours \cup {m + 1}} = {responses[k] : k \in Ours} \cup {row}
        BY <4>3, <4>5
      <4>7. {results'[c] : c \in Noted \cup {n + 1}} = {results[c] : c \in Noted} \cup {row}
        BY <4>4, <4>5
      <4> QED BY <2>2, <4>1, <4>2, <4>6, <4>7
    <3>2. CASE case \notin Functional
      <4>1. {d \in DOMAIN results' : d \in Functional} = Noted
        BY <1>1, <1>3, <1>5, <1>7, <3>2
      <4>2. \A c \in Noted : results'[c] = results[c]
        BY <1>1, <1>5
      <4> QED BY <1>6, <2>2, <3>2, <4>1, <4>2
    <3> QED BY <3>1, <3>2
  <2>6. run' = run
    BY <1>4
  <2> QED BY <1>5, <2>1, <2>4, <2>5, <2>6 DEF ResponsesMatchRecords
<1> QED BY <1>8, <1>9, <1>10 DEF TextInvariant

LEMMA TextStepKeeps ==
  ASSUME TextInvariant, TextNext
  PROVE  TextInvariant'
<1> USE TextAssumption
<1>0. TextTypeOK /\ TextFits /\ ResponsesMatchRecords
  BY DEF TextInvariant
<1>t. /\ mode \in {"generate", "jobs"} /\ run \in 0..MaxRuns
      /\ textPc \in {"idle", "send", "poll", "write", "done"}
      /\ case \in 1..(NumCases + 1)
      /\ job \in [Cases -> {"none", "accepted", "succeeded", "failed", "expired"}]
      /\ evidence \in [records : Seq(Rows), succeeded : Nat, failed : Nat]
  BY <1>0 DEF TextTypeOK
<1>s. results \in Seq(Rows) /\ responses \in Seq(Rows)
  BY <1>0, TextShape
<1>c. textPc \in {"send", "poll"} => case \in Cases
  BY <1>0, <1>t DEF TextFits, Cases
<1>e. <<>> \in Seq(Rows) /\ Len(<<>>) = 0 /\ DOMAIN <<>> = {}
  OBVIOUS
<1>1. CASE StartRun
  <2>0. /\ run < MaxRuns /\ run' = run + 1 /\ textPc' = "send" /\ case' = 1
        /\ results' = <<>> /\ job' = [c \in Cases |-> "none"]
        /\ UNCHANGED <<mode, responses, evidence>>
    BY <1>1 DEF StartRun
  <2>1. results' \in Seq(Rows) /\ Len(results') = 0 /\ DOMAIN results' = {}
    BY <1>e, <2>0
  <2>2. TextTypeOK'
    <3>1. run' \in 0..MaxRuns /\ case' \in 1..(NumCases + 1)
      BY <1>t, <2>0
    <3>2. job' \in [Cases -> {"none", "accepted", "succeeded", "failed", "expired"}]
      BY <2>0
    <3> QED BY <1>t, <1>s, <2>0, <2>1, <3>1, <3>2 DEF TextTypeOK
  <2>5. \A k \in DOMAIN responses :
          responses[k].run <= run' /\ responses[k].run \in Nat /\ responses[k].run # run'
    <3>1. \A k \in DOMAIN responses : responses[k] \in Rows /\ responses[k].run <= run
      BY <1>0, TextShape DEF TextFits
    <3> QED BY <1>t, <2>0, <3>1 DEF Rows
  <2>3. TextFits'
    BY <1>t, <2>0, <2>1, <2>5 DEF TextFits
  <2>4. ResponsesMatchRecords'
    <3>1. /\ {l \in DOMAIN responses' : responses'[l].run = run'} = {}
          /\ {d \in DOMAIN results' : d \in Functional} = {}
      BY <2>0, <2>1, <2>5
    <3> QED BY <1>0, <2>0, <2>1, <3>1 DEF ResponsesMatchRecords
  <2> QED BY <2>2, <2>3, <2>4 DEF TextInvariant
<1>2. CASE Generate
  <2>1. textPc = "send"
    BY <1>2 DEF Generate
  <2>2. CASE job' = [job EXCEPT ![case] = "succeeded"] /\ Note(TRUE)
    BY <1>t, <1>c, <2>1, <2>2, NoteKeeps
  <2>3. CASE /\ job' \in {job, [job EXCEPT ![case] = "failed"], [job EXCEPT ![case] = "succeeded"]}
             /\ Note(FALSE)
    BY <1>t, <1>c, <2>1, <2>3, NoteKeeps
  <2> QED BY <1>2, <2>2, <2>3, Zenon DEF Generate
<1>3. CASE SubmitJob
  <2>1. textPc = "send"
    BY <1>3 DEF SubmitJob
  <2>2. CASE /\ job' = [job EXCEPT ![case] = "accepted"] /\ textPc' = "poll"
             /\ UNCHANGED <<mode, run, case, results, responses, evidence>>
    <3>1. TextTypeOK'
      BY <1>t, <1>s, <2>2 DEF TextTypeOK
    <3>2. TextFits'
      BY <1>0, <2>1, <2>2 DEF TextFits
    <3>3. ResponsesMatchRecords'
      <4>1. \A k \in DOMAIN results : results[k].case # case
        <5>1. Len(results) = case - 1
          BY <1>0, <2>1 DEF TextFits
        <5>2. \A k \in DOMAIN results : results[k].case = k
          BY <1>0 DEF TextFits
        <5>3. \A k \in 1..Len(results) : k # case
          BY <1>t, <5>1
        <5> QED BY <1>0, TextShape, <5>2, <5>3
      <4>2. \A k \in DOMAIN results : results[k].case \in Cases
        BY <1>0, TextShape
      <4>3. \A k \in DOMAIN results' :
              results'[k].succeeded => job'[results'[k].case] \in {"succeeded", "expired"}
        BY <1>0, <1>t, <2>2, <4>1, <4>2 DEF ResponsesMatchRecords
      <4> QED BY <1>0, <2>1, <2>2, <4>3 DEF ResponsesMatchRecords
    <3> QED BY <3>1, <3>2, <3>3 DEF TextInvariant
  <2>3. CASE job' \in {job, [job EXCEPT ![case] = "accepted"]} /\ Note(FALSE)
    BY <1>t, <1>c, <2>1, <2>3, NoteKeeps
  <2> QED BY <1>3, <2>2, <2>3, Zenon DEF SubmitJob
<1>4. CASE Poll
  <2>1. textPc = "poll" /\ Note(job[case] = "succeeded") /\ UNCHANGED job
    BY <1>4, Zenon DEF Poll
  <2>2. PICK succeeded \in BOOLEAN : Note(succeeded) /\ (succeeded => job[case] = "succeeded")
    BY <2>1, Zenon
  <2> QED BY <1>t, <1>c, <2>1, <2>2, NoteKeeps
<1>5. CASE GiveUp
  BY <1>t, <1>c, <1>5, NoteKeeps DEF GiveUp
<1>6. CASE WriteEvidence
  <2>0. /\ textPc = "write" /\ textPc' = "done"
        /\ UNCHANGED <<mode, run, case, job, results, responses>>
        /\ evidence' = [records |-> results,
                        succeeded |-> Cardinality(Succeeding(results)),
                        failed |-> Cardinality(DOMAIN results \ Succeeding(results))]
    BY <1>6 DEF WriteEvidence
  <2>1. /\ Cardinality(Succeeding(results)) \in Nat
        /\ Cardinality(DOMAIN results \ Succeeding(results)) \in Nat
    <3>1. IsFiniteSet(DOMAIN results)
      <4>1. DOMAIN results = 1..Len(results) /\ 1 \in Int /\ Len(results) \in Int
        BY <1>0, TextShape
      <4> QED BY <4>1, FS_Interval
    <3> QED BY <3>1, FS_Subset, FS_CardinalityType DEF Succeeding
  <2>2. evidence' \in [records : Seq(Rows), succeeded : Nat, failed : Nat]
    BY <1>s, <2>0, <2>1
  <2>3. TextTypeOK'
    BY <1>t, <1>s, <2>0, <2>2 DEF TextTypeOK
  <2>4. TextFits'
    BY <1>0, <2>0 DEF TextFits
  <2>5. ResponsesMatchRecords'
    BY <1>0, <2>0 DEF ResponsesMatchRecords
  <2> QED BY <2>3, <2>4, <2>5 DEF TextInvariant
<1>7. CASE MissingDocument \/ Kill
  <2>0. /\ textPc' = "idle" /\ results' = <<>>
        /\ UNCHANGED <<mode, run, case, job, responses, evidence>>
    BY <1>7 DEF MissingDocument, Kill
  <2>1. results' \in Seq(Rows) /\ Len(results') = 0 /\ DOMAIN results' = {}
    BY <1>e, <2>0
  <2>2. TextTypeOK'
    BY <1>t, <1>s, <2>0, <2>1 DEF TextTypeOK
  <2>3. TextFits'
    BY <1>0, <2>0, <2>1 DEF TextFits
  <2>4. ResponsesMatchRecords'
    BY <1>0, <2>0, <2>1 DEF ResponsesMatchRecords
  <2> QED BY <2>2, <2>3, <2>4 DEF TextInvariant
<1>8. ASSUME NEW c \in Cases, Serve(c) PROVE TextInvariant'
  <2>0. UNCHANGED <<mode, run, textPc, case, results, responses, evidence>>
    BY <1>8 DEF Serve, script
  <2>1. /\ job' \in [Cases -> {"none", "accepted", "succeeded", "failed", "expired"}]
        /\ \A d \in Cases : job[d] \in {"succeeded", "expired"}
                              => job'[d] \in {"succeeded", "expired"} \/ job'[d] = job[d]
        /\ \A d \in Cases : job[d] = "succeeded" => job'[d] \in {"succeeded", "expired"}
    BY <1>t, <1>8 DEF Serve
  <2>2. TextTypeOK'
    BY <1>t, <1>s, <2>0, <2>1 DEF TextTypeOK
  <2>3. TextFits'
    BY <1>0, <2>0 DEF TextFits
  <2>4. ResponsesMatchRecords'
    <3>1. \A k \in DOMAIN results : results[k].case \in Cases
      BY <1>0, TextShape
    <3>2. \A k \in DOMAIN results' :
            results'[k].succeeded => job'[results'[k].case] \in {"succeeded", "expired"}
      BY <1>0, <2>0, <2>1, <3>1 DEF ResponsesMatchRecords
    <3> QED BY <1>0, <2>0, <3>2 DEF ResponsesMatchRecords
  <2> QED BY <2>2, <2>3, <2>4 DEF TextInvariant
<1> QED BY <1>1, <1>2, <1>3, <1>4, <1>5, <1>6, <1>7, <1>8 DEF TextNext, TextStep

GradingInvariant == EvalTypeOK /\ EvalFits /\ NothingRunsOn

(* The last row of a case, if it has one, is a row of that case.           *)
LEMMA LastRowIsRow ==
  ASSUME TextTypeOK, NEW c \in Cases, RowsOf(c) # {}
  PROVE  /\ LastRow(c) \in RowsOf(c) /\ \A k \in RowsOf(c) : LastRow(c) >= k
         /\ responses[LastRow(c)] \in Rows /\ responses[LastRow(c)].case = c
<1> DEFINE R == RowsOf(c)
           m == Len(responses)
<1>1. m \in Nat /\ R \subseteq 1..m
  BY TextShape DEF RowsOf
<1> DEFINE L == {l \in Nat : \A k \in R : k <= l}
<1>2. m \in L
  BY <1>1
<1>3. PICK l \in L : \A j \in L : <<j, l>> \notin OpToRel(<, Nat)
  <2>1. IsWellFoundedOn(OpToRel(<, Nat), Nat)
    BY NatLessThanWellFounded
  <2> HIDE DEF L
  <2>2. L \subseteq Nat
    BY DEF L
  <2> QED BY <1>2, <2>1, <2>2, WFMin
<1>4. \A j \in L : ~(j < l)
  BY <1>3 DEF OpToRel
<1>5. l \in R
  <2> SUFFICES ASSUME l \notin R PROVE FALSE
    OBVIOUS
  <2>1. \A k \in R : k \in Nat /\ k < l
    BY <1>1
  <2>2. PICK k \in R : TRUE
    OBVIOUS
  <2>3. l > 0 /\ l - 1 \in Nat
    BY <2>1, <2>2
  <2>4. l - 1 \in L
    BY <2>1, <2>3
  <2> QED BY <1>4, <2>3, <2>4
<1>6. \A k \in R : l >= k
  BY <1>1
<1>7. \E k \in R : \A j \in R : k >= j
  BY <1>5, <1>6
<1>8. LastRow(c) \in R /\ \A k \in R : LastRow(c) >= k
  BY <1>7 DEF LastRow
<1>9. \A k \in R : responses[k] \in Rows /\ responses[k].case = c
  BY TextShape DEF RowsOf
<1> QED BY <1>8, <1>9

(* The answer that is graded is a row of the file, or none is there.       *)
LEMMA AnswerShape ==
  ASSUME TextTypeOK, NEW c \in Cases
  PROVE  Answer(c) \in Rows \cup {NoRow}
BY LastRowIsRow DEF Answer

(* The next functional case, or one more than there are cases.             *)
LEMMA NextFunctional ==
  ASSUME NEW c \in 0..NumCases
  PROVE  /\ FunctionalAfter(c) \in Functional \cup {NumCases + 1}
         /\ FunctionalAfter(c) \in 1..(NumCases + 1)
         /\ FunctionalAfter(c) > NumCases => FunctionalAfter(c) = NumCases + 1
         /\ FunctionalAfter(c) <= NumCases => FunctionalAfter(c) \in Functional
         /\ c < FunctionalAfter(c)
         /\ \A e \in Functional : c < e => FunctionalAfter(c) <= e
<1> DEFINE S == {d \in Functional \cup {NumCases + 1} : c < d}
<1>1. /\ NumCases \in Nat /\ c \in Nat /\ c <= NumCases
      /\ \A d \in Functional : d \in 1..NumCases
  BY TextAssumption DEF Cases
<1>2. S \subseteq Nat /\ NumCases + 1 \in S
  BY <1>1
<1>3. \E d \in S : \A e \in S : d <= e
  BY <1>2, LeastNatural
<1>4. \E d \in Functional \cup {NumCases + 1} : c < d /\ \A e \in Functional : c < e => d <= e
  BY <1>3
<1>5. /\ FunctionalAfter(c) \in Functional \cup {NumCases + 1}
      /\ c < FunctionalAfter(c)
      /\ \A e \in Functional : c < e => FunctionalAfter(c) <= e
  BY <1>4 DEF FunctionalAfter
<1> QED BY <1>1, <1>5

(* A case is graded: its outcome is noted, and the next one begins.        *)
LEMMA GradeKeeps ==
  ASSUME GradingInvariant, TextTypeOK, NEW verdict \in Verdicts, Grade(verdict),
         evalPc \in {"case", "wait", "remove"},
         UNCHANGED textVars,
         graded' \in [Cases -> Rows \cup {NoRow}],
         \A c \in Cases : c # at => graded'[c] = graded[c],
         graded'[at] = Answer(at),
         verdict = "passed" => graded'[at].succeeded,
         container' \in [Cases -> {"none", "creating", "created", "starting",
                                   "running", "gone"}],
         \A c \in Cases : c # at => container'[c] = container[c],
         dockerFailed \subseteq dockerFailed', dockerFailed' \subseteq Cases,
         container'[at] \notin {"starting", "running"} \/ at \in dockerFailed'
  PROVE  GradingInvariant'
<1> USE TextAssumption
<1>t. /\ at \in Functional /\ at \in Cases /\ at \in 0..NumCases /\ Functional \subseteq Cases
      /\ outcome \in [Cases -> Verdicts \cup {"none"}]
      /\ textPc \in {"idle", "done"}
  BY DEF GradingInvariant, EvalTypeOK, EvalFits, Cases
<1>0. /\ outcome' = [outcome EXCEPT ![at] = verdict] /\ at' = FunctionalAfter(at)
      /\ evalPc' = (IF at' > NumCases THEN "written" ELSE "case")
  BY DEF Grade
<1>n. /\ at' \in 1..(NumCases + 1) /\ at < at'
      /\ at' > NumCases => at' = NumCases + 1
      /\ ~(at' > NumCases) => at' \in Functional
      /\ \A e \in Functional : at < e => at' <= e
  <2>1. /\ at' \in 1..(NumCases + 1) /\ at < at'
        /\ at' > NumCases => at' = NumCases + 1
        /\ at' <= NumCases => at' \in Functional
        /\ \A e \in Functional : at < e => at' <= e
    BY <1>t, <1>0, NextFunctional
  <2> QED BY <2>1
<1>u. UNCHANGED <<textPc, responses>>
  BY DEF textVars, script
<1>a. \A c \in Cases : Answer(c)' = Answer(c)
  BY <1>u DEF Answer, RowsOf, LastRow
<1>1. EvalTypeOK'
  <2>1. outcome' \in [Cases -> Verdicts \cup {"none"}]
    BY <1>t, <1>0
  <2> QED BY <1>0, <1>n, <2>1 DEF EvalTypeOK
<1>2. EvalFits'
  <2>1. \A c \in Functional : c < at' => c = at \/ c < at
    BY <1>t, <1>n DEF Cases
  <2>2. \A c \in Functional : c < at' => graded'[c] = Answer(c)
    <3>1. \A c \in Functional : c < at => graded[c] = Answer(c) /\ c # at /\ c \in Cases
      BY <1>t DEF GradingInvariant, EvalFits, Cases
    <3> QED BY <1>t, <2>1, <3>1
  <2>3. \A c \in Cases : outcome'[c] = "passed" => c < at' /\ graded'[c].succeeded
    <3>1. \A c \in Cases : outcome[c] = "passed" => c < at /\ graded[c].succeeded
      BY DEF GradingInvariant, EvalFits
    <3>2. \A c \in Cases : c < at \/ c = at => c < at'
      BY <1>t, <1>n DEF Cases
    <3> SUFFICES ASSUME NEW c \in Cases, outcome'[c] = "passed"
                 PROVE  c < at' /\ graded'[c].succeeded
      OBVIOUS
    <3>3. CASE c = at
      BY <1>t, <1>0, <3>2, <3>3
    <3>4. CASE c # at
      BY <1>t, <1>0, <3>1, <3>2, <3>4
    <3> QED BY <3>3, <3>4
  <2>4. /\ evalPc' = "case" => at' \in Functional
        /\ evalPc' = "written" => at' = NumCases + 1
        /\ evalPc' \in {"case", "written"}
    BY <1>0, <1>n
  <2>5. \A c \in Functional : c < at' => graded'[c] = Answer(c)'
    BY <1>t, <1>a, <2>2
  <2> QED BY <1>t, <1>u, <2>3, <2>4, <2>5 DEF EvalFits
<1>3. NothingRunsOn'
  <2>1. \A c \in Cases : c # at /\ container[c] \in {"starting", "running"} => c \in dockerFailed
    BY DEF GradingInvariant, NothingRunsOn, AtWork
  <2> QED BY <2>1 DEF NothingRunsOn, AtWork
<1> QED BY <1>1, <1>2, <1>3 DEF GradingInvariant

LEMMA GradingStepKeeps ==
  ASSUME TextInvariant, GradingInvariant, EvalNext
  PROVE  GradingInvariant'
<1> DEFINE States == {"none", "creating", "created", "starting", "running", "gone"}
<1>u. UNCHANGED textVars /\ UNCHANGED <<textPc, responses>>
  BY DEF EvalNext, textVars, script
<1>x. TextTypeOK
  BY DEF TextInvariant
<1>a. \A c \in Cases : Answer(c)' = Answer(c)
  BY <1>u DEF Answer, RowsOf, LastRow
<1>f. EvalTypeOK /\ EvalFits /\ NothingRunsOn
  BY DEF GradingInvariant
<1>t. /\ at \in 1..(NumCases + 1) /\ Functional \subseteq Cases
      /\ evalPc \in {"case", "wait", "remove"} => at \in Functional /\ at \in Cases
      /\ container \in [Cases -> States]
      /\ graded \in [Cases -> Rows \cup {NoRow}]
      /\ outcome \in [Cases -> Verdicts \cup {"none"}]
      /\ dockerFailed \subseteq Cases
  BY <1>f, TextAssumption DEF EvalTypeOK, EvalFits
<1>1. CASE StartEvaluation
  <2>0. /\ evalPc = "off" /\ textPc \in {"idle", "done"} /\ evalPc' = "case"
        /\ UNCHANGED <<at, container, outcome, graded, dockerFailed>>
    BY <1>1 DEF StartEvaluation
  <2>1. EvalTypeOK'
    BY <1>f, <2>0 DEF EvalTypeOK
  <2>2. EvalFits'
    <3>1. PICK e \in Functional : TRUE
      BY TextAssumption
    <3>2. at = FunctionalAfter(0) /\ e \in 1..NumCases /\ NumCases \in Nat /\ 0 \in 0..NumCases
      BY <1>f, <2>0, TextAssumption DEF EvalFits, Cases
    <3>3. at <= e
      BY <3>2, NextFunctional
    <3>4. at <= NumCases
      BY <1>t, <3>2, <3>3
    <3>5. at \in Functional
      BY <3>2, <3>4, NextFunctional
    <3> QED BY <1>f, <1>t, <1>u, <1>a, <2>0, <3>5 DEF EvalFits
  <2>3. NothingRunsOn'
    BY <1>f, <2>0 DEF NothingRunsOn, AtWork
  <2> QED BY <2>1, <2>2, <2>3 DEF GradingInvariant
<1>2. CASE EvaluateCase
  <2>0. /\ evalPc = "case" /\ graded' = [graded EXCEPT ![at] = Answer(at)] /\ at \in Cases
        /\ UNCHANGED dockerFailed
    BY <1>t, <1>2 DEF EvaluateCase
  <2>1. /\ graded' \in [Cases -> Rows \cup {NoRow}]
        /\ graded'[at] = Answer(at)
        /\ \A c \in Cases : c # at => graded'[c] = graded[c]
    BY <1>t, <1>x, <2>0, AnswerShape
  <2>2. container[at] \notin {"starting", "running"} \/ at \in dockerFailed'
    BY <1>f, <2>0 DEF NothingRunsOn, AtWork
  <2>3. ASSUME NEW verdict \in {"missing_response", "extraction_error"},
               Grade(verdict), UNCHANGED container
        PROVE  GradingInvariant'
    <3>1. verdict \in Verdicts /\ verdict # "passed"
      BY DEF Verdicts
    <3> QED BY <1>t, <1>u, <1>x, <2>0, <2>1, <2>2, <2>3, <3>1, GradeKeeps
  <2>4. CASE /\ graded'[at].succeeded
             /\ container' = [container EXCEPT ![at] = "creating"]
             /\ evalPc' = "wait" /\ UNCHANGED <<at, outcome>>
    <3>1. EvalTypeOK'
      BY <1>f, <1>t, <2>0, <2>1, <2>4 DEF EvalTypeOK
    <3>2. EvalFits'
      <4>1. \A c \in Functional : c < at \/ c = at => graded'[c] = Answer(c)'
        BY <1>f, <1>t, <1>a, <2>0, <2>1 DEF EvalFits
      <4>2. \A c \in Cases : outcome'[c] = "passed" => c < at' /\ graded'[c].succeeded
        <5>1. \A c \in Cases : c < at => c # at
          BY <1>t DEF Cases
        <5> QED BY <1>f, <2>1, <2>4, <5>1 DEF EvalFits
      <4>3. textPc' \in {"idle", "done"} /\ at \in Functional
        BY <1>f, <1>u, <1>t, <2>0 DEF EvalFits
      <4> QED BY <2>0, <2>4, <4>1, <4>2, <4>3 DEF EvalFits
    <3>3. NothingRunsOn'
      BY <1>f, <1>t, <2>0, <2>4 DEF NothingRunsOn, AtWork
    <3> QED BY <3>1, <3>2, <3>3 DEF GradingInvariant
  <2> QED BY <1>2, <2>3, <2>4 DEF EvaluateCase
<1>3. CASE ClientStarts \/ ClientTimesOut
  <2>0. /\ evalPc = "wait" /\ evalPc' \in {"wait", "remove"} /\ at \in Cases
        /\ container' \in [Cases -> States]
        /\ \A c \in Cases : c # at => container'[c] = container[c]
        /\ UNCHANGED <<at, outcome, graded, dockerFailed>>
    BY <1>t, <1>3 DEF ClientStarts, ClientTimesOut
  <2>1. EvalTypeOK'
    BY <1>f, <2>0 DEF EvalTypeOK
  <2>2. EvalFits'
    BY <1>f, <1>t, <1>u, <1>a, <2>0 DEF EvalFits
  <2>3. NothingRunsOn'
    BY <1>f, <2>0 DEF NothingRunsOn, AtWork
  <2> QED BY <2>1, <2>2, <2>3 DEF GradingInvariant
<1>4. CASE ClientEnds \/ ClientFails
  <2>0. /\ evalPc = "wait" /\ at \in Cases /\ UNCHANGED <<container, graded>>
        /\ dockerFailed \subseteq dockerFailed' /\ dockerFailed' \subseteq Cases
        /\ container'[at] \notin {"starting", "running"} \/ at \in dockerFailed'
    BY <1>t, <1>4 DEF ClientEnds, ClientFails
  <2>1. PICK verdict \in {"passed", "failed"} : Grade(verdict)
    BY <1>4, Zenon DEF ClientEnds, ClientFails
  <2>2. verdict \in Verdicts
    BY <2>1 DEF Verdicts
  <2>3. graded[at] = Answer(at) /\ graded[at].succeeded
    BY <1>f, <1>t, <2>0 DEF EvalFits
  <2>4. \A c \in Cases : c # at => graded'[c] = graded[c] /\ container'[c] = container[c]
    BY <2>0
  <2> QED BY <1>t, <1>u, <1>x, <2>0, <2>1, <2>2, <2>3, <2>4, GradeKeeps
<1>5. CASE Remove
  <2>0. /\ evalPc = "remove" /\ at \in Cases /\ Grade("timeout") /\ UNCHANGED graded
        /\ \/ /\ container' = [container EXCEPT ![at] = IF @ = "creating" THEN @ ELSE "gone"]
              /\ UNCHANGED dockerFailed
           \/ dockerFailed' = dockerFailed \cup {at} /\ UNCHANGED container
    BY <1>t, <1>5 DEF Remove
  <2>1. graded[at] = Answer(at)
    BY <1>f, <1>t, <2>0 DEF EvalFits
  <2>2. /\ container' \in [Cases -> States]
        /\ \A c \in Cases : c # at => container'[c] = container[c]
        /\ dockerFailed \subseteq dockerFailed' /\ dockerFailed' \subseteq Cases
        /\ container'[at] \notin {"starting", "running"} \/ at \in dockerFailed'
    BY <1>t, <2>0
  <2>3. "timeout" \in Verdicts /\ "timeout" # "passed"
    BY DEF Verdicts
  <2> QED BY <1>t, <1>u, <1>x, <2>0, <2>1, <2>2, <2>3, GradeKeeps
<1>6. CASE EvaluatorRaises
  <2>0. /\ evalPc \in {"case", "wait", "remove"} /\ evalPc' = "raised"
        /\ UNCHANGED <<at, container, outcome, graded, dockerFailed>>
    BY <1>6 DEF EvaluatorRaises
  <2>1. EvalTypeOK'
    BY <1>f, <2>0 DEF EvalTypeOK
  <2>2. EvalFits'
    BY <1>f, <1>t, <1>u, <1>a, <2>0 DEF EvalFits
  <2>3. NothingRunsOn'
    BY <1>f, <2>0 DEF NothingRunsOn, AtWork
  <2> QED BY <2>1, <2>2, <2>3 DEF GradingInvariant
<1>7. ASSUME NEW c \in Cases, Daemon(c) PROVE GradingInvariant'
  <2>0. /\ UNCHANGED <<evalPc, at, outcome, graded, dockerFailed>>
        /\ container' \in [Cases -> States]
        /\ \A d \in Cases : container'[d] \in {"starting", "running"}
                              => container[d] \in {"starting", "running"}
    BY <1>t, <1>7 DEF Daemon
  <2>1. EvalTypeOK'
    BY <1>f, <2>0 DEF EvalTypeOK
  <2>2. EvalFits'
    BY <1>f, <1>t, <1>u, <1>a, <2>0 DEF EvalFits
  <2>3. NothingRunsOn'
    BY <1>f, <2>0 DEF NothingRunsOn, AtWork
  <2> QED BY <2>1, <2>2, <2>3 DEF GradingInvariant
<1> QED BY <1>1, <1>2, <1>3, <1>4, <1>5, <1>6, <1>7 DEF EvalNext, Evaluator, EvaluatorStep

(* The rows of the run that ended stand after all others, one of each case *)
(* that is tested: the last row of a case is that run's.                   *)
LEMMA GradedThisRun ==
  ASSUME TextInvariant, GradingInvariant
  PROVE  GradesThisRun
<1> SUFFICES ASSUME evalPc = "written", textPc = "done", NEW c \in Functional
             PROVE  /\ graded[c].run = run
                    /\ outcome[c] = "passed" => evidence.records[c].succeeded
  BY DEF GradesThisRun
<1>0. TextTypeOK /\ TextFits /\ ResponsesMatchRecords /\ EvalFits /\ EvalTypeOK
  BY DEF TextInvariant, GradingInvariant
<1>1. /\ DOMAIN results = 1..Len(results) /\ DOMAIN responses = 1..Len(responses)
      /\ Len(responses) \in Nat
      /\ \A k \in DOMAIN responses :
           responses[k].run \in Nat /\ responses[k].case \in Nat
  <2>1. \A k \in DOMAIN responses : responses[k] \in Rows
    BY <1>0, TextShape
  <2> QED BY <1>0, <2>1, TextShape DEF Rows, Cases
<1>2. /\ c \in Cases /\ c \in DOMAIN results /\ c < at
      /\ results[c].case = c /\ results[c].run = run
  <2>1. c \in 1..NumCases /\ NumCases \in Nat
    BY TextAssumption DEF Cases
  <2>2. Len(results) = NumCases /\ at = NumCases + 1
    BY <1>0, <2>1 DEF TextFits, EvalFits
  <2>3. c \in DOMAIN results
    BY <1>1, <2>1, <2>2
  <2> QED BY <1>0, <2>1, <2>2, <2>3 DEF TextFits, Cases
<1>3. PICK k \in DOMAIN responses : responses[k].run = run /\ responses[k] = results[c]
  <2>1. {responses[k] : k \in {l \in DOMAIN responses : responses[l].run = run}}
          = {results[d] : d \in {e \in DOMAIN results : e \in Functional}}
    BY <1>0 DEF ResponsesMatchRecords
  <2>2. results[c] \in {results[d] : d \in {e \in DOMAIN results : e \in Functional}}
    BY <1>2
  <2> QED BY <2>1, <2>2
<1>4. k \in RowsOf(c)
  BY <1>2, <1>3 DEF RowsOf
<1>5. LastRow(c) \in RowsOf(c) /\ LastRow(c) >= k
  BY <1>0, <1>2, <1>4, LastRowIsRow
<1>6. LastRow(c) = k
  <2> SUFFICES ASSUME LastRow(c) # k PROVE FALSE
    OBVIOUS
  <2> DEFINE l == LastRow(c)
  <2>1. l \in DOMAIN responses /\ responses[l].case = c /\ k \in 1..Len(responses)
    BY <1>1, <1>5 DEF RowsOf
  <2> HIDE DEF l
  <2>2. k < l
    BY <1>1, <1>5, <2>1 DEF l
  <2>3. \/ responses[k].run < responses[l].run
        \/ responses[k].run = responses[l].run /\ responses[k].case < responses[l].case
    BY <1>0, <2>1, <2>2 DEF ResponsesMatchRecords
  <2>4. responses[l].run <= run
    BY <1>0, <2>1 DEF TextFits
  <2>5. responses[k].case = c /\ responses[k].run = run
    BY <1>2, <1>3
  <2> QED BY <1>1, <2>1, <2>3, <2>4, <2>5
<1>7. graded[c] = results[c]
  <2>1. graded[c] = Answer(c)
    BY <1>0, <1>2 DEF EvalFits
  <2> QED BY <1>3, <1>4, <1>6, <2>1 DEF Answer
<1>8. evidence.records = results
  BY <1>0 DEF TextFits
<1> QED BY <1>0, <1>2, <1>7, <1>8 DEF EvalFits

PipelineKeeps == TextInvariant /\ GradingInvariant

LEMMA PipelineStarts == PipelineInit => PipelineKeeps
<1> SUFFICES ASSUME PipelineInit PROVE PipelineKeeps
  OBVIOUS
<1> USE TextAssumption DEF PipelineInit, TextInit, EvalInit
<1>1. /\ results \in Seq(Rows) /\ responses \in Seq(Rows)
      /\ DOMAIN results = {} /\ DOMAIN responses = {}
  OBVIOUS
<1>2. evidence \in [records : Seq(Rows), succeeded : Nat, failed : Nat]
  BY DEF NoEvidence
<1>3. TextTypeOK
  BY <1>1, <1>2 DEF TextTypeOK
<1>4. TextFits
  BY <1>1 DEF TextFits
<1>5. ResponsesMatchRecords
  BY <1>1 DEF ResponsesMatchRecords
<1>6. /\ at = FunctionalAfter(0) /\ at \in 1..(NumCases + 1) /\ NumCases \in Nat
      /\ \A e \in Functional : e \in 1..NumCases /\ at <= e
  <2>1. 0 \in 0..NumCases /\ \A e \in Functional : e \in 1..NumCases /\ 0 < e
    BY DEF Cases
  <2> QED BY <2>1, NextFunctional
<1>7. EvalTypeOK
  BY <1>6 DEF EvalTypeOK
<1>8. EvalFits
  BY <1>6 DEF EvalFits
<1>9. NothingRunsOn
  BY DEF NothingRunsOn, AtWork
<1> QED BY <1>3, <1>4, <1>5, <1>7, <1>8, <1>9 DEF PipelineKeeps, TextInvariant, GradingInvariant

LEMMA TextStays ==
  ASSUME TextInvariant, UNCHANGED textVars
  PROVE  TextInvariant'
<1>1. UNCHANGED <<mode, run, textPc, case, results, responses, evidence, job>>
  BY DEF textVars, script
<1>2. TextTypeOK'
  BY <1>1 DEF TextInvariant, TextTypeOK
<1>3. TextFits'
  BY <1>1 DEF TextInvariant, TextFits
<1>4. ResponsesMatchRecords'
  BY <1>1 DEF TextInvariant, ResponsesMatchRecords
<1> QED BY <1>2, <1>3, <1>4 DEF TextInvariant

LEMMA PipelineStep == PipelineKeeps /\ [PipelineNext]_PipelineVars => PipelineKeeps'
<1> SUFFICES ASSUME PipelineKeeps, [PipelineNext]_PipelineVars PROVE PipelineKeeps'
  OBVIOUS
<1> USE DEF PipelineKeeps
<1>1. CASE TextNext /\ evalPc = "off" /\ UNCHANGED evalVars
  <2>1. TextInvariant'
    BY <1>1, TextStepKeeps
  <2>2. GradingInvariant'
    <3>1. \A c \in Functional : ~(c < at)
      <4>1. /\ at = FunctionalAfter(0) /\ at \in Nat
            /\ 0 \in 0..NumCases /\ \A e \in Functional : e \in Nat /\ 0 < e
        BY <1>1, TextAssumption DEF GradingInvariant, EvalFits, EvalTypeOK, Cases
      <4>2. \A e \in Functional : at <= e
        BY <4>1, NextFunctional
      <4> QED BY <4>1, <4>2
    <3>2. UNCHANGED evalVars /\ evalPc' = "off"
      BY <1>1 DEF evalVars
    <3> QED BY <3>1, <3>2 DEF evalVars, GradingInvariant, EvalTypeOK, EvalFits, NothingRunsOn,
                              AtWork
  <2> QED BY <2>1, <2>2
<1>2. CASE EvalNext
  <2>1. UNCHANGED textVars
    BY <1>2 DEF EvalNext
  <2>2. TextInvariant'
    BY <2>1, TextStays
  <2> QED BY <1>2, <2>2, GradingStepKeeps
<1>3. CASE UNCHANGED PipelineVars
  <2>1. TextInvariant'
    BY <1>3, TextStays DEF PipelineVars
  <2>2. \A c \in Cases : Answer(c)' = Answer(c)
    BY <1>3 DEF PipelineVars, textVars, script, Answer, RowsOf, LastRow
  <2>3. GradingInvariant'
    BY <1>3, <2>2, TextAssumption
       DEF PipelineVars, textVars, script, evalVars, GradingInvariant, EvalTypeOK, EvalFits,
           NothingRunsOn, AtWork
  <2> QED BY <2>1, <2>3
<1> QED BY <1>1, <1>2, <1>3 DEF PipelineNext

LEMMA PipelineIsKept == PipelineKeeps => PipelineInvariant
BY GradedThisRun DEF PipelineKeeps, TextInvariant, GradingInvariant, PipelineInvariant

(* The records, the responses and the grades of run_text_workload_manifest *)
(* and evaluate_codegen_functional agree with each other, over all kills   *)
(* and runs into one directory; and the code of an answer goes on after    *)
(* its case only where a docker command itself failed.                     *)
THEOREM PipelineHolds == PipelineSpec => []PipelineInvariant
BY PipelineStarts, PipelineStep, PipelineIsKept, PTL DEF PipelineSpec

(***************************************************************************)
(* All programs, side by side                                              *)
(***************************************************************************)
AllHold ==
  /\ IInv /\ SimulationInvariant
  /\ PipelineKeeps /\ EvaluationInvariant /\ BenchCore /\ CallInvariant /\ PodInvariant

LEMMA IdleHolds ==
  /\ SchedulerIdle => IInv /\ SimulationInvariant
  /\ PipelineIdle => PipelineKeeps
  /\ EvaluationIdle => EvaluationInvariant
  /\ BenchIdle => BenchCore
  /\ CallIdle => CallInvariant
  /\ PodIdle => PodInvariant
<1>1. ASSUME SchedulerIdle PROVE IInv /\ SimulationInvariant
  <2>1. /\ arrival = [r \in Requests |-> 0] /\ prompt = [r \in Requests |-> 1]
        /\ output = [r \in Requests |-> 1]
    BY <1>1 DEF SchedulerIdle
  <2>2. /\ arrival \in [Requests -> Nat] /\ prompt \in [Requests -> Nat]
        /\ output \in [Requests -> Nat]
        /\ \A q, r \in Requests : q < r => arrival[q] <= arrival[r]
    BY <2>1
  <2>3. IInv
    BY <1>1, <2>2, NothingAdmitted DEF SchedulerIdle
  <2> QED BY <1>1, <2>3, NothingServed DEF SchedulerIdle
<1>2. ASSUME PipelineIdle PROVE PipelineKeeps
  BY <1>2, PipelineStarts DEF PipelineIdle
<1>3. ASSUME EvaluationIdle PROVE EvaluationInvariant
  BY <1>3, EvaluationStarts DEF EvaluationIdle
<1>4. ASSUME BenchIdle PROVE BenchCore
  BY <1>4, NothingSent DEF BenchIdle
<1>5. ASSUME CallIdle PROVE CallInvariant
  BY <1>5 DEF CallIdle, CallInvariant, CallTypeOK, CallFits, RepeatsAreAmbiguous,
              ResultIsUpstreams, CallFailures, Raised, Statuses
<1>6. ASSUME PodIdle PROVE PodInvariant
  <2>1. PodLine(line, sinceLivez, livezFailures)
    BY <1>6, NothingInLine DEF PodIdle
  <2>2. Taken = 0 /\ Taken <= PoolSize /\ 0 \in 0..ReadinessThreshold
    BY <1>6, PodAssumption DEF PodIdle, Taken
  <2>3. health \in [Backends -> {"up", "down", "hung", "odd"}]
    BY <1>6 DEF PodIdle
  <2>4. PodThreads
    BY <1>6, <2>2, <2>3 DEF PodIdle, PodThreads
  <2>5. PodResult
    BY <1>6, <2>2, PodAssumption DEF PodIdle, PodResult
  <2> QED BY <2>1, <2>4, <2>5, PodOfLine
<1> QED BY <1>1, <1>2, <1>3, <1>4, <1>5, <1>6

(* A step of one program is a step of it, and for every other no change.   *)
LEMMA EachSteps ==
  ASSUME [MCNext]_MCVars
  PROVE  /\ [SimulationNext]_simulationVars /\ [PipelineNext]_PipelineVars
         /\ [EvaluationNext]_evaluationVars /\ [BenchNext]_benchVars
         /\ [CallNext]_callVars /\ [PodNext]_podVars
BY DEF MCNext, MCVars

(* What the runs check of the programs side by side, for every value of    *)
(* the constants: each program keeps its invariant, whichever of them runs.*)
THEOREM ProgramsHold ==
  MCSpec => [](/\ IInv /\ SimulationInvariant /\ PipelineInvariant
               /\ EvaluationInvariant /\ BenchInvariant /\ CallInvariant
               /\ ProbesDoNotPileUp)
<1>1. MCInit => AllHold
  BY SimulationStarts, PipelineStarts, EvaluationStarts, BenchStarts, CallStarts, PodStarts,
     IdleHolds
     DEF MCInit, AllHold
<1>2. AllHold /\ [MCNext]_MCVars => AllHold'
  <2> SUFFICES ASSUME AllHold, [MCNext]_MCVars PROVE AllHold'
    OBVIOUS
  <2>1. IInv' /\ SimulationInvariant'
    BY EachSteps, SimulationStepKeeps DEF AllHold
  <2>2. PipelineKeeps' /\ BenchCore'
    BY EachSteps, PipelineStep, BenchCoreStep DEF AllHold
  <2>3. EvaluationInvariant' /\ CallInvariant'
    BY EachSteps, EvaluationStepKeeps, CallStepKeeps DEF AllHold
  <2>4. PodInvariant'
    BY EachSteps, PodStepKeeps DEF AllHold
  <2> QED BY <2>1, <2>2, <2>3, <2>4 DEF AllHold
<1>3. AllHold => /\ IInv /\ SimulationInvariant /\ PipelineInvariant
                 /\ EvaluationInvariant /\ BenchInvariant /\ CallInvariant
                 /\ ProbesDoNotPileUp
  BY PipelineIsKept, BenchCoreIsAll DEF AllHold, PodInvariant
<1> QED BY <1>1, <1>2, <1>3, PTL DEF MCSpec

=============================================================================
