----------------------- MODULE ContinuousBatchingProofs -----------------------
(***************************************************************************)
(* Proofs about ContinuousBatching: any number of requests of any lengths, *)
(* any number of slots and any times.                                      *)
(***************************************************************************)
EXTENDS ContinuousBatching, FiniteSetTheorems, TLAPS

(* More steps take no less time.                                           *)
LEMMA TimesGrow ==
  ASSUME NEW a \in Int, NEW b \in Int, a <= b, NEW u \in Nat
  PROVE  a * u <= b * u
<1>1. (b - a) * u >= 0
  OBVIOUS
<1>2. (b - a) * u = b * u - a * u
  OBVIOUS
<1> QED BY <1>1, <1>2

(* Products of numbers of tokens and of times are times.                   *)
LEMMA TimesType == /\ \A a, b \in Nat : a * b \in Nat
                   /\ \A a, b \in Int : a * b \in Int
  OBVIOUS

(* There are finitely many active requests, and a decode step takes at     *)
(* least what it takes for one.                                            *)
LEMMA StepTime ==
  ASSUME TypeOK
  PROVE  /\ IsFiniteSet(active)
         /\ Cardinality(active) \in Nat
         /\ StepBase + StepPerRequest * Cardinality(active) \in Nat
         /\ active # {} => StepBase + StepPerRequest * Cardinality(active) >= Unit
<1> DEFINE n == Cardinality(active)
<1>1. IsFiniteSet(Requests)
  BY FS_Interval, BatchingAssumption DEF Requests
<1>2. IsFiniteSet(active) /\ n \in Nat
  BY <1>1, FS_Subset, FS_CardinalityType DEF TypeOK
<1>3. StepPerRequest * n \in Nat
  BY <1>2, TimesType, BatchingAssumption
<1>4. ASSUME active # {} PROVE StepPerRequest * n >= StepPerRequest
  <2>1. n >= 1
    BY <1>2, <1>4, FS_EmptySet
  <2>2. 1 * StepPerRequest <= n * StepPerRequest
    BY <1>2, <2>1, TimesGrow, BatchingAssumption
  <2> QED BY <1>2, <2>2, BatchingAssumption
<1> QED BY <1>2, <1>3, <1>4, BatchingAssumption DEF Unit

-----------------------------------------------------------------------------
(* The invariant holds at first.                                           *)
(* Before anything is admitted the requests may be any that are in order.  *)
LEMMA NothingAdmitted ==
  ASSUME arrival \in [Requests -> Nat], prompt \in [Requests -> Nat],
         output \in [Requests -> Nat],
         \A q, r \in Requests : q < r => arrival[q] <= arrival[r],
         time = 0, busy = 0, idle = 0, admitted = {}, active = {},
         start = [r \in Requests |-> 0], finish = [r \in Requests |-> 0],
         remaining = [r \in Requests |-> 0]
  PROVE  IInv
<1>1. TypeOK
  BY FS_EmptySet, BatchingAssumption DEF TypeOK
<1>2. ClockAccounted /\ Progress
  BY DEF ClockAccounted, Progress
<1>3. Order /\ ShorterIsNotOvertaken /\ LatencyCoversWork
  BY DEF Order, ShorterIsNotOvertaken, LatencyCoversWork, Completed
<1> QED BY <1>1, <1>2, <1>3 DEF IInv

LEMMA InitInvariant == Init => IInv
BY NothingAdmitted, BatchingAssumption DEF Init, Generated

(* Admitting a request keeps the invariant: it is the last of those        *)
(* admitted, and has all its tokens to go.                                 *)
LEMMA AdmitStep == IInv /\ Admit => IInv'
<1> SUFFICES ASSUME IInv, Admit PROVE IInv'
  OBVIOUS
<1> USE DEF Requests
<1>0. PICK r \in NextUp :
        /\ start' = [start EXCEPT ![r] = time]
        /\ Work(prompt[r] * PrefillPerToken)
        /\ admitted' = admitted \cup {r}
        /\ active' = active \cup {r}
        /\ remaining' = [remaining EXCEPT ![r] = output[r]]
  BY DEF Admit
<1> DEFINE d == prompt[r] * PrefillPerToken
<1>t. TypeOK
  BY DEF IInv
<1>1. /\ r \in Requests \ admitted /\ arrival[r] <= time
      /\ \A q \in Requests : q < r => q \in admitted
  <2>1. r \in Requests \ admitted /\ arrival[r] <= time /\ \A q \in Waiting : r <= q
    BY DEF NextUp, First, Waiting
  <2>2. ASSUME NEW q \in Requests, q < r, q \notin admitted PROVE FALSE
    <3>1. q \notin Waiting
      BY <2>1, <2>2, BatchingAssumption
    <3>2. arrival[q] <= arrival[r]
      BY <2>1, <2>2 DEF IInv, Progress
    <3>3. arrival[q] \in Nat /\ arrival[r] \in Nat /\ time \in Nat
      BY <2>1, <2>2, <1>t DEF TypeOK
    <3> QED BY <2>1, <2>2, <3>1, <3>2, <3>3 DEF Waiting
  <2> QED BY <2>1, <2>2
<1>2. d \in Nat
  BY <1>1, <1>t, TimesType, BatchingAssumption DEF TypeOK
<1>3. time' = time + d /\ busy' = busy + d /\ time' \in Nat /\ busy' \in Nat
  BY <1>0, <1>2, <1>t DEF Work, TypeOK
<1> HIDE DEF d
<1>4. UNCHANGED <<arrival, prompt, output, idle, finish>> /\ Completed' = Completed
  BY <1>0, <1>1, <1>t DEF Admit, input, Completed, TypeOK
<1>5. TypeOK'
  <2>1. time' \in Nat /\ busy' \in Nat /\ idle' \in Nat
    BY <1>3, <1>4, <1>t DEF TypeOK
  <2>2. Cardinality(active') <= MaxActive
    <3>1. IsFiniteSet(active) /\ Cardinality(active) \in Nat
      BY StepTime, <1>t
    <3>2. Cardinality(active \cup {r}) = IF r \in active THEN Cardinality(active)
                                                          ELSE Cardinality(active) + 1
      BY <3>1, FS_AddElement
    <3>3. Cardinality(active) < MaxActive
      BY DEF Admit, SlotFree
    <3> QED BY <1>0, <3>1, <3>2, <3>3, BatchingAssumption
  <2>3. /\ remaining' \in [Requests -> Int] /\ start' \in [Requests -> Nat]
        /\ admitted' \subseteq Requests /\ active' \subseteq admitted'
    BY <1>0, <1>1, <1>t DEF TypeOK
  <2> QED BY <2>1, <2>2, <2>3, <1>4, <1>t DEF TypeOK
<1>6. ClockAccounted'
  BY <1>2, <1>3, <1>4, <1>t DEF IInv, ClockAccounted, TypeOK
<1>7. Progress'
  <2> SUFFICES /\ \A q \in admitted', p \in Requests : p < q => p \in admitted'
               /\ \A q \in admitted' : arrival[q] <= start'[q] /\ start'[q] <= time'
               /\ \A q \in active' :
                    /\ remaining'[q] <= output[q]
                    /\ start'[q] + prompt[q] * PrefillPerToken
                         + (output[q] - remaining'[q]) * Unit <= time'
    BY <1>4 DEF IInv, Progress
  <2>1. start'[r] = time /\ remaining'[r] = output[r]
    BY <1>0, <1>1, <1>t DEF TypeOK
  <2>2. ASSUME NEW q \in admitted
        PROVE  q \in Requests /\ q # r /\ start'[q] = start[q] /\ remaining'[q] = remaining[q]
    BY <1>0, <1>1, <2>2, <1>t DEF TypeOK
  <2>3. \A q \in admitted', p \in Requests : p < q => p \in admitted'
    BY <1>0, <1>1 DEF IInv, Progress
  <2>4. \A q \in admitted' : arrival[q] <= start'[q] /\ start'[q] <= time'
    BY <1>0, <1>1, <1>2, <1>3, <2>1, <2>2, <1>t DEF IInv, Progress, TypeOK
  <2>5. ASSUME NEW q \in active
        PROVE  /\ remaining'[q] <= output[q]
               /\ start'[q] + prompt[q] * PrefillPerToken
                    + (output[q] - remaining'[q]) * Unit <= time'
    <3>1. q \in admitted
      BY <2>5, <1>t DEF TypeOK
    <3>2. /\ start[q] \in Int /\ prompt[q] \in Int /\ output[q] \in Int /\ remaining[q] \in Int
          /\ PrefillPerToken \in Int /\ Unit \in Int
      BY <3>1, <2>2, <1>t, BatchingAssumption
      DEF TypeOK, Unit
    <3> DEFINE e == start[q] + prompt[q] * PrefillPerToken + (output[q] - remaining[q]) * Unit
    <3>3. e <= time
      BY <2>5 DEF IInv, Progress
    <3>4. e \in Int
      <4>1. prompt[q] * PrefillPerToken \in Int /\ (output[q] - remaining[q]) * Unit \in Int
        BY <3>2, TimesType
      <4> QED BY <3>2, <4>1
    <3> HIDE DEF e
    <3>5. e <= time + d
      BY <3>3, <3>4, <1>2, <1>t DEF TypeOK
    <3>6. remaining[q] <= output[q]
      BY <2>5 DEF IInv, Progress
    <3> QED BY <3>1, <3>5, <3>6, <1>3, <2>2 DEF e
  <2>6. /\ remaining'[r] <= output[r]
        /\ start'[r] + d + (output[r] - remaining'[r]) * Unit <= time'
    <3>1. (output[r] - remaining'[r]) * Unit = 0
      BY <2>1, <1>1, <1>t, BatchingAssumption DEF TypeOK, Unit
    <3> QED BY <3>1, <2>1, <1>1, <1>2, <1>3, <1>t DEF TypeOK
  <2> QED BY <1>0, <2>3, <2>4, <2>5, <2>6 DEF d
<1>8. Order'
  <2>1. \A q \in Completed' : finish'[q] <= time'
    <3> SUFFICES ASSUME NEW q \in Completed PROVE finish[q] <= time + d
      BY <1>3, <1>4
    <3>1. finish[q] <= time
      BY DEF IInv, Order
    <3>2. q \in Requests
      BY <1>t DEF Completed, TypeOK
    <3> QED BY <3>1, <3>2, <1>2, <1>t DEF TypeOK
  <2>2. ASSUME NEW q \in active', NEW p \in active', q < p, output'[q] <= output'[p]
        PROVE  remaining'[q] <= remaining'[p]
    <3>1. q # r
      BY <1>0, <1>1, <1>t, <2>2, BatchingAssumption DEF IInv, Progress, TypeOK
    <3>2. q \in active /\ q \in Requests /\ remaining'[q] = remaining[q]
      BY <1>0, <1>1, <1>t, <2>2, <3>1 DEF TypeOK
    <3>3. CASE p = r
      <4>1. remaining'[p] = output[p] /\ remaining[q] <= output[q]
        BY <1>0, <1>1, <1>t, <3>2, <3>3 DEF IInv, Progress, TypeOK
      <4>2. remaining[q] \in Int /\ output[q] \in Nat /\ output[p] \in Nat
        BY <1>1, <1>t, <3>2, <3>3 DEF TypeOK
      <4> QED BY <4>1, <4>2, <3>2, <2>2, <1>4
    <3>4. CASE p # r
      <4>1. p \in active /\ remaining'[p] = remaining[p]
        BY <1>0, <1>1, <1>t, <2>2, <3>4 DEF TypeOK
      <4> QED BY <4>1, <3>2, <2>2, <1>4 DEF IInv, Order
    <3> QED BY <3>3, <3>4
  <2>3. ASSUME NEW q \in active', NEW p \in Completed', q < p
        PROVE  output'[q] > output'[p]
    <3>1. q # r
      <4>1. p \in admitted /\ p \in Requests /\ p # r
        BY <1>1, <1>4, <1>t, <2>3 DEF Completed, TypeOK
      <4> QED BY <4>1, <1>1, <2>3 DEF IInv, Progress
    <3> QED BY <1>0, <1>4, <2>3, <3>1 DEF IInv, Order
  <2> QED BY <2>1, <2>2, <2>3 DEF Order
<1>9. ShorterIsNotOvertaken'
  BY <1>4 DEF IInv, ShorterIsNotOvertaken
<1>10. LatencyCoversWork'
  <2>1. \A q \in Completed : start'[q] = start[q]
    BY <1>0, <1>1, <1>t DEF Completed, TypeOK
  <2> QED BY <1>4, <2>1 DEF IInv, LatencyCoversWork
<1> QED BY <1>5, <1>6, <1>7, <1>8, <1>9, <1>10 DEF IInv

(* So does skipping to the next arrival.                                   *)
LEMMA SkipStep == IInv /\ Skip => IInv'
<1> SUFFICES ASSUME IInv, Skip PROVE IInv'
  OBVIOUS
<1>t. TypeOK
  BY DEF IInv
<1>1. PICK r \in First(Requests \ admitted) :
        time < arrival[r] /\ idle' = idle + (arrival[r] - time) /\ time' = arrival[r]
  BY DEF Skip, IdleUntil
<1>2. active = {} /\ r \in Requests
  BY DEF Skip, First
<1>3. UNCHANGED <<arrival, prompt, output, busy, admitted, active, start, finish, remaining>>
  BY DEF Skip, input
<1>4. time' \in Nat /\ idle' \in Nat /\ time < time'
  BY <1>1, <1>2, <1>t DEF TypeOK
<1>5. TypeOK'
  BY <1>3, <1>4, <1>t DEF TypeOK
<1>6. ClockAccounted'
  BY <1>1, <1>2, <1>3, <1>t DEF IInv, ClockAccounted, TypeOK
<1>7. Progress'
  <2>1. ASSUME NEW q \in admitted PROVE start[q] <= time'
    <3>1. start[q] \in Nat /\ time \in Nat /\ start[q] <= time
      BY <2>1, <1>t DEF IInv, Progress, TypeOK
    <3> QED BY <3>1, <1>4
  <2> QED BY <2>1, <1>2, <1>3 DEF IInv, Progress
<1>8. Completed' = Completed
  BY <1>3 DEF Completed
<1>9. Order'
  <2>1. ASSUME NEW q \in Completed PROVE finish[q] <= time'
    <3>1. finish[q] \in Nat /\ time \in Nat /\ finish[q] <= time
      BY <2>1, <1>t DEF IInv, Order, Completed, TypeOK
    <3> QED BY <3>1, <1>4
  <2> QED BY <2>1, <1>2, <1>3, <1>8 DEF IInv, Order
<1>10. ShorterIsNotOvertaken' /\ LatencyCoversWork'
  BY <1>3, <1>8 DEF IInv, ShorterIsNotOvertaken, LatencyCoversWork
<1> QED BY <1>5, <1>6, <1>7, <1>9, <1>10 DEF IInv

(* So does a decode step.  The requests that leave finish at once, with    *)
(* their work done, and whoever they could have overtaken leaves with      *)
(* them or has left.                                                       *)
LEMMA DecodeStep == IInv /\ Decode => IInv'
<1> SUFFICES ASSUME IInv, Decode PROVE IInv'
  OBVIOUS
<1> DEFINE d == StepBase + StepPerRequest * Cardinality(active)
<1>t. TypeOK
  BY DEF IInv
<1>1. d \in Nat /\ d >= Unit /\ IsFiniteSet(active) /\ Cardinality(active) \in Nat
  BY StepTime, <1>t DEF Decode
<1>2. time' = time + d /\ busy' = busy + d
  BY DEF Decode, Work
<1> HIDE DEF d
<1>3. UNCHANGED <<arrival, prompt, output, idle, admitted, start>>
  BY DEF Decode, input
<1>4. /\ remaining' = [r \in Requests |-> IF r \in active THEN remaining[r] - 1 ELSE remaining[r]]
      /\ active' = active \ Leaving
      /\ finish' = [r \in Requests |-> IF r \in Leaving THEN time' ELSE finish[r]]
  BY DEF Decode
<1>5. time' \in Nat /\ busy' \in Nat /\ time <= time' /\ Unit \in Nat
  BY <1>1, <1>2, <1>t, BatchingAssumption DEF TypeOK, Unit
<1>6. Leaving \subseteq active /\ active \subseteq admitted /\ admitted \subseteq Requests
  BY <1>t DEF Leaving, TypeOK
<1>7. Completed' = Completed \cup Leaving /\ Completed \cap active = {}
  BY <1>3, <1>4, <1>6 DEF Completed
<1>8. TypeOK'
  <2>1. /\ admitted' \subseteq Requests /\ active' \subseteq admitted'
        /\ finish' \in [Requests -> Nat]
    BY <1>3, <1>4, <1>5, <1>6, <1>t DEF TypeOK
  <2>2. remaining' \in [Requests -> Int]
    BY <1>4, <1>t DEF TypeOK
  <2>3. Cardinality(active') <= Cardinality(active) /\ Cardinality(active') \in Nat
    <3>1. active' \in SUBSET active
      BY <1>4
    <3> QED BY <3>1, <1>1, FS_Subset, FS_CardinalityType
  <2>4. Cardinality(active') <= MaxActive
    BY <2>3, <1>1, <1>t, BatchingAssumption DEF TypeOK
  <2> QED BY <2>1, <2>2, <2>4, <1>3, <1>5, <1>t DEF TypeOK
<1>9. ClockAccounted'
  BY <1>1, <1>2, <1>3, <1>t DEF IInv, ClockAccounted, TypeOK
(* After the step an active request has had one more.                      *)
<1>10. ASSUME NEW r \in active
       PROVE  /\ r \in Requests
              /\ remaining[r] - 1 <= output[r]
              /\ start[r] + prompt[r] * PrefillPerToken
                   + (output[r] - (remaining[r] - 1)) * Unit <= time'
  <2>1. /\ start[r] \in Int /\ prompt[r] \in Int /\ PrefillPerToken \in Int
        /\ output[r] \in Int /\ remaining[r] \in Int /\ r \in Requests
    BY <1>6, <1>10, <1>t, BatchingAssumption DEF TypeOK
  <2> DEFINE p == prompt[r] * PrefillPerToken
             m == output[r] - remaining[r]
  <2>2. p \in Int /\ m \in Int /\ m * Unit \in Int
    BY <2>1, <1>5, TimesType
  <2>3. start[r] + p + m * Unit <= time /\ remaining[r] <= output[r]
    BY <1>10 DEF IInv, Progress
  <2>4. output[r] - (remaining[r] - 1) = m + 1
    BY <2>1
  <2> HIDE DEF m
  <2>5. (m + 1) * Unit = m * Unit + Unit
    BY <2>2, <1>5
  <2> HIDE DEF p
  <2>6. start[r] + p + (m + 1) * Unit <= time'
    BY <2>1, <2>2, <2>3, <2>5, <1>1, <1>2, <1>5, <1>t DEF TypeOK
  <2> QED BY <2>1, <2>3, <2>4, <2>6 DEF p
<1>11. Progress'
  <2>1. ASSUME NEW q \in admitted PROVE start[q] <= time'
    <3>1. start[q] \in Nat /\ time \in Nat /\ start[q] <= time
      BY <2>1, <1>t DEF IInv, Progress, TypeOK
    <3> QED BY <3>1, <1>5
  <2>2. \A r \in active' : r \in active /\ remaining'[r] = remaining[r] - 1
    BY <1>4, <1>6
  <2>3. ASSUME NEW r \in active'
        PROVE  /\ remaining'[r] <= output'[r]
               /\ start'[r] + prompt'[r] * PrefillPerToken
                    + (output'[r] - remaining'[r]) * Unit <= time'
    BY <2>2, <2>3, <1>3, <1>10
  <2>4. /\ \A q, r \in Requests : q < r => arrival'[q] <= arrival'[r]
        /\ \A r \in admitted', q \in Requests : q < r => q \in admitted'
        /\ \A r \in admitted' : arrival'[r] <= start'[r] /\ start'[r] <= time'
    BY <2>1, <1>3 DEF IInv, Progress
  <2> QED BY <2>3, <2>4 DEF Progress
<1>12. Order'
  <2>1. ASSUME NEW q \in Completed' PROVE finish'[q] <= time'
    <3>1. CASE q \in Leaving
      BY <3>1, <1>4, <1>5, <1>6
    <3>2. CASE q \notin Leaving
      <4>1. q \in Completed /\ q \in Requests /\ finish'[q] = finish[q]
        BY <3>2, <2>1, <1>4, <1>6, <1>7 DEF Completed
      <4>2. finish[q] \in Nat /\ time \in Nat /\ finish[q] <= time
        BY <4>1, <1>t DEF IInv, Order, TypeOK
      <4> QED BY <4>1, <4>2, <1>5
    <3> QED BY <3>1, <3>2
  <2>2. ASSUME NEW q \in active', NEW r \in active', q < r, output'[q] <= output'[r]
        PROVE  remaining'[q] <= remaining'[r]
    <3>1. q \in active /\ r \in active /\ q \in Requests /\ r \in Requests
      BY <2>2, <1>4, <1>6
    <3>2. remaining[q] <= remaining[r]
      BY <3>1, <2>2, <1>3 DEF IInv, Order
    <3>3. remaining[q] \in Int /\ remaining[r] \in Int
      BY <3>1, <1>t DEF TypeOK
    <3> QED BY <3>1, <3>2, <3>3, <1>4
  <2>3. ASSUME NEW q \in active', NEW r \in Completed', q < r
        PROVE  output'[q] > output'[r]
    <3>1. q \in active /\ q \notin Leaving
      BY <2>3, <1>4
    <3>2. CASE r \in Completed
      BY <3>1, <3>2, <2>3, <1>3 DEF IInv, Order
    <3>3. CASE r \in Leaving
      <4>1. remaining[r] - 1 <= 0 /\ ~(remaining[q] - 1 <= 0) /\ r \in active
        BY <3>1, <3>3 DEF Leaving
      <4>2. /\ remaining[r] \in Int /\ remaining[q] \in Int
            /\ output[r] \in Nat /\ output[q] \in Nat
        BY <3>1, <4>1, <1>6, <1>t DEF TypeOK
      <4>3. ~(output[q] <= output[r])
        BY <3>1, <4>1, <4>2, <2>3 DEF IInv, Order
      <4> QED BY <4>2, <4>3, <1>3
    <3> QED BY <3>2, <3>3, <2>3, <1>7
  <2> QED BY <2>1, <2>2, <2>3 DEF Order
<1>13. ShorterIsNotOvertaken'
  <2> SUFFICES ASSUME NEW q \in Completed', NEW r \in Completed', q < r, output[q] <= output[r]
               PROVE  finish'[q] <= finish'[r]
    BY <1>3 DEF ShorterIsNotOvertaken
  <2>1. q \in Requests /\ r \in Requests
    BY <1>6, <1>7 DEF Completed
  <2>2. CASE r \in Leaving
    <3>1. finish'[r] = time'
      BY <2>1, <2>2, <1>4
    <3> QED BY <3>1, <1>12 DEF Order
  <2>3. CASE r \notin Leaving
    <3>1. r \in Completed /\ finish'[r] = finish[r]
      BY <2>1, <2>3, <1>4, <1>7
    <3>2. q \notin active
      <4>1. output[q] \in Nat /\ output[r] \in Nat
        BY <2>1, <1>t DEF TypeOK
      <4> QED BY <3>1, <4>1 DEF IInv, Order
    <3>3. q \in Completed /\ finish'[q] = finish[q]
      BY <2>1, <3>2, <1>4, <1>6, <1>7
    <3> QED BY <3>1, <3>3 DEF IInv, ShorterIsNotOvertaken
  <2> QED BY <2>2, <2>3
<1>14. LatencyCoversWork'
  <2> SUFFICES ASSUME NEW r \in Completed'
               PROVE  /\ arrival[r] <= start[r]
                      /\ start[r] + prompt[r] * PrefillPerToken + output[r] * Unit <= finish'[r]
    BY <1>3 DEF LatencyCoversWork
  <2>1. CASE r \notin Leaving
    <3>1. r \in Completed /\ finish'[r] = finish[r]
      BY <2>1, <1>4, <1>6, <1>7 DEF Completed
    <3> QED BY <3>1 DEF IInv, LatencyCoversWork
  <2>2. CASE r \in Leaving
    <3>1. r \in active /\ r \in Requests /\ finish'[r] = time' /\ remaining[r] - 1 <= 0
      BY <2>2, <1>4, <1>6 DEF Leaving
    <3>2. arrival[r] <= start[r]
      BY <3>1, <1>6 DEF IInv, Progress
    <3> DEFINE p == prompt[r] * PrefillPerToken
               n == output[r] - (remaining[r] - 1)
    <3>3. /\ start[r] \in Int /\ prompt[r] \in Int /\ PrefillPerToken \in Int
          /\ output[r] \in Int /\ remaining[r] \in Int
      BY <3>1, <1>t, BatchingAssumption DEF TypeOK
    <3>4. p \in Int /\ n \in Int /\ output[r] <= n
      BY <3>1, <3>3, TimesType
    <3>5. start[r] + p + n * Unit <= time'
      BY <3>1, <1>10
    <3> HIDE DEF p, n
    <3>6. output[r] * Unit <= n * Unit /\ output[r] * Unit \in Int /\ n * Unit \in Int
      BY <3>3, <3>4, <1>5, TimesGrow, TimesType
    <3>7. start[r] + p + output[r] * Unit <= time'
      BY <3>3, <3>4, <3>5, <3>6, <1>5
    <3> QED BY <3>1, <3>2, <3>7 DEF p
  <2> QED BY <2>1, <2>2
<1> QED BY <1>8, <1>9, <1>11, <1>12, <1>13, <1>14 DEF IInv

-----------------------------------------------------------------------------
LEMMA SchedulerStep == IInv /\ [Next]_vars => IInv'
<1> SUFFICES ASSUME IInv, [Next]_vars PROVE IInv'
  OBVIOUS
<1>1. CASE UNCHANGED vars
  BY <1>1
  DEF vars, input, IInv, TypeOK, ClockAccounted, Progress, Order,
      ShorterIsNotOvertaken, LatencyCoversWork, Completed
<1> QED BY <1>1, AdmitStep, SkipStep, DecodeStep DEF Next

(* The inductive invariant holds for every workload and every setting.     *)
THEOREM SchedulerInvariant == Spec => []IInv
BY SchedulerStep, InitInvariant, PTL DEF Spec

(* The variables keep their types: places in the queue are requests, times *)
(* are natural numbers and no more than MaxActive requests are active.     *)
THEOREM SchedulerTypes == Spec => []TypeOK
<1>1. IInv => TypeOK
  BY DEF IInv
<1> QED BY <1>1, SchedulerInvariant, PTL

(* Busy and idle time of the GPU add up to the clock, in every branch.     *)
THEOREM TimeIsAccountedFor == Spec => []ClockAccounted
<1>1. IInv => ClockAccounted
  BY DEF IInv
<1> QED BY <1>1, SchedulerInvariant, PTL

(* No request is overtaken by a later one of the same length or longer.    *)
THEOREM FirstComeFirstServed == Spec => []ShorterIsNotOvertaken
<1>1. IInv => ShorterIsNotOvertaken
  BY DEF IInv
<1> QED BY <1>1, SchedulerInvariant, PTL

(* A reported latency covers the request's own prefill and decode steps.   *)
THEOREM LatencyIsPlausible == Spec => []LatencyCoversWork
<1>1. IInv => LatencyCoversWork
  BY DEF IInv
<1> QED BY <1>1, SchedulerInvariant, PTL

(* The GPU idles only when every request that has arrived is finished.     *)
THEOREM WorkConserving == Spec => NeverIdleWhileWaiting
<1>1. ASSUME [Next]_vars, idle' # idle PROVE Arrived \subseteq Completed
  <2>1. Skip
    BY <1>1 DEF Next, Admit, Decode, vars
  <2>2. active = {} /\ Waiting = {}
    BY <2>1 DEF Skip
  <2> QED BY <2>2 DEF Arrived, Completed, Waiting
<1>2. [Next]_vars => [idle' # idle => Arrived \subseteq Completed]_vars
  BY <1>1
<1> QED BY <1>2, PTL DEF Spec, NeverIdleWhileWaiting

=============================================================================
