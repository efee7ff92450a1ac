--------------------------- MODULE BenchmarkProofs ---------------------------
(***************************************************************************)
(* Theorems about the evaluations and benchmarks that write rows and       *)
(* summaries of them, and about the percentiles in those.                  *)
(***************************************************************************)
EXTENDS ResumableEvaluation, LoadBenchmarks, StaticBatching, ContinuousBatchingProofs,
        SequenceTheorems, FunctionTheorems, FiniteSetTheorems, WellFoundedInduction, TLAPS

(***************************************************************************)
(* Least and greatest numbers                                              *)
(***************************************************************************)
LEMMA LeastNatural ==
  ASSUME NEW S, S \subseteq Nat, S # {}
  PROVE  \E m \in S : \A k \in S : m <= k
<1>1. PICK m \in S : \A k \in S : <<k, m>> \notin OpToRel(<, Nat)
  <2>1. IsWellFoundedOn(OpToRel(<, Nat), Nat)
    BY NatLessThanWellFounded
  <2> QED BY <2>1, WFMin
<1>2. \A k \in S : ~(k < m)
  BY <1>1 DEF OpToRel
<1> QED BY <1>2

(* Of a finite set some member has the greatest value: a member that has   *)
(* least others above it, as one of those would have fewer.                *)
LEMMA GreatestValue ==
  ASSUME NEW D, IsFiniteSet(D), D # {}, NEW f, \A d \in D : f[d] \in Nat
  PROVE  \E d \in D : \A e \in D : f[e] <= f[d]
<1> DEFINE Above(d) == {e \in D : f[e] > f[d]}
           Counts == {Cardinality(Above(d)) : d \in D}
<1>1. \A d \in D : IsFiniteSet(Above(d)) /\ Cardinality(Above(d)) \in Nat
  <2> SUFFICES ASSUME NEW d \in D
               PROVE  IsFiniteSet(Above(d)) /\ Cardinality(Above(d)) \in Nat
    OBVIOUS
  <2>1. Above(d) \in SUBSET D
    OBVIOUS
  <2> HIDE DEF Above
  <2>2. IsFiniteSet(Above(d))
    BY <2>1, FS_Subset
  <2> QED BY <2>2, FS_CardinalityType
<1>2. Counts \subseteq Nat /\ Counts # {}
  <2> HIDE DEF Above
  <2> QED BY <1>1
<1>3. PICK m \in Counts : \A k \in Counts : m <= k
  <2> HIDE DEF Counts
  <2> QED BY <1>2, LeastNatural
<1>4. PICK d \in D : m = Cardinality(Above(d))
  BY <1>3
<1>5. ASSUME NEW e \in D, f[e] > f[d] PROVE FALSE
  <2>1. Above(e) \in SUBSET Above(d) /\ e \in Above(d) /\ e \notin Above(e)
    BY <1>5
  <2>2. Cardinality(Above(d)) <= Cardinality(Above(e))
    BY <1>3, <1>4
  <2> HIDE DEF Above, Counts
  <2>3. Cardinality(Above(e)) <= Cardinality(Above(d))
    BY <1>1, <2>1, FS_Subset
  <2>4. Cardinality(Above(e)) = Cardinality(Above(d))
    BY <1>1, <2>2, <2>3
  <2> QED BY <1>1, <2>1, <2>4, FS_Subset
<1> QED BY <1>5

(***************************************************************************)
(* Percentiles                                                             *)
(***************************************************************************)
LEMMA RanksAreFinite ==
  ASSUME NEW D, IsFiniteSet(D), NEW f, DOMAIN f = D, NEW x
  PROVE  /\ IsFiniteSet(Below(f, x)) /\ Cardinality(Below(f, x)) \in Nat
         /\ IsFiniteSet(UpTo(f, x)) /\ Cardinality(UpTo(f, x)) \in Nat
<1>1. Below(f, x) \in SUBSET D /\ UpTo(f, x) \in SUBSET D
  BY DEF Below, UpTo
<1>2. IsFiniteSet(Below(f, x)) /\ IsFiniteSet(UpTo(f, x))
  BY <1>1, FS_Subset
<1> QED BY <1>2, FS_CardinalityType

(* There is an i-th smallest value: the least one with i values up to it.  *)
LEMMA RankExists ==
  ASSUME NEW D, IsFiniteSet(D), NEW f, DOMAIN f = D, \A d \in D : f[d] \in Nat,
         NEW i \in 1..Cardinality(D)
  PROVE  \E x \in {f[d] : d \in D} :
           Cardinality(Below(f, x)) < i /\ i <= Cardinality(UpTo(f, x))
<1> DEFINE V == {v \in {f[d] : d \in D} : i <= Cardinality(UpTo(f, v))}
<1>0. Cardinality(D) \in Nat /\ i \in Nat /\ i >= 1
  BY FS_CardinalityType
<1>1. D # {}
  BY <1>0, FS_EmptySet
<1>2. V \subseteq Nat /\ V # {}
  <2>1. PICK d \in D : \A e \in D : f[e] <= f[d]
    BY <1>1, GreatestValue
  <2>2. UpTo(f, f[d]) = D
    BY <2>1 DEF UpTo
  <2> QED BY <1>0, <2>2
<1>3. PICK v \in V : \A w \in V : v <= w
  <2> HIDE DEF V
  <2> QED BY <1>2, LeastNatural
<1>4. /\ IsFiniteSet(Below(f, v)) /\ Cardinality(Below(f, v)) \in Nat
  BY RanksAreFinite
<1>5. ASSUME i <= Cardinality(Below(f, v)) PROVE FALSE
  <2>1. Below(f, v) # {}
    BY <1>0, <1>5, FS_EmptySet
  <2>2. Below(f, v) \subseteq D
    BY DEF Below
  <2>3. PICK d \in Below(f, v) : \A e \in Below(f, v) : f[e] <= f[d]
    BY <1>4, <2>1, <2>2, GreatestValue
  <2>4. Below(f, v) \in SUBSET UpTo(f, f[d])
    BY <2>2, <2>3 DEF UpTo
  <2>5. Cardinality(Below(f, v)) <= Cardinality(UpTo(f, f[d]))
        /\ Cardinality(UpTo(f, f[d])) \in Nat
    BY <2>4, RanksAreFinite, FS_Subset
  <2>6. f[d] \in V
    BY <1>0, <1>4, <1>5, <2>2, <2>3, <2>5
  <2>7. f[d] < v
    BY <2>3 DEF Below
  <2> QED BY <1>2, <1>3, <2>6, <2>7
<1> QED BY <1>0, <1>3, <1>4, <1>5

LEMMA AscendingRank ==
  ASSUME NEW D, IsFiniteSet(D), NEW f, DOMAIN f = D, \A d \in D : f[d] \in Nat,
         NEW i \in 1..Cardinality(D)
  PROVE  /\ \E d \in D : Ascending(f)[i] = f[d]
         /\ Ascending(f)[i] \in Nat
         /\ Cardinality(Below(f, Ascending(f)[i])) < i
         /\ i <= Cardinality(UpTo(f, Ascending(f)[i]))
<1> DEFINE Ranked(x) == Cardinality(Below(f, x)) < i /\ i <= Cardinality(UpTo(f, x))
           a == Ascending(f)[i]
<1>1. a = CHOOSE x \in {f[d] : d \in D} : Ranked(x)
  BY DEF Ascending
<1>2. \E x \in {f[d] : d \in D} : Ranked(x)
  BY RankExists
<1>3. a \in {f[d] : d \in D} /\ Ranked(a)
  <2> HIDE DEF Ranked, a
  <2> QED BY <1>1, <1>2
<1> QED BY <1>3

LEMMA AscendingGrows ==
  ASSUME NEW D, IsFiniteSet(D), NEW f, DOMAIN f = D, \A d \in D : f[d] \in Nat,
         NEW i \in 1..Cardinality(D), NEW j \in 1..Cardinality(D), i <= j
  PROVE  Ascending(f)[i] <= Ascending(f)[j]
<1> DEFINE a == Ascending(f)[i]
           b == Ascending(f)[j]
<1>1. a \in Nat /\ Cardinality(Below(f, a)) < i
  BY AscendingRank
<1>2. b \in Nat /\ j <= Cardinality(UpTo(f, b))
  BY AscendingRank
<1> HIDE DEF a, b
<1>3. ASSUME b < a PROVE FALSE
  <2>1. UpTo(f, b) \in SUBSET Below(f, a)
    BY <1>1, <1>2, <1>3 DEF UpTo, Below
  <2>2. Cardinality(Below(f, a)) \in Nat /\ Cardinality(UpTo(f, b)) \in Nat
    BY RanksAreFinite
  <2>3. Cardinality(UpTo(f, b)) <= Cardinality(Below(f, a))
    BY <2>1, RanksAreFinite, FS_Subset
  <2>4. Cardinality(D) \in Nat
    BY FS_CardinalityType
  <2> QED BY <1>1, <1>2, <2>2, <2>3, <2>4
<1> QED BY <1>1, <1>2, <1>3 DEF a, b

(* The nearest rank is one of the ranks, and not below p percent of n.     *)
LEMMA RankOfPercent ==
  ASSUME NEW n \in Nat, n > 0, NEW p \in 1..100
  PROVE  /\ (p * n + 99) \div 100 \in 1..n
         /\ 100 * ((p * n + 99) \div 100) >= p * n
<1> DEFINE t == p * n
<1>1. t \in Nat /\ t >= 1 /\ t <= 100 * n
  <2>1. t \in Nat
    OBVIOUS
  <2>2. PICK q \in Nat : n = q + 1
    <3>1. n - 1 \in Nat /\ n = (n - 1) + 1
      OBVIOUS
    <3> QED BY <3>1
  <2>3. t = p * q + p
    BY <2>2
  <2>4. p * q \in Nat
    BY <2>2
  <2>5. PICK r \in Nat : p + r = 100
    <3>1. 100 - p \in Nat /\ p + (100 - p) = 100
      OBVIOUS
    <3> QED BY <3>1
  <2>6. 100 * n = p * n + r * n /\ r * n \in Nat
    BY <2>5
  <2> QED BY <2>1, <2>3, <2>4, <2>6
<1> HIDE DEF t
<1>2. (t + 99) \div 100 \in 1..n /\ 100 * ((t + 99) \div 100) >= t
  BY <1>1
<1> QED BY <1>2 DEF t

LEMMA NearestRankFits ==
  ASSUME NEW D, IsFiniteSet(D), D # {}, NEW f, DOMAIN f = D, \A d \in D : f[d] \in Nat,
         NEW p \in 1..100
  PROVE  /\ NearestRank(f, p) \in Nat
         /\ \E d \in D : NearestRank(f, p) = f[d]
         /\ 100 * Cardinality(UpTo(f, NearestRank(f, p))) >= p * Cardinality(D)
<1> DEFINE n == Cardinality(D)
           rank == (p * n + 99) \div 100
<1>1. n \in Nat /\ n > 0
  BY FS_CardinalityType, FS_EmptySet
<1>2. rank \in 1..n /\ 100 * rank >= p * n
  BY <1>1, RankOfPercent
<1>3. NearestRank(f, p) = Ascending(f)[rank]
  BY <1>1, <1>2 DEF NearestRank
<1> DEFINE a == Ascending(f)[rank]
           u == Cardinality(UpTo(f, a))
<1> HIDE DEF rank
<1>4. a \in Nat /\ rank <= u /\ \E d \in D : a = f[d]
  BY <1>2, AscendingRank
<1>5. u \in Nat
  <2> HIDE DEF a
  <2> QED BY RanksAreFinite
<1>6. p * n \in Nat
  BY <1>1
<1> HIDE DEF u, n
<1>7. 100 * u >= p * n
  BY <1>1, <1>2, <1>4, <1>5, <1>6
<1> QED BY <1>3, <1>4, <1>7 DEF u, n

LEMMA NearestRankGrows ==
  ASSUME NEW D, IsFiniteSet(D), D # {}, NEW f, DOMAIN f = D, \A d \in D : f[d] \in Nat
  PROVE  NearestRank(f, 50) <= NearestRank(f, 95)
<1> DEFINE n == Cardinality(D)
           r(p) == (p * n + 99) \div 100
<1>1. n \in Nat /\ n > 0
  BY FS_CardinalityType, FS_EmptySet
<1>2. r(50) \in 1..n /\ r(95) \in 1..n /\ r(50) <= r(95)
  <2> HIDE DEF n
  <2> QED BY <1>1
<1>3. NearestRank(f, 50) = Ascending(f)[r(50)] /\ NearestRank(f, 95) = Ascending(f)[r(95)]
  BY <1>1, <1>2 DEF NearestRank
<1> HIDE DEF r
<1> QED BY <1>2, <1>3, AscendingGrows

(* A share r of the distance between two values.                           *)
LEMMA ShareOf ==
  ASSUME NEW a \in Nat, NEW c \in Nat, NEW r \in 0..99
  PROVE  a * (100 - r) + (a + c) * r = 100 * a + c * r
<1>1. (a + c) * r = a * r + c * r
  OBVIOUS
<1>2. a * (100 - r) = 100 * a - a * r
  OBVIOUS
<1>3. a * r \in Nat /\ c * r \in Nat /\ 100 * a \in Nat
  OBVIOUS
<1> QED BY <1>1, <1>2, <1>3

LEMMA SharesGrow ==
  ASSUME NEW a \in Nat, NEW b \in Nat, a <= b,
         NEW r \in 0..99, NEW s \in 0..99, r <= s
  PROVE  /\ a * (100 - r) + b * r <= a * (100 - s) + b * s
         /\ 100 * a <= a * (100 - r) + b * r
         /\ a * (100 - r) + b * r <= 100 * b
<1> DEFINE c == b - a
           t == s - r
           u == 100 - s
<1>1. c \in Nat /\ t \in Nat /\ u \in Nat /\ b = a + c /\ s = r + t /\ 100 = r + t + u
  OBVIOUS
<1> HIDE DEF c, t, u
<1>2. a * (100 - r) + b * r = 100 * a + c * r
  BY <1>1, ShareOf
<1>3. a * (100 - s) + b * s = 100 * a + c * s
  BY <1>1, ShareOf
<1>4. c * s = c * r + c * t /\ 100 * b = 100 * a + c * r + c * t + c * u
  BY <1>1
<1>5. c * r \in Nat /\ c * t \in Nat /\ c * u \in Nat /\ 100 * a \in Nat
  BY <1>1
<1> QED BY <1>2, <1>3, <1>4, <1>5

LEMMA BetweenRanksFits ==
  ASSUME NEW D, IsFiniteSet(D), D # {}, NEW f, DOMAIN f = D, \A d \in D : f[d] \in Nat
  PROVE  /\ BetweenRanks(f, 50) \in Nat /\ BetweenRanks(f, 95) \in Nat
         /\ BetweenRanks(f, 50) <= BetweenRanks(f, 95)
         /\ \E d \in D : BetweenRanks(f, 95) <= 100 * f[d]
<1> DEFINE n == Cardinality(D)
           lo(p) == ((n - 1) * p) \div 100 + 1
           hi(p) == IF lo(p) < n THEN lo(p) + 1 ELSE lo(p)
           s(p) == ((n - 1) * p) % 100
           A(i) == Ascending(f)[i]
           B(p) == A(lo(p)) * (100 - s(p)) + A(hi(p)) * s(p)
<1>1. n \in Nat /\ n > 0
  BY FS_CardinalityType, FS_EmptySet
<1>2. \A p \in {50, 95} : BetweenRanks(f, p) = B(p)
  BY DEF BetweenRanks
<1>3. /\ \A i \in 1..n : A(i) \in Nat /\ \E d \in D : A(i) = f[d]
      /\ \A i, j \in 1..n : i <= j => A(i) <= A(j)
  BY AscendingRank, AscendingGrows
<1>4. \A p \in {50, 95} : /\ lo(p) \in 1..n /\ hi(p) \in 1..n /\ lo(p) <= hi(p)
                          /\ s(p) \in 0..99
  <2> HIDE DEF n
  <2> QED BY <1>1
<1>5. \/ lo(50) < lo(95) /\ hi(50) <= lo(95)
      \/ lo(50) = lo(95) /\ hi(50) = hi(95) /\ s(50) <= s(95)
  <2> HIDE DEF n
  <2>1. lo(50) <= lo(95)
    BY <1>1
  <2>2. lo(50) < lo(95) => hi(50) <= lo(95)
    BY <1>1
  <2>3. lo(50) = lo(95) => s(50) <= s(95) /\ hi(50) = hi(95)
    BY <1>1
  <2>4. lo(50) \in Nat /\ lo(95) \in Nat
    BY <1>4, <1>1
  <2> HIDE DEF lo, hi, s
  <2> QED BY <2>1, <2>2, <2>3, <2>4
<1> HIDE DEF lo, hi, s, A
<1>6. \A p \in {50, 95} : /\ B(p) \in Nat
                          /\ 100 * A(lo(p)) <= B(p) /\ B(p) <= 100 * A(hi(p))
  <2> SUFFICES ASSUME NEW p \in {50, 95}
               PROVE  B(p) \in Nat /\ 100 * A(lo(p)) <= B(p) /\ B(p) <= 100 * A(hi(p))
    OBVIOUS
  <2>1. A(lo(p)) \in Nat /\ A(hi(p)) \in Nat /\ A(lo(p)) <= A(hi(p)) /\ s(p) \in 0..99
    BY <1>3, <1>4
  <2>2. 100 * A(lo(p)) <= B(p) /\ B(p) <= 100 * A(hi(p))
    <3>1. s(p) <= s(p)
      BY <2>1
    <3> QED BY <2>1, <3>1, SharesGrow
  <2>3. B(p) \in Nat
    BY <2>1
  <2> QED BY <2>2, <2>3
<1>7. B(50) <= B(95)
  <2>1. CASE lo(50) < lo(95) /\ hi(50) <= lo(95)
    <3>1. A(hi(50)) <= A(lo(95)) /\ A(hi(50)) \in Nat /\ A(lo(95)) \in Nat
      BY <1>3, <1>4, <2>1
    <3> HIDE DEF B
    <3> QED BY <1>6, <3>1
  <2>2. CASE lo(50) = lo(95) /\ hi(50) = hi(95) /\ s(50) <= s(95)
    <3>1. A(lo(50)) \in Nat /\ A(hi(50)) \in Nat /\ A(lo(50)) <= A(hi(50))
      BY <1>3, <1>4
    <3>2. s(50) \in 0..99 /\ s(95) \in 0..99
      BY <1>4
    <3> QED BY <2>2, <3>1, <3>2, SharesGrow
  <2> QED BY <1>5, <2>1, <2>2
<1>8. \E d \in D : B(95) <= 100 * f[d]
  <2>1. PICK d \in D : A(hi(95)) = f[d]
    BY <1>3, <1>4
  <2> HIDE DEF B
  <2> QED BY <1>6, <2>1
<1> HIDE DEF B
<1> QED BY <1>2, <1>6, <1>7, <1>8

(***************************************************************************)
(* The evaluations that can be resumed                                     *)
(***************************************************************************)
LEMMA LeastCase ==
  ASSUME NEW S, S \subseteq RowIds, S # {}
  PROVE  Least(S) \in S /\ Least(S) \in RowIds
<1>1. S \subseteq Nat
  BY EvaluationAssumption DEF RowIds
<1>2. \E c \in S : \A d \in S : c <= d
  BY <1>1, LeastNatural
<1> QED BY <1>2 DEF Least

LEMMA RowOfCase ==
  ASSUME EvaluationTypeOK, starts > 0, NEW c \in RowIds, NEW ok \in BOOLEAN
  PROVE  /\ EvalRow(c, ok) \in EvalRows
         /\ EvalRow(c, ok).id = c /\ EvalRow(c, ok).run = starts
         /\ EvalRow(c, ok).ok = ok /\ EvalRow(c, ok).torn = FALSE
BY EvaluationAssumption DEF EvaluationTypeOK, EvalRow, EvalRows

(* The failures of a batch: the k-th is that of the k-th case.             *)
LEMMA FailuresFit ==
  ASSUME EvaluationTypeOK, starts > 0, NEW S, S \subseteq RowIds
  PROVE  /\ FailuresOf(S) \in Seq(EvalRows)
         /\ \A k \in DOMAIN FailuresOf(S) :
              /\ FailuresOf(S)[k].id \in S /\ FailuresOf(S)[k].run = starts
              /\ ~FailuresOf(S)[k].ok /\ ~FailuresOf(S)[k].torn
<1> DEFINE n == Cardinality(S)
           Chosen(k) == CHOOSE c \in S : Cardinality({d \in S : d < c}) = k - 1
<1>1. S \subseteq Nat /\ S \in SUBSET RowIds
  BY EvaluationAssumption DEF RowIds
<1>2. IsFiniteSet(S) /\ n \in Nat
  <2>1. IsFiniteSet(RowIds)
    BY EvaluationAssumption, FS_Interval DEF RowIds
  <2>2. IsFiniteSet(S)
    BY <1>1, <2>1, FS_Subset
  <2> QED BY <2>2, FS_CardinalityType
<1>3. ASSUME NEW k \in 1..n PROVE Chosen(k) \in S
  <2> DEFINE f == [d \in S |-> d]
  <2>1. DOMAIN f = S /\ \A d \in S : f[d] = d /\ f[d] \in Nat
    BY <1>1
  <2> HIDE DEF f
  <2>2. PICK x \in {f[d] : d \in S} :
          Cardinality(Below(f, x)) < k /\ k <= Cardinality(UpTo(f, x))
    BY <1>2, <1>3, <2>1, RankExists
  <2>3. x \in S /\ x \in Nat
    BY <1>1, <2>1, <2>2
  <2>4. Below(f, x) = {d \in S : d < x}
    BY <2>1 DEF Below
  <2>5. UpTo(f, x) = Below(f, x) \cup {x} /\ x \notin Below(f, x)
    <3>1. UpTo(f, x) = {d \in S : d <= x}
      BY <2>1 DEF UpTo
    <3>2. \A d \in S : d <= x <=> d < x \/ d = x
      BY <1>1, <2>3
    <3>3. ~(x < x)
      BY <2>3
    <3> QED BY <2>3, <2>4, <3>1, <3>2, <3>3
  <2>6. IsFiniteSet(Below(f, x)) /\ Cardinality(Below(f, x)) \in Nat
    BY <1>2, <2>1, RanksAreFinite
  <2>7. Cardinality(UpTo(f, x)) = Cardinality(Below(f, x)) + 1
    BY <2>5, <2>6, FS_AddElement
  <2>8. Cardinality(Below(f, x)) = k - 1
    BY <1>2, <1>3, <2>2, <2>6, <2>7
  <2>9. \E c \in S : Cardinality({d \in S : d < c}) = k - 1
    BY <2>3, <2>4, <2>8
  <2> QED BY <2>9
<1>4. FailuresOf(S) = [k \in 1..n |-> EvalRow(Chosen(k), FALSE)]
  BY DEF FailuresOf
<1> HIDE DEF n, Chosen
<1>5. ASSUME NEW k \in 1..n
      PROVE  LET row == EvalRow(Chosen(k), FALSE) IN
             /\ row \in EvalRows /\ row.id \in S /\ row.run = starts
             /\ ~row.ok /\ ~row.torn
  <2>1. PICK c \in S : c = Chosen(k)
    BY <1>3, <1>5
  <2>2. c \in RowIds
    BY <1>1
  <2> QED BY <2>1, <2>2, RowOfCase
<1>6. FailuresOf(S) \in [1..n -> EvalRows]
  BY <1>4, <1>5
<1> QED BY <1>2, <1>4, <1>5, <1>6, SeqDef

(* Rows put behind those of the file: the file's keep their case and run,  *)
(* and none becomes a success.                                             *)
LEMMA JoinedRows ==
  ASSUME NEW rows \in Seq(EvalRows), NEW new \in Seq(EvalRows)
  PROVE  /\ Joined(rows, new) \in Seq(EvalRows)
         /\ \E s \in 0..1 : \A k \in DOMAIN Joined(rows, new) :
              LET row == Joined(rows, new)[k] IN
              \/ /\ k \in DOMAIN rows /\ row.id = rows[k].id /\ row.run = rows[k].run
                 /\ row.ok => rows[k].ok
              \/ /\ k > Len(rows) /\ k - Len(rows) + s \in DOMAIN new
                 /\ row = new[k - Len(rows) + s]
<1> DEFINE L == Len(rows)
           M == Len(new)
           joined == Joined(rows, new)
<1>1. /\ L \in Nat /\ M \in Nat /\ DOMAIN rows = 1..L /\ DOMAIN new = 1..M
      /\ \A k \in 1..L : rows[k] \in EvalRows
      /\ \A k \in 1..M : new[k] \in EvalRows
  OBVIOUS
<1>0. L = Len(rows) /\ M = Len(new)
  OBVIOUS
<1> HIDE DEF L, M
<1>2. CASE new = <<>>
  <2>1. joined = rows
    BY <1>2 DEF Joined
  <2>2. 0 \in 0..1
    OBVIOUS
  <2> HIDE DEF joined
  <2> QED BY <2>1, <2>2 DEF joined
<1>3. CASE new # <<>> /\ rows # <<>> /\ rows[L].torn
  <2> DEFINE one == [rows[L] EXCEPT !.torn = new[1].torn]
             first == [rows EXCEPT ![L] = one]
             rest == Tail(new)
  <2>1. joined = first \o rest
    BY <1>0, <1>3 DEF Joined
  <2>2. L >= 1 /\ M >= 1
    BY <1>3, <1>1
  <2>3. /\ one \in EvalRows /\ one.id = rows[L].id /\ one.run = rows[L].run
        /\ one.ok = rows[L].ok
    <3>1. rows[L] \in EvalRows /\ new[1] \in EvalRows
      BY <1>1, <2>2
    <3> QED BY <3>1 DEF EvalRows
  <2> HIDE DEF one
  <2>4. /\ first \in Seq(EvalRows) /\ Len(first) = L
        /\ \A k \in 1..L : first[k] = IF k = L THEN one ELSE rows[k]
    BY <1>0, <1>1, <2>2, <2>3, ExceptSeq
  <2>5. /\ rest \in Seq(EvalRows) /\ Len(rest) = M - 1
        /\ \A k \in 1..(M - 1) : rest[k] = new[k + 1]
    BY <1>0, <1>1, <1>3, HeadTailProperties
  <2> HIDE DEF first, rest
  <2>6. joined \in Seq(EvalRows) /\ Len(joined) = L + (M - 1)
    BY <2>1, <2>4, <2>5, ConcatProperties
  <2>7. ASSUME NEW k \in 1..L
        PROVE  /\ joined[k].id = rows[k].id /\ joined[k].run = rows[k].run
               /\ joined[k].ok => rows[k].ok
    <3>1. k \in 1..(Len(first) + Len(rest)) /\ k <= Len(first)
      BY <1>1, <2>2, <2>4, <2>5
    <3>2. joined[k] = first[k]
      BY <2>1, <2>4, <2>5, <3>1, ConcatProperties
    <3> QED BY <2>3, <2>4, <3>2
  <2>8. ASSUME NEW k \in (L + 1)..(L + M - 1)
        PROVE  k - L + 1 \in 1..M /\ joined[k] = new[k - L + 1]
    <3>1. k \in 1..(Len(first) + Len(rest)) /\ ~(k <= Len(first)) /\ k - Len(first) \in 1..(M - 1)
      BY <1>1, <2>2, <2>4, <2>5
    <3>2. joined[k] = rest[k - Len(first)]
      BY <2>1, <2>4, <2>5, <3>1, ConcatProperties
    <3> QED BY <1>1, <2>4, <2>5, <3>1, <3>2
  <2>9. DOMAIN joined = 1..(L + M - 1)
    BY <1>1, <2>2, <2>6
  <2>10. \A k \in DOMAIN joined :
           \/ /\ k \in DOMAIN rows /\ joined[k].id = rows[k].id /\ joined[k].run = rows[k].run
              /\ joined[k].ok => rows[k].ok
           \/ /\ k > L /\ k - L + 1 \in DOMAIN new /\ joined[k] = new[k - L + 1]
    <3> SUFFICES ASSUME NEW k \in 1..(L + M - 1)
                 PROVE  \/ /\ k \in 1..L /\ joined[k].id = rows[k].id
                           /\ joined[k].run = rows[k].run
                           /\ joined[k].ok => rows[k].ok
                        \/ k > L /\ k - L + 1 \in 1..M /\ joined[k] = new[k - L + 1]
      <4> HIDE DEF joined
      <4> QED BY <1>1, <2>9
    <3>1. CASE k <= L
      <4>1. k \in 1..L
        BY <1>1, <3>1
      <4> QED BY <4>1, <2>7
    <3>2. CASE k > L
      <4>1. k \in (L + 1)..(L + M - 1)
        BY <1>1, <3>2
      <4> QED BY <3>2, <4>1, <2>8
    <3> QED BY <1>1, <3>1, <3>2
  <2>11. 1 \in 0..1
    OBVIOUS
  <2> HIDE DEF joined
  <2> QED BY <1>0, <2>6, <2>10, <2>11 DEF joined
<1>4. CASE new # <<>> /\ ~(rows # <<>> /\ rows[L].torn)
  <2>1. joined = rows \o new
    BY <1>0, <1>4 DEF Joined
  <2>2. joined \in Seq(EvalRows) /\ Len(joined) = L + M
    BY <1>0, <2>1, ConcatProperties
  <2>3. \A k \in 1..L : joined[k] = rows[k]
    BY <1>0, <1>1, <2>1, ConcatProperties
  <2>4. \A k \in (L + 1)..(L + M) : k - L + 0 \in 1..M /\ joined[k] = new[k - L + 0]
    BY <1>0, <1>1, <2>1, ConcatProperties
  <2>5. DOMAIN joined = 1..(L + M)
    BY <1>1, <2>2
  <2>6. \A k \in DOMAIN joined :
           \/ /\ k \in DOMAIN rows /\ joined[k].id = rows[k].id /\ joined[k].run = rows[k].run
              /\ joined[k].ok => rows[k].ok
           \/ /\ k > L /\ k - L + 0 \in DOMAIN new /\ joined[k] = new[k - L + 0]
    <3> SUFFICES ASSUME NEW k \in 1..(L + M)
                 PROVE  \/ k \in 1..L /\ joined[k] = rows[k]
                        \/ k > L /\ k - L + 0 \in 1..M /\ joined[k] = new[k - L + 0]
      BY <1>1, <2>5
    <3> HIDE DEF joined
    <3>1. k \in 1..L \/ k \in (L + 1)..(L + M)
      BY <1>1
    <3> QED BY <1>1, <2>3, <2>4, <3>1
  <2>7. 0 \in 0..1
    OBVIOUS
  <2> HIDE DEF joined
  <2> QED BY <1>0, <2>2, <2>6, <2>7 DEF joined
<1> QED BY <1>2, <1>3, <1>4

LEMMA JoinedOnce ==
  ASSUME NEW rows \in Seq(EvalRows), NEW new \in Seq(EvalRows),
         EachOnce(rows), EachOnce(new),
         \A k \in DOMAIN rows, l \in DOMAIN new : rows[k].id # new[l].id
  PROVE  EachOnce(Joined(rows, new))
<1> DEFINE L == Len(rows)
           joined == Joined(rows, new)
<1>1. L \in Nat /\ DOMAIN rows = 1..L
  OBVIOUS
<1>2. DOMAIN new \subseteq Nat
  OBVIOUS
<1>3. joined \in Seq(EvalRows)
  BY JoinedRows
<1>4. PICK s \in 0..1 : \A k \in DOMAIN joined :
        \/ /\ k \in DOMAIN rows /\ joined[k].id = rows[k].id /\ joined[k].run = rows[k].run
           /\ joined[k].ok => rows[k].ok
        \/ /\ k > L /\ k - L + s \in DOMAIN new
           /\ joined[k] = new[k - L + s]
  BY JoinedRows
<1>5. DOMAIN joined \subseteq Nat \ {0}
  BY <1>3
<1> HIDE DEF joined, L
<1>6. ASSUME NEW k \in DOMAIN joined, NEW l \in DOMAIN joined, k < l,
             joined[k].id = joined[l].id
      PROVE  /\ runner = "bnb"
             /\ joined[k].run = joined[l].run
             /\ ~joined[l].ok
  <2>1. k \in Nat /\ l \in Nat /\ k >= 1
    BY <1>5
  <2>2. CASE l \in DOMAIN rows
    <3>1. k \in DOMAIN rows /\ ~(k > L) /\ ~(l > L)
      BY <1>1, <1>6, <2>1, <2>2
    <3>2. /\ joined[k].id = rows[k].id /\ joined[k].run = rows[k].run
          /\ joined[l].id = rows[l].id /\ joined[l].run = rows[l].run
          /\ joined[l].ok => rows[l].ok
      BY <1>4, <3>1
    <3>3. rows[k].id = rows[l].id
      BY <1>6, <3>2
    <3> QED BY <1>6, <2>2, <3>1, <3>2, <3>3 DEF EachOnce
  <2>3. CASE l \notin DOMAIN rows
    <3>1. l > L /\ l - L + s \in DOMAIN new /\ joined[l] = new[l - L + s]
      BY <1>4, <2>3
    <3>2. k \notin DOMAIN rows
      <4>1. SUFFICES ASSUME k \in DOMAIN rows PROVE FALSE
        OBVIOUS
      <4>2. ~(k > L)
        BY <1>1, <2>1, <4>1
      <4>3. joined[k].id = rows[k].id
        BY <1>4, <4>2
      <4> QED BY <1>6, <3>1, <4>1, <4>3
    <3>3. k > L /\ k - L + s \in DOMAIN new /\ joined[k] = new[k - L + s]
      BY <1>4, <3>2
    <3>4. k - L + s < l - L + s
      BY <1>1, <1>6, <2>1
    <3> QED BY <1>6, <3>1, <3>3, <3>4 DEF EachOnce
  <2> QED BY <2>2, <2>3
<1> QED BY <1>6 DEF EachOnce, joined

(* No row is torn: all that were there and all new ones are.               *)
LEMMA JoinedWhole ==
  ASSUME NEW rows \in Seq(EvalRows), NEW new \in Seq(EvalRows),
         \A k \in DOMAIN rows : ~rows[k].torn, \A k \in DOMAIN new : ~new[k].torn
  PROVE  /\ \A k \in DOMAIN Joined(rows, new) : ~Joined(rows, new)[k].torn
         /\ \A k \in DOMAIN rows : \E l \in DOMAIN Joined(rows, new) :
              Joined(rows, new)[l] = rows[k]
         /\ \A k \in DOMAIN new : \E l \in DOMAIN Joined(rows, new) :
              Joined(rows, new)[l] = new[k]
<1> DEFINE L == Len(rows)
           M == Len(new)
           joined == Joined(rows, new)
<1>1. L \in Nat /\ M \in Nat /\ DOMAIN rows = 1..L /\ DOMAIN new = 1..M
  OBVIOUS
<1>2. joined = rows \o new
  <2>1. CASE new = <<>>
    BY <2>1, ConcatProperties DEF Joined
  <2>2. CASE new # <<>>
    <3>1. rows # <<>> => L \in DOMAIN rows
      OBVIOUS
    <3> QED BY <2>2, <3>1 DEF Joined
  <2> QED BY <2>1, <2>2
<1>3. L = Len(rows) /\ M = Len(new)
  OBVIOUS
<1> HIDE DEF joined, L, M
<1>4. joined \in Seq(EvalRows) /\ Len(joined) = L + M
  BY <1>2, <1>3, ConcatProperties
<1>5. /\ DOMAIN joined = 1..(L + M)
      /\ \A k \in 1..L : joined[k] = rows[k]
      /\ \A k \in 1..M : joined[L + k] = new[k]
      /\ \A k \in 1..(L + M) : joined[k] = IF k <= L THEN rows[k] ELSE new[k - L]
  BY <1>1, <1>2, <1>3, <1>4, ConcatProperties
<1>6. \A k \in DOMAIN joined : ~joined[k].torn
  <2> SUFFICES ASSUME NEW k \in 1..(L + M) PROVE ~joined[k].torn
    BY <1>5
  <2>1. CASE k <= L
    BY <1>1, <1>5, <2>1
  <2>2. CASE ~(k <= L)
    <3>1. k - L \in 1..M
      BY <1>1, <2>2
    <3> QED BY <1>1, <1>5, <2>2, <3>1
  <2> QED BY <2>1, <2>2
<1>7. \A k \in 1..L : k \in DOMAIN joined
  BY <1>1, <1>5
<1>8. \A k \in 1..M : L + k \in DOMAIN joined
  BY <1>1, <1>5
<1> QED BY <1>1, <1>5, <1>6, <1>7, <1>8 DEF joined

(* A flush writes rows of cases that had none.                             *)
LEMMA FlushFits ==
  ASSUME EvaluationInvariant, NEW new \in Seq(EvalRows), EachOnce(new),
         header \/ file.header =>
           \A k \in DOMAIN file.rows, l \in DOMAIN new : file.rows[k].id # new[l].id,
         runner = "gsm8k" => \A l \in DOMAIN new : ~new[l].torn,
         file' = Flushed(new), runner' = runner
  PROVE  /\ file'.exists \in BOOLEAN /\ file'.header \in BOOLEAN /\ file'.rows \in Seq(EvalRows)
         /\ file'.exists
         /\ file'.header <=> header \/ file.header
         /\ EvaluatedOnce'
         /\ \A k \in DOMAIN file'.rows :
              \/ \E l \in DOMAIN file.rows : file'.rows[k].id = file.rows[l].id
              \/ \E l \in DOMAIN new : file'.rows[k].id = new[l].id
         /\ runner = "gsm8k" =>
              /\ \A k \in DOMAIN file'.rows : ~file'.rows[k].torn
              /\ \A l \in DOMAIN file.rows : \E k \in DOMAIN file'.rows :
                   file'.rows[k].id = file.rows[l].id
              /\ \A l \in DOMAIN new : \E k \in DOMAIN file'.rows :
                   file'.rows[k].id = new[l].id
<1>1. PICK rows \in Seq(EvalRows) : rows = file.rows
  BY DEF EvaluationInvariant, EvaluationTypeOK
<1>2. /\ file'.exists = TRUE
      /\ file'.header = (header \/ file.header)
      /\ file'.rows = Joined(rows, new)
  BY <1>1 DEF Flushed
<1>3. header \in BOOLEAN /\ file.header \in BOOLEAN
  BY DEF EvaluationInvariant, EvaluationTypeOK
<1>4. Joined(rows, new) \in Seq(EvalRows)
  BY JoinedRows
<1>5. EvaluatedOnce'
  <2>0. ASSUME EachOnce(Joined(rows, new)) PROVE EvaluatedOnce'
    <3>1. EachOnce(file'.rows)
      BY <1>2, <2>0
    <3> HIDE <1>2
    <3> QED BY <3>1 DEF EvaluatedOnce, EachOnce
  <2>1. SUFFICES ASSUME header \/ file.header PROVE EachOnce(Joined(rows, new))
    <3>1. file'.header => header \/ file.header
      BY <1>2, <1>3
    <3> QED BY <2>0, <3>1 DEF EvaluatedOnce
  <2>2. EachOnce(rows)
    <3>1. CASE file.header
      BY <1>1, <3>1 DEF EvaluationInvariant, EvaluatedOnce
    <3>2. CASE header
      BY <1>1, <3>2 DEF EvaluationInvariant, EvaluationFits, EachOnce
    <3> QED BY <2>1, <3>1, <3>2
  <2> QED BY <1>1, <2>1, <2>2, JoinedOnce
<1>6. \A k \in DOMAIN file'.rows :
        \/ \E l \in DOMAIN file.rows : file'.rows[k].id = file.rows[l].id
        \/ \E l \in DOMAIN new : file'.rows[k].id = new[l].id
  <2>1. PICK s \in 0..1 : \A k \in DOMAIN Joined(rows, new) :
          \/ /\ k \in DOMAIN rows /\ Joined(rows, new)[k].id = rows[k].id
             /\ Joined(rows, new)[k].run = rows[k].run
             /\ Joined(rows, new)[k].ok => rows[k].ok
          \/ /\ k > Len(rows) /\ k - Len(rows) + s \in DOMAIN new
             /\ Joined(rows, new)[k] = new[k - Len(rows) + s]
    BY JoinedRows
  <2> QED BY <1>1, <1>2, <2>1
<1>7. ASSUME runner = "gsm8k"
      PROVE  /\ \A k \in DOMAIN file'.rows : ~file'.rows[k].torn
             /\ \A l \in DOMAIN file.rows : \E k \in DOMAIN file'.rows :
                  file'.rows[k].id = file.rows[l].id
             /\ \A l \in DOMAIN new : \E k \in DOMAIN file'.rows :
                  file'.rows[k].id = new[l].id
  <2>1. \A k \in DOMAIN rows : ~rows[k].torn
    BY <1>1, <1>7 DEF EvaluationInvariant, EvaluationFits
  <2> QED BY <1>1, <1>2, <1>7, <2>1, JoinedWhole
<1> QED BY <1>2, <1>3, <1>4, <1>5, <1>6, <1>7

(* What a kill leaves of the buffer: a first part, torn or not.            *)
LEMMA TornRows ==
  ASSUME NEW b \in Seq(EvalRows), NEW n \in 1..Len(b), NEW ok \in BOOLEAN, NEW new,
         \/ new = SubSeq(b, 1, n)
         \/ new = Torn(SubSeq(b, 1, n), n, ok)
  PROVE  /\ new \in Seq(EvalRows) /\ DOMAIN new = 1..n
         /\ \A k \in 1..n : new[k].id = b[k].id
<1> DEFINE part == SubSeq(b, 1, n)
           one == [part[n] EXCEPT !.torn = TRUE, !.ok = ok]
<1>1. /\ Len(b) \in Nat /\ n \in Nat /\ n >= 1 /\ 1 \in Int /\ n \in Int
      /\ \A k \in 1..n : b[k] \in EvalRows
  OBVIOUS
<1>2. /\ part \in Seq(EvalRows) /\ Len(part) = n
      /\ \A k \in 1..n : part[k] = b[k]
  <2>1. /\ part \in Seq(EvalRows) /\ Len(part) = IF 1 <= n THEN n - 1 + 1 ELSE 0
        /\ \A k \in 1..(n - 1 + 1) : part[k] = b[1 + k - 1]
    BY <1>1, SubSeqProperties
  <2> HIDE DEF part
  <2> QED BY <1>1, <2>1
<1> HIDE DEF part
<1>3. one \in EvalRows /\ one.id = b[n].id
  <2>1. part[n] = b[n] /\ b[n] \in EvalRows
    BY <1>1, <1>2
  <2> QED BY <2>1 DEF EvalRows
<1>4. Torn(part, n, ok) = [part EXCEPT ![n] = one]
  BY <1>1, <1>2 DEF Torn
<1>5. CASE new = part
  BY <1>1, <1>2, <1>5, LenProperties
<1>6. CASE new = [part EXCEPT ![n] = one]
  <2> HIDE DEF one
  <2>1. /\ new \in Seq(EvalRows) /\ Len(new) = n
        /\ \A k \in 1..n : new[k] = IF k = n THEN one ELSE part[k]
    BY <1>1, <1>2, <1>3, <1>6, ExceptSeq
  <2>2. DOMAIN new = 1..n
    BY <2>1, LenProperties
  <2> QED BY <1>2, <1>3, <2>1, <2>2
<1> QED BY <1>4, <1>5, <1>6 DEF part

(* Rows of the present batch, flushed while no case of it has a row.       *)
LEMMA BatchFlushFits ==
  ASSUME EvaluationInvariant, runPc \in {"write", "except"},
         NEW new \in Seq(EvalRows), EachOnce(new),
         \A l \in DOMAIN new : new[l].id \in batch,
         file' = Flushed(new), runner' = runner
  PROVE  /\ file'.exists \in BOOLEAN /\ file'.header \in BOOLEAN /\ file'.rows \in Seq(EvalRows)
         /\ file'.exists
         /\ file'.header <=> header \/ file.header
         /\ EvaluatedOnce'
         /\ \A k \in DOMAIN file'.rows :
              \/ \E l \in DOMAIN file.rows : file'.rows[k].id = file.rows[l].id
              \/ file'.rows[k].id \in batch
<1>1. header \/ file.header =>
        \A k \in DOMAIN file.rows, l \in DOMAIN new : file.rows[k].id # new[l].id
  BY DEF EvaluationInvariant, EvaluationFits
<1>2. runner = "bnb"
  BY DEF EvaluationInvariant, EvaluationFits
<1> QED BY <1>1, <1>2, FlushFits

LEMMA BufferOnce ==
  ASSUME EvaluationInvariant
  PROVE  EachOnce(buffer) /\ buffer \in Seq(EvalRows) /\ DOMAIN buffer \subseteq Nat
<1>1. buffer \in Seq(EvalRows)
  BY DEF EvaluationInvariant, EvaluationTypeOK
<1>2. DOMAIN buffer \subseteq Nat
  BY <1>1
<1>3. \A k, l \in DOMAIN buffer : buffer[k].id = buffer[l].id => k = l
  BY DEF EvaluationInvariant, EvaluationFits
<1> QED BY <1>1, <1>2, <1>3 DEF EachOnce

LEMMA StartKeeps ==
  ASSUME EvaluationInvariant, Start \/ Download \/ LoadFails \/ LoadBatchedFails
  PROVE  EvaluationInvariant'
<1>1. /\ UNCHANGED <<runner, file, header, buffer, todo, batch, summary>>
      /\ dataset' \in {"missing", "partial", "whole"} /\ starts' \in 0..MaxStarts
      /\ runPc' \in {"ended", "download", "load"} /\ runPc \in {"ended", "download", "load", "done"}
      /\ runPc' # "ended" => starts' > 0
  BY EvaluationAssumption DEF Start, Download, LoadFails, LoadBatchedFails,
     EvaluationInvariant, EvaluationTypeOK, EvaluationFits
<1>2. EvaluationTypeOK'
  BY <1>1 DEF EvaluationInvariant, EvaluationTypeOK
<1>3. \A k \in DOMAIN buffer' : FALSE
  BY <1>1 DEF EvaluationInvariant, EvaluationFits
<1>4. EvaluationFits'
  <2>1. runPc' \notin {"loop", "write", "except"} /\ ~header' /\ buffer' = <<>>
    BY <1>1 DEF EvaluationInvariant, EvaluationFits
  <2>2. /\ ~file'.exists => file' = NoFile
        /\ runner' = "gsm8k" => \A k \in DOMAIN file'.rows : ~file'.rows[k].torn
    BY <1>1 DEF EvaluationInvariant, EvaluationFits
  <2> QED BY <1>1, <1>3, <2>1, <2>2 DEF EvaluationFits
<1>5. EvaluatedOnce'
  BY <1>1 DEF EvaluationInvariant, EvaluatedOnce, EachOnce
<1> QED BY <1>1, <1>2, <1>4, <1>5 DEF EvaluationInvariant, SummaryCoversDataset

LEMMA OpenKeeps ==
  ASSUME EvaluationInvariant, runPc = "load", NEW resume \in BOOLEAN, NEW n \in 0..NumRows,
         OpenCsv(resume, n),
         runner = "gsm8k" /\ dataset = "whole" => n = NumRows
  PROVE  EvaluationInvariant'
<1>1. /\ UNCHANGED <<runner, starts, dataset, buffer, batch, summary>> /\ runPc' = "loop"
      /\ todo' = 1..n \ (IF resume THEN CompletedIds(file) ELSE {})
      /\ buffer = <<>> /\ starts > 0 /\ ~header
  BY DEF OpenCsv, EvaluationInvariant, EvaluationFits
<1>2. todo' \subseteq RowIds
  BY <1>1, EvaluationAssumption DEF RowIds
<1>3. CASE OpensNew(resume)
  <2>1. header' = TRUE /\ file' = [exists |-> TRUE, header |-> FALSE, rows |-> <<>>]
    BY <1>3 DEF OpenCsv, NoFile
  <2>2. <<>> \in Seq(EvalRows) /\ \A k \in DOMAIN file'.rows : FALSE
    BY <2>1, EmptySeq
  <2>3. todo' = 1..n
    BY <1>1, <1>3 DEF OpensNew, EvaluationInvariant, EvaluationFits, CompletedIds, NoFile
  <2>4. EvaluationTypeOK'
    BY <1>1, <1>2, <2>1, <2>2 DEF EvaluationInvariant, EvaluationTypeOK
  <2>5. EvaluationFits'
    BY <1>1, <2>1, <2>2, <2>3 DEF EvaluationInvariant, EvaluationFits, RowIds
  <2> QED BY <1>1, <2>1, <2>4, <2>5
          DEF EvaluationInvariant, EvaluatedOnce, SummaryCoversDataset
<1>4. CASE ~OpensNew(resume)
  <2>1. header' = FALSE /\ file' = file /\ resume /\ file.exists
    BY <1>4 DEF OpenCsv, OpensNew
  <2>2. EvaluationTypeOK'
    BY <1>1, <1>2, <2>1 DEF EvaluationInvariant, EvaluationTypeOK
  <2>3. file.header => todo' = 1..n \ {file.rows[k].id : k \in DOMAIN file.rows}
    BY <1>1, <2>1 DEF CompletedIds
  <2>4. EvaluationFits'
    BY <1>1, <2>1, <2>3 DEF EvaluationInvariant, EvaluationFits, RowIds
  <2>5. EvaluatedOnce'
    BY <1>1, <2>1 DEF EvaluationInvariant, EvaluatedOnce, EachOnce
  <2> QED BY <1>1, <2>2, <2>4, <2>5 DEF EvaluationInvariant, SummaryCoversDataset
<1> QED BY <1>3, <1>4

LEMMA BatchKeeps ==
  ASSUME EvaluationInvariant, GenerateBatch \/ WriteRow
  PROVE  EvaluationInvariant'
<1>1. /\ UNCHANGED <<runner, starts, dataset, file, header, todo, summary>>
      /\ runPc \in {"loop", "write"} /\ runPc' \in {"write", "except"} /\ runner = "bnb"
      /\ starts > 0
  BY DEF GenerateBatch, WriteRow, EvaluationInvariant, EvaluationFits
<1>2. EvaluatedOnce'
  BY <1>1 DEF EvaluationInvariant, EvaluatedOnce, EachOnce
<1>3. /\ batch' \subseteq todo
      /\ buffer' \in Seq(EvalRows)
      /\ \A k \in DOMAIN buffer' :
           /\ buffer'[k].id \in batch' /\ buffer'[k].run = starts
           /\ \A l \in DOMAIN buffer' : buffer'[k].id = buffer'[l].id => k = l
  <2>1. CASE GenerateBatch
    <3>1. buffer' = buffer /\ buffer = <<>> /\ buffer \in Seq(EvalRows)
      BY <2>1 DEF GenerateBatch, EvaluationInvariant, EvaluationFits, EvaluationTypeOK
    <3> QED BY <2>1, <3>1 DEF GenerateBatch, NextBatch
  <2>2. CASE WriteRow /\ UNCHANGED buffer
    BY <2>2 DEF WriteRow, EvaluationInvariant, EvaluationFits, EvaluationTypeOK
  <2>3. CASE WriteRow /\ buffer' # buffer
    <3> DEFINE S == batch \ Written
    <3>1. batch' = batch /\ batch \subseteq todo /\ batch \subseteq RowIds
          /\ Written \subseteq batch /\ Written # batch
      BY <2>3 DEF WriteRow, Written, EvaluationInvariant, EvaluationFits, EvaluationTypeOK
    <3>2. PICK c \in S : c = Least(S)
      <4>1. S \subseteq RowIds /\ S # {}
        BY <3>1
      <4> QED BY <4>1, LeastCase
    <3>3. PICK row \in EvalRows : row = EvalRow(c, TRUE) /\ row.id = c /\ row.run = starts
      <4>1. c \in RowIds /\ starts > 0 /\ EvaluationTypeOK
        BY <1>1, <3>1 DEF EvaluationInvariant
      <4> QED BY <4>1, RowOfCase
    <3>4. buffer' = Append(buffer, row)
      BY <2>3, <3>2, <3>3 DEF WriteRow
    <3>5. PICK b \in Seq(EvalRows) : b = buffer
      BY BufferOnce
    <3>6. /\ buffer' \in Seq(EvalRows) /\ Len(buffer') = Len(b) + 1
          /\ \A k \in 1..Len(b) : buffer'[k] = b[k]
          /\ buffer'[Len(b) + 1] = row
      BY <3>4, <3>5, AppendProperties
    <3>7. Len(b) \in Nat /\ DOMAIN b = 1..Len(b) /\ DOMAIN buffer' = 1..(Len(b) + 1)
      BY <3>6, LenProperties
    <3>8. \A k \in 1..Len(b) : b[k].id # c
      BY <3>5, <3>7 DEF Written
    <3>9. \A k \in 1..Len(b) :
            /\ b[k].id \in batch /\ b[k].run = starts
            /\ \A l \in 1..Len(b) : b[k].id = b[l].id => k = l
      BY <3>5, <3>7 DEF EvaluationInvariant, EvaluationFits
    <3> DEFINE m == Len(b)
    <3> HIDE DEF m
    <3>10. m \in Nat /\ \A k \in 1..(m + 1) : k \in 1..m \/ k = m + 1
      BY <3>7 DEF m
    <3>11. \A k \in 1..(m + 1) : buffer'[k].id \in batch /\ buffer'[k].run = starts
      BY <3>3, <3>6, <3>9, <3>10 DEF m
    <3>12. \A k, l \in 1..(m + 1) : buffer'[k].id = buffer'[l].id => k = l
      BY <3>3, <3>6, <3>8, <3>9, <3>10 DEF m
    <3> QED BY <3>1, <3>6, <3>7, <3>11, <3>12 DEF m
  <2> QED BY <2>1, <2>2, <2>3
<1>4. EvaluationTypeOK'
  BY <1>1, <1>3 DEF EvaluationInvariant, EvaluationTypeOK
<1>5. EvaluationFits'
  BY <1>1, <1>3 DEF EvaluationInvariant, EvaluationFits
<1> QED BY <1>1, <1>2, <1>4, <1>5 DEF EvaluationInvariant, SummaryCoversDataset

(* A run that ends lets go of what it had.                                 *)
LEMMA EndKeeps ==
  ASSUME EvaluationInvariant, runPc' = "ended", UNCHANGED <<runner, starts, summary>>,
         dataset' \in {"missing", "partial", "whole"},
         header' = FALSE, buffer' = <<>>, todo' \subseteq RowIds, batch' \subseteq RowIds,
         file'.exists \in BOOLEAN, file'.header \in BOOLEAN, file'.rows \in Seq(EvalRows),
         ~file'.exists => file' = NoFile,
         runner = "gsm8k" => \A k \in DOMAIN file'.rows : ~file'.rows[k].torn,
         EvaluatedOnce'
  PROVE  EvaluationInvariant'
<1>1. buffer' \in Seq(EvalRows) /\ \A k \in DOMAIN buffer' : FALSE
  BY EmptySeq
<1>2. EvaluationTypeOK'
  BY <1>1 DEF EvaluationInvariant, EvaluationTypeOK
<1>3. EvaluationFits'
  BY <1>1 DEF EvaluationFits
<1> QED BY <1>2, <1>3 DEF EvaluationInvariant, SummaryCoversDataset

LEMMA NothingFlushed ==
  ASSUME EvaluationInvariant, file' = Flushed(<<>>), runner' = runner
  PROVE  /\ file'.exists \in BOOLEAN /\ file'.header \in BOOLEAN /\ file'.rows \in Seq(EvalRows)
         /\ file'.exists
         /\ file'.header <=> header \/ file.header
         /\ file'.rows = file.rows
         /\ EvaluatedOnce'
<1>1. PICK new \in Seq(EvalRows) : new = <<>>
  BY EmptySeq
<1>2. EachOnce(new) /\ \A l \in DOMAIN new : FALSE
  BY <1>1 DEF EachOnce
<1>3. file' = Flushed(new)
  BY <1>1
<1>4. file'.rows = file.rows
  BY DEF Flushed, Joined
<1> HIDE <1>1
<1> QED BY <1>2, <1>3, <1>4, FlushFits

LEMMA AskKeeps ==
  ASSUME EvaluationInvariant, Ask
  PROVE  EvaluationInvariant'
<1>1. /\ runner = "gsm8k" /\ runPc = "loop" /\ todo # {} /\ todo \subseteq RowIds
      /\ UNCHANGED <<runner, starts, runPc, dataset, buffer, batch, summary>>
      /\ header' = FALSE /\ todo' = todo \ {Least(todo)}
      /\ starts > 0 /\ EvaluationTypeOK
  BY DEF Ask, EvaluationInvariant, EvaluationFits, EvaluationTypeOK
<1>2. PICK c \in todo : c = Least(todo)
  BY <1>1, LeastCase
<1>3. PICK ok \in BOOLEAN : file' = Flushed(<<EvalRow(c, ok)>>)
  BY <1>2 DEF Ask
<1>4. PICK row \in EvalRows : row = EvalRow(c, ok) /\ row.id = c /\ row.torn = FALSE
  <2>1. c \in RowIds
    BY <1>1
  <2> QED BY <1>1, <2>1, RowOfCase
<1>5. PICK new \in Seq(EvalRows) : new = <<row>>
  <2>1. <<>> \in Seq(EvalRows) /\ Append(<<>>, row) = <<row>>
    BY EmptySeq
  <2>2. Append(<<>>, row) \in Seq(EvalRows)
    BY <2>1, AppendProperties
  <2> QED BY <2>1, <2>2
<1>6. DOMAIN new = {1} /\ new[1] = row
  BY <1>5
<1>7. file' = Flushed(new)
  BY <1>3, <1>4, <1>5
<1>8. EachOnce(new)
  BY <1>6 DEF EachOnce
<1>9. header \/ file.header =>
        \A k \in DOMAIN file.rows, l \in DOMAIN new : file.rows[k].id # new[l].id
  BY <1>1, <1>2, <1>4, <1>6 DEF EvaluationInvariant, EvaluationFits
<1>10. \A l \in DOMAIN new : ~new[l].torn
  BY <1>4, <1>6
<1> HIDE <1>3, <1>5
<1>11. /\ file'.exists \in BOOLEAN /\ file'.header \in BOOLEAN /\ file'.rows \in Seq(EvalRows)
       /\ file'.exists
       /\ file'.header <=> header \/ file.header
       /\ EvaluatedOnce'
       /\ \A k \in DOMAIN file'.rows :
            \/ \E l \in DOMAIN file.rows : file'.rows[k].id = file.rows[l].id
            \/ \E l \in DOMAIN new : file'.rows[k].id = new[l].id
       /\ \A k \in DOMAIN file'.rows : ~file'.rows[k].torn
       /\ \A l \in DOMAIN file.rows : \E k \in DOMAIN file'.rows :
            file'.rows[k].id = file.rows[l].id
       /\ \A l \in DOMAIN new : \E k \in DOMAIN file'.rows :
            file'.rows[k].id = new[l].id
  BY <1>1, <1>7, <1>8, <1>9, <1>10, FlushFits
<1>12. EvaluationTypeOK'
  BY <1>1, <1>11 DEF EvaluationTypeOK
<1>13. ASSUME header' \/ file'.header
       PROVE  LET ids == {file'.rows[k].id : k \in DOMAIN file'.rows} IN
              /\ todo' \intersect ids = {}
              /\ dataset' = "whole" => RowIds \subseteq todo' \cup ids
  <2>1. header \/ file.header
    BY <1>1, <1>11, <1>13
  <2>2. \A k \in DOMAIN file'.rows : file'.rows[k].id \notin todo \/ file'.rows[k].id = c
    BY <1>1, <1>4, <1>6, <1>11, <2>1 DEF EvaluationInvariant, EvaluationFits
  <2>3. \E k \in DOMAIN file'.rows : file'.rows[k].id = c
    BY <1>4, <1>6, <1>11
  <2>4. dataset = "whole" => RowIds \subseteq todo \cup {file.rows[k].id : k \in DOMAIN file.rows}
    BY <1>1, <2>1 DEF EvaluationInvariant, EvaluationFits
  <2>5. \A l \in DOMAIN file.rows : \E k \in DOMAIN file'.rows : file'.rows[k].id = file.rows[l].id
    BY <1>11
  <2> HIDE <1>11
  <2> QED BY <1>1, <1>2, <2>2, <2>3, <2>4, <2>5
<1>14. buffer' = <<>> /\ \A k \in DOMAIN buffer' : FALSE
  BY <1>1 DEF EvaluationInvariant, EvaluationFits
<1>15. EvaluationFits'
  BY <1>1, <1>11, <1>13, <1>14 DEF EvaluationFits
<1> QED BY <1>1, <1>11, <1>12, <1>15 DEF EvaluationInvariant, SummaryCoversDataset

LEMMA RaiseKeeps ==
  ASSUME EvaluationInvariant, AskRaises \/ PromptsFail
  PROVE  EvaluationInvariant'
<1>1. /\ runPc = "loop" /\ file' = Flushed(<<>>) /\ header' = FALSE
      /\ todo' = {} /\ batch' = {} /\ runPc' = "ended"
      /\ UNCHANGED <<runner, starts, dataset, buffer, summary>>
  BY DEF AskRaises, PromptsFail, CloseAndRaise
<1>2. /\ file'.exists \in BOOLEAN /\ file'.header \in BOOLEAN /\ file'.rows \in Seq(EvalRows)
      /\ file'.exists /\ file'.rows = file.rows /\ EvaluatedOnce'
  BY <1>1, NothingFlushed
<1>3. /\ buffer' = <<>> /\ dataset' \in {"missing", "partial", "whole"}
      /\ runner = "gsm8k" => \A k \in DOMAIN file'.rows : ~file'.rows[k].torn
  BY <1>1, <1>2 DEF EvaluationInvariant, EvaluationFits, EvaluationTypeOK
<1> QED BY <1>1, <1>2, <1>3, EndKeeps

LEMMA FlushKeeps ==
  ASSUME EvaluationInvariant, FlushBatch
  PROVE  EvaluationInvariant'
<1>1. /\ runPc = "write" /\ file' = Flushed(buffer) /\ header' = FALSE
      /\ buffer' = <<>> /\ todo' = todo \ batch /\ runPc' = "loop"
      /\ UNCHANGED <<runner, starts, dataset, batch, summary>>
      /\ runner = "bnb" /\ starts > 0
  BY DEF FlushBatch, EvaluationInvariant, EvaluationFits
<1>2. PICK new \in Seq(EvalRows) : new = buffer
  BY BufferOnce
<1>3. EachOnce(new) /\ \A l \in DOMAIN new : new[l].id \in batch
  BY <1>2, BufferOnce DEF EvaluationInvariant, EvaluationFits
<1>4. file' = Flushed(new)
  BY <1>1, <1>2
<1> HIDE <1>2
<1>5. /\ file'.exists \in BOOLEAN /\ file'.header \in BOOLEAN /\ file'.rows \in Seq(EvalRows)
      /\ file'.exists
      /\ file'.header <=> header \/ file.header
      /\ EvaluatedOnce'
      /\ \A k \in DOMAIN file'.rows :
           \/ \E l \in DOMAIN file.rows : file'.rows[k].id = file.rows[l].id
           \/ file'.rows[k].id \in batch
  BY <1>1, <1>3, <1>4, BatchFlushFits
<1>6. /\ buffer' \in Seq(EvalRows) /\ \A k \in DOMAIN buffer' : FALSE
  BY <1>1, EmptySeq
<1>7. EvaluationTypeOK'
  BY <1>1, <1>5, <1>6 DEF EvaluationInvariant, EvaluationTypeOK
<1>8. ASSUME file'.header
      PROVE  todo' \intersect {file'.rows[k].id : k \in DOMAIN file'.rows} = {}
  BY <1>1, <1>5, <1>8 DEF EvaluationInvariant, EvaluationFits
<1>9. EvaluationFits'
  BY <1>1, <1>5, <1>6, <1>8 DEF EvaluationFits
<1> QED BY <1>1, <1>5, <1>7, <1>9 DEF EvaluationInvariant, SummaryCoversDataset

LEMMA AbortKeeps ==
  ASSUME EvaluationInvariant, AbortBatch
  PROVE  EvaluationInvariant'
<1>1. /\ runPc = "except" /\ file' = Flushed(buffer \o FailuresOf(batch)) /\ header' = FALSE
      /\ buffer' = <<>> /\ runPc' = "ended"
      /\ UNCHANGED <<runner, starts, dataset, todo, batch, summary>>
      /\ runner = "bnb" /\ starts > 0 /\ batch \subseteq RowIds /\ todo \subseteq RowIds
      /\ EvaluationTypeOK /\ dataset \in {"missing", "partial", "whole"}
  BY DEF AbortBatch, EvaluationInvariant, EvaluationFits, EvaluationTypeOK
<1>2. PICK b \in Seq(EvalRows) : b = buffer
  BY BufferOnce
<1>3. PICK f \in Seq(EvalRows) : f = FailuresOf(batch)
  <2>1. PICK S : S = batch
    OBVIOUS
  <2>2. S \subseteq RowIds
    BY <1>1, <2>1
  <2>3. FailuresOf(S) \in Seq(EvalRows)
    BY <1>1, <2>2, FailuresFit
  <2> QED BY <2>1, <2>3
<1>4. \A k \in DOMAIN f : f[k].id \in batch /\ f[k].run = starts /\ ~f[k].ok
  <2>1. PICK S : S = batch
    OBVIOUS
  <2>2. S \subseteq RowIds
    BY <1>1, <2>1
  <2>3. \A k \in DOMAIN FailuresOf(S) :
          /\ FailuresOf(S)[k].id \in S /\ FailuresOf(S)[k].run = starts
          /\ ~FailuresOf(S)[k].ok
    BY <1>1, <2>2, FailuresFit
  <2> QED BY <1>3, <2>1, <2>3
<1>5. \A k \in DOMAIN b : /\ b[k].id \in batch /\ b[k].run = starts
                          /\ \A l \in DOMAIN b : b[k].id = b[l].id => k = l
  BY <1>2 DEF EvaluationInvariant, EvaluationFits
<1>6. PICK new \in Seq(EvalRows) : new = b \o f
  BY ConcatProperties
<1> DEFINE m == Len(b)
           n == Len(f)
<1>7. /\ m \in Nat /\ n \in Nat /\ DOMAIN b = 1..m /\ DOMAIN f = 1..n
      /\ DOMAIN new = 1..(m + n)
      /\ \A k \in 1..(m + n) : new[k] = IF k <= m THEN b[k] ELSE f[k - m]
  <2>1. Len(new) = m + n
    BY <1>6, ConcatProperties
  <2>2. \A k \in 1..(m + n) : new[k] = IF k <= m THEN b[k] ELSE f[k - m]
    BY <1>6, ConcatProperties
  <2>3. DOMAIN new = 1..Len(new) /\ m \in Nat /\ n \in Nat /\ DOMAIN b = 1..m /\ DOMAIN f = 1..n
    BY LenProperties
  <2> QED BY <2>1, <2>2, <2>3
<1> HIDE DEF m, n
<1>8. \A k \in 1..(m + n) : (k \in 1..m /\ k <= m) \/ (k - m \in 1..n /\ ~(k <= m))
  BY <1>7
<1>9. \A l \in DOMAIN new : new[l].id \in batch /\ new[l].run = starts /\ (l > m => ~new[l].ok)
  <2> SUFFICES ASSUME NEW l \in 1..(m + n)
               PROVE  new[l].id \in batch /\ new[l].run = starts /\ (l > m => ~new[l].ok)
    BY <1>7
  <2>1. CASE l \in 1..m
    <3>1. l <= m /\ ~(l > m)
      BY <1>7, <2>1
    <3> QED BY <1>5, <1>7, <2>1, <3>1
  <2>2. CASE l - m \in 1..n /\ ~(l <= m)
    BY <1>4, <1>7, <2>2
  <2> QED BY <1>8, <2>1, <2>2
<1>10. \A k, l \in DOMAIN new : k < l /\ new[k].id = new[l].id => l > m
  <2> SUFFICES ASSUME NEW k \in 1..(m + n), NEW l \in 1..(m + n), k < l,
                      new[k].id = new[l].id, ~(l > m)
               PROVE  FALSE
    BY <1>7
  <2>1. k \in 1..m /\ l \in 1..m /\ k <= m /\ l <= m /\ k # l
    BY <1>7
  <2> QED BY <1>5, <1>7, <2>1
<1>11. EachOnce(new)
  BY <1>1, <1>9, <1>10 DEF EachOnce
<1>12. file' = Flushed(new)
  BY <1>1, <1>2, <1>3, <1>6
<1>13. /\ file'.exists \in BOOLEAN /\ file'.header \in BOOLEAN /\ file'.rows \in Seq(EvalRows)
       /\ file'.exists /\ EvaluatedOnce'
  <2> HIDE <1>6, <1>7
  <2> QED BY <1>1, <1>9, <1>11, <1>12, BatchFlushFits
<1> HIDE <1>2, <1>3, <1>6
<1> QED BY <1>1, <1>13, EndKeeps

LEMMA KillKeeps ==
  ASSUME EvaluationInvariant, KillRun
  PROVE  EvaluationInvariant'
<1>1. /\ file' \in OnDisk /\ header' = FALSE /\ buffer' = <<>> /\ todo' = {} /\ batch' = {}
      /\ runPc' = "ended"
      /\ UNCHANGED <<runner, starts, summary>>
      /\ dataset' \in {"missing", "partial", "whole"}
  BY DEF KillRun, EvaluationInvariant, EvaluationTypeOK
<1>2. CASE file' = file
  <2>1. /\ file'.exists \in BOOLEAN /\ file'.header \in BOOLEAN /\ file'.rows \in Seq(EvalRows)
        /\ ~file'.exists => file' = NoFile
        /\ runner = "gsm8k" => \A k \in DOMAIN file'.rows : ~file'.rows[k].torn
    BY <1>2 DEF EvaluationInvariant, EvaluationTypeOK, EvaluationFits
  <2>2. EvaluatedOnce'
    BY <1>1, <1>2 DEF EvaluationInvariant, EvaluatedOnce, EachOnce
  <2> QED BY <1>1, <2>1, <2>2, EndKeeps
<1>3. CASE file' # file
  <2>1. PICK b \in Seq(EvalRows) : b = buffer
    BY BufferOnce
  <2>2. PICK n \in 1..Len(b), ok \in BOOLEAN :
          \/ file' = Flushed(SubSeq(b, 1, n))
          \/ file' = Flushed(Torn(SubSeq(b, 1, n), n, ok))
    <3>1. ASSUME NEW n \in 1..Len(b) PROVE b[n].ok \in BOOLEAN
      <4>1. b[n] \in EvalRows
        BY ElementOfSeq
      <4> QED BY <4>1 DEF EvalRows
    <3>2. CASE \E n \in 1..Len(b) : file' = Flushed(SubSeq(b, 1, n))
      BY <3>2
    <3>3. CASE \E n \in 1..Len(b) : \E ok \in {b[n].ok, FALSE} :
                 file' = Flushed(Torn(SubSeq(b, 1, n), n, ok))
      BY <3>1, <3>3
    <3> QED BY <1>1, <1>3, <2>1, <3>2, <3>3 DEF OnDisk
  <2>3. PICK new : /\ file' = Flushed(new)
                   /\ \/ new = SubSeq(b, 1, n)
                      \/ new = Torn(SubSeq(b, 1, n), n, ok)
    BY <2>2
  <2>4. /\ new \in Seq(EvalRows) /\ DOMAIN new = 1..n
        /\ \A k \in 1..n : new[k].id = b[k].id
    <3>1. \/ new = SubSeq(b, 1, n)
          \/ new = Torn(SubSeq(b, 1, n), n, ok)
      BY <2>3
    <3> HIDE <2>1, <2>2, <2>3
    <3> QED BY <3>1, TornRows
  <2>5. Len(b) \in Nat /\ DOMAIN b = 1..Len(b) /\ \A k \in 1..n : k \in 1..Len(b) /\ k \in Nat
    BY LenProperties
  <2>6. \A k \in DOMAIN b : /\ b[k].id \in batch
                            /\ \A l \in DOMAIN b : b[k].id = b[l].id => k = l
    BY <2>1 DEF EvaluationInvariant, EvaluationFits
  <2>7. EachOnce(new) /\ \A l \in DOMAIN new : new[l].id \in batch
    BY <2>4, <2>5, <2>6 DEF EachOnce
  <2>8. runPc \in {"write", "except"} /\ runner = "bnb"
    <3>1. buffer # <<>>
      BY <2>1, <2>5, EmptySeq
    <3> QED BY <3>1 DEF EvaluationInvariant, EvaluationFits
  <2>9. file' = Flushed(new)
    BY <2>3
  <2> HIDE <2>1, <2>2, <2>3
  <2>10. /\ file'.exists \in BOOLEAN /\ file'.header \in BOOLEAN /\ file'.rows \in Seq(EvalRows)
         /\ file'.exists /\ EvaluatedOnce'
    BY <1>1, <2>4, <2>7, <2>8, <2>9, BatchFlushFits
  <2> QED BY <1>1, <2>8, <2>10, EndKeeps
<1> QED BY <1>2, <1>3

LEMMA SummaryFits ==
  ASSUME EvaluationTypeOK, NEW rows \in Seq(EvalRows), NEW f, f.rows = rows
  PROVE  SummaryOf(f) \in [total : Nat, ok : Nat]
         /\ (f.header => SummaryOf(f).total = Len(rows))
<1>1. Len(rows) \in Nat /\ DOMAIN rows = 1..Len(rows) /\ (rows # <<>> => Len(rows) - 1 \in Nat)
  BY LenProperties, EmptySeq
<1> DEFINE good == {k \in DOMAIN rows : rows[k].ok}
<1>2. Cardinality(good) \in Nat
  <2>1. IsFiniteSet(1..Len(rows))
    <3>1. 1 \in Int /\ Len(rows) \in Int
      BY <1>1
    <3> QED BY <3>1, FS_Interval
  <2>2. good \in SUBSET (1..Len(rows))
    BY <1>1
  <2>3. IsFiniteSet(good)
    BY <2>1, <2>2, FS_Subset
  <2> QED BY <2>3, FS_CardinalityType
<1>3. SummaryOf(f) = IF f.header THEN [total |-> Len(rows), ok |-> Cardinality(good)]
                     ELSE [total |-> IF rows = <<>> THEN 0 ELSE Len(rows) - 1, ok |-> 0]
  BY DEF SummaryOf
<1> HIDE DEF good
<1>4. CASE f.header
  <2>1. SummaryOf(f) = [total |-> Len(rows), ok |-> Cardinality(good)]
    BY <1>3, <1>4
  <2> QED BY <1>1, <1>2, <2>1
<1>5. CASE ~f.header
  <2>1. PICK t \in Nat : t = IF rows = <<>> THEN 0 ELSE Len(rows) - 1
    BY <1>1
  <2>2. SummaryOf(f) = [total |-> t, ok |-> 0]
    BY <1>3, <1>5, <2>1
  <2> HIDE <2>1
  <2> QED BY <1>5, <2>2
<1> QED BY <1>4, <1>5

(* Rows of each case once are as many as the cases.                        *)
LEMMA EachCaseOnce ==
  ASSUME NEW rows \in Seq(EvalRows), EachOnce(rows), runner = "gsm8k",
         {rows[k].id : k \in DOMAIN rows} = RowIds
  PROVE  Len(rows) = NumRows
<1> DEFINE n == Len(rows)
           g == [k \in 1..n |-> rows[k].id]
<1>1. n \in Nat /\ DOMAIN rows = 1..n
  BY LenProperties
<1> HIDE DEF n
<1>2. g \in [1..n -> RowIds] /\ \A c \in RowIds : \E k \in 1..n : g[k] = c
  BY <1>1
<1>3. \A k, l \in 1..n : g[k] = g[l] => k = l
  <2>1. \A k, l \in 1..n : k < l => rows[k].id # rows[l].id
    BY <1>1 DEF EachOnce
  <2>2. \A k, l \in 1..n : k < l \/ l < k \/ k = l
    BY <1>1
  <2> QED BY <2>1, <2>2
<1> HIDE DEF g
<1>4. g \in Bijection(1..n, RowIds)
  BY <1>2, <1>3 DEF Bijection, Injection, Surjection, IsInjective
<1>5. Cardinality(RowIds) = n
  BY <1>1, <1>4, FS_CountingElements DEF ExistsBijection
<1>6. Cardinality(RowIds) = NumRows
  BY EvaluationAssumption, FS_Interval DEF RowIds
<1> QED BY <1>5, <1>6 DEF n

LEMMA SummaryKeeps ==
  ASSUME EvaluationInvariant, WriteSummary \/ WriteBatchSummary
  PROVE  EvaluationInvariant'
<1>1. /\ runPc = "loop" /\ todo = {} /\ file' = Flushed(<<>>) /\ header' = FALSE
      /\ runPc' \in {"ended", "done"}
      /\ summary' = SummaryOf(file') \/ summary' = summary
      /\ runner = "gsm8k" => summary' = SummaryOf(file')
      /\ UNCHANGED <<runner, starts, dataset, buffer, todo, batch>>
  BY DEF WriteSummary, WriteBatchSummary
<1>2. /\ file'.exists \in BOOLEAN /\ file'.header \in BOOLEAN /\ file'.rows \in Seq(EvalRows)
      /\ file'.exists
      /\ file'.header <=> header \/ file.header
      /\ file'.rows = file.rows
      /\ EvaluatedOnce'
  BY <1>1, NothingFlushed
<1>3. PICK rows \in Seq(EvalRows) : rows = file'.rows
  BY <1>2
<1>4. PICK f : f = file'
  OBVIOUS
<1>5. /\ SummaryOf(file') \in [total : Nat, ok : Nat]
      /\ file'.header => SummaryOf(file').total = Len(rows)
  <2>1. f.rows = rows /\ EvaluationTypeOK
    BY <1>3, <1>4 DEF EvaluationInvariant
  <2>2. SummaryOf(f) \in [total : Nat, ok : Nat] /\ (f.header => SummaryOf(f).total = Len(rows))
    BY <2>1, SummaryFits
  <2> QED BY <1>4, <2>2
<1>6. /\ buffer' = <<>> /\ starts' > 0 /\ \A k \in DOMAIN buffer' : FALSE
      /\ runner = "gsm8k" => \A k \in DOMAIN file'.rows : ~file'.rows[k].torn
  BY <1>1, <1>2 DEF EvaluationInvariant, EvaluationFits
<1>7. EvaluationTypeOK'
  BY <1>1, <1>2, <1>5 DEF EvaluationInvariant, EvaluationTypeOK
<1>8. EvaluationFits'
  BY <1>1, <1>2, <1>6 DEF EvaluationFits
<1>9. SummaryCoversDataset'
  <2> SUFFICES ASSUME runner = "gsm8k", dataset = "whole", file'.header
               PROVE  summary'.total = NumRows
                      /\ {file'.rows[k].id : k \in DOMAIN file'.rows} = RowIds
    BY <1>1 DEF SummaryCoversDataset
  <2>1. RowIds \subseteq {file.rows[k].id : k \in DOMAIN file.rows}
    BY <1>1, <1>2 DEF EvaluationInvariant, EvaluationFits
  <2>2. \A k \in DOMAIN rows : rows[k].id \in RowIds
    <3>1. \A k \in DOMAIN rows : rows[k] \in EvalRows
      OBVIOUS
    <3> QED BY <3>1 DEF EvalRows
  <2>3. {rows[k].id : k \in DOMAIN rows} = RowIds
    BY <1>2, <1>3, <2>1, <2>2
  <2>4. EachOnce(rows)
    BY <1>1, <1>2, <1>3 DEF EvaluatedOnce, EachOnce
  <2>5. Len(rows) = NumRows
    BY <2>3, <2>4, EachCaseOnce
  <2> QED BY <1>1, <1>3, <1>5, <2>3, <2>5
<1> QED BY <1>2, <1>7, <1>8, <1>9 DEF EvaluationInvariant

LEMMA EvaluationStepKeeps ==
  ASSUME EvaluationInvariant, [EvaluationNext]_evaluationVars
  PROVE  EvaluationInvariant'
<1>1. CASE Start \/ Download \/ LoadFails \/ LoadBatchedFails
  BY <1>1, StartKeeps
<1>2. CASE Load
  <2>1. PICK resume \in BOOLEAN, n \in 0..NumRows :
          (IF dataset = "whole" THEN n = NumRows ELSE n < NumRows) /\ OpenCsv(resume, n)
    BY <1>2 DEF Load
  <2>2. runPc = "load" /\ (runner = "gsm8k" /\ dataset = "whole" => n = NumRows)
    BY <1>2, <2>1 DEF Load
  <2> QED BY <2>1, <2>2, OpenKeeps
<1>3. CASE LoadBatched
  <2>1. PICK resume \in BOOLEAN : OpenCsv(resume, NumRows)
    BY <1>3 DEF LoadBatched
  <2>2. runPc = "load" /\ NumRows \in 0..NumRows /\ runner # "gsm8k"
    BY <1>3, EvaluationAssumption DEF LoadBatched
  <2> QED BY <2>1, <2>2, OpenKeeps
<1>4. CASE Ask
  BY <1>4, AskKeeps
<1>5. CASE AskRaises \/ PromptsFail
  BY <1>5, RaiseKeeps
<1>6. CASE GenerateBatch \/ WriteRow
  BY <1>6, BatchKeeps
<1>7. CASE FlushBatch
  BY <1>7, FlushKeeps
<1>8. CASE AbortBatch
  BY <1>8, AbortKeeps
<1>9. CASE WriteSummary \/ WriteBatchSummary
  BY <1>9, SummaryKeeps
<1>10. CASE KillRun
  BY <1>10, KillKeeps
<1>11. CASE UNCHANGED evaluationVars
  BY <1>11 DEF evaluationVars, EvaluationInvariant, EvaluationTypeOK, EvaluationFits,
     EvaluatedOnce, EachOnce, SummaryCoversDataset
<1> QED BY <1>1, <1>2, <1>3, <1>4, <1>5, <1>6, <1>7, <1>8, <1>9, <1>10, <1>11
        DEF EvaluationNext, EvaluationStep

LEMMA EvaluationStarts == EvaluationInit => EvaluationInvariant
<1> SUFFICES ASSUME EvaluationInit PROVE EvaluationInvariant
  OBVIOUS
<1>1. /\ starts = 0 /\ runPc = "ended" /\ file = NoFile /\ header = FALSE /\ buffer = <<>>
      /\ todo = {} /\ batch = {} /\ summary = NoSummary /\ runner \in {"gsm8k", "bnb"}
      /\ dataset \in {"missing", "whole"}
  BY DEF EvaluationInit
<1>2. /\ buffer \in Seq(EvalRows) /\ (\A k \in DOMAIN buffer : FALSE)
      /\ file.rows \in Seq(EvalRows) /\ (\A k \in DOMAIN file.rows : FALSE)
      /\ file.exists = FALSE /\ file.header = FALSE
  BY <1>1, EmptySeq DEF NoFile
<1>3. EvaluationTypeOK
  <2>1. starts \in 0..MaxStarts /\ summary \in [total : Nat, ok : Nat]
    BY <1>1, EvaluationAssumption DEF NoSummary
  <2> QED BY <1>1, <1>2, <2>1 DEF EvaluationTypeOK
<1>4. EvaluationFits
  BY <1>1, <1>2 DEF EvaluationFits
<1> QED BY <1>1, <1>2, <1>3, <1>4 DEF EvaluationInvariant, EvaluatedOnce, SummaryCoversDataset

(* However often an evaluation is killed and resumed, at any point, a case *)
(* has the rows of one run, and the summary covers the dataset.            *)
THEOREM EvaluationHolds == EvaluationSpec => []EvaluationInvariant
<1>1. EvaluationInvariant /\ [EvaluationNext]_evaluationVars => EvaluationInvariant'
  BY EvaluationStepKeeps
<1> QED BY EvaluationStarts, <1>1, PTL DEF EvaluationSpec

(***************************************************************************)
(* The simulation of static batching, and the summaries of both policies   *)
(***************************************************************************)
LEMMA Division ==
  ASSUME NEW x \in Nat, NEW w \in Nat \ {0}
  PROVE  /\ x \div w \in Nat /\ x % w \in Nat /\ x % w < w
         /\ x = w * (x \div w) + (x % w)
OBVIOUS

(* The numbers from w * k on, w of them, are divided to k.                 *)
LEMMA QuotientIs ==
  ASSUME NEW x \in Nat, NEW w \in Nat \ {0}, NEW k \in Nat,
         w * k <= x, x < w * k + w
  PROVE  x \div w = k
<1> DEFINE d == x \div w
           e == x % w
<1>1. d \in Nat /\ e \in Nat /\ e < w /\ x = w * d + e
  BY Division
<1> HIDE DEF d, e
<1>2. w * k \in Nat /\ w * d \in Nat
  BY <1>1
<1>3. ASSUME d < k PROVE FALSE
  <2>1. w * (d + 1) = w * d + w
    BY <1>1
  <2>2. (d + 1) * w <= k * w
    BY <1>1, <1>3, TimesGrow
  <2>3. (d + 1) * w = w * (d + 1) /\ k * w = w * k
    BY <1>1
  <2> QED BY <1>1, <1>2, <2>1, <2>2, <2>3
<1>4. ASSUME k < d PROVE FALSE
  <2>1. w * (k + 1) = w * k + w
    OBVIOUS
  <2>2. (k + 1) * w <= d * w
    BY <1>1, <1>4, TimesGrow
  <2>3. (k + 1) * w = w * (k + 1) /\ d * w = w * d
    BY <1>1
  <2> QED BY <1>1, <1>2, <2>1, <2>2, <2>3
<1> QED BY <1>1, <1>3, <1>4 DEF d

LEMMA QuotientBelow ==
  ASSUME NEW x \in Nat, NEW w \in Nat \ {0}, NEW k \in Nat, x < w * k
  PROVE  x \div w # k
<1>1. x \div w \in Nat /\ x % w \in Nat /\ x = w * (x \div w) + (x % w)
  BY Division
<1> SUFFICES ASSUME x \div w = k PROVE FALSE
  OBVIOUS
<1>2. w * k \in Nat
  OBVIOUS
<1> QED BY <1>1, <1>2

LEMMA MultipleOf ==
  ASSUME NEW w \in Nat \ {0}, NEW k \in Nat
  PROVE  (w * k + w) % w = 0
<1> DEFINE x == w * (k + 1)
<1>1. x \in Nat /\ x = w * k + w /\ w * k \in Nat
  OBVIOUS
<1> HIDE DEF x
<1>2. w * (k + 1) <= x /\ x < w * (k + 1) + w
  BY <1>1
<1>3. x \div w = k + 1
  BY <1>1, <1>2, QuotientIs
<1>4. x % w \in Nat /\ x = w * (k + 1) + (x % w)
  BY <1>1, <1>3, Division
<1>5. x = w * (k + 1)
  BY <1>1
<1> QED BY <1>1, <1>4, <1>5

LEMMA HighestFits ==
  ASSUME NEW D, IsFiniteSet(D), D # {}, NEW f, \A d \in D : f[d] \in Nat
  PROVE  /\ \E d \in D : Highest({f[e] : e \in D}) = f[d]
         /\ Highest({f[e] : e \in D}) \in Nat
         /\ \A d \in D : f[d] <= Highest({f[e] : e \in D})
<1> DEFINE S == {f[e] : e \in D}
<1>1. \E x \in S : \A y \in S : x >= y
  BY GreatestValue
<1>2. Highest(S) \in S /\ \A y \in S : Highest(S) >= y
  <2> HIDE DEF S
  <2> QED BY <1>1 DEF Highest
<1> QED BY <1>2

LEMMA HighestOf ==
  ASSUME NEW S, NEW m \in S, \A x \in S : x \in Int /\ x <= m
  PROVE  Highest(S) = m
<1>1. Highest(S) \in S /\ \A x \in S : Highest(S) >= x
  BY DEF Highest
<1> QED BY <1>1

(* The next batch: requests served + 1 to m, for whose arrival the GPU     *)
(* waits and each of which has the time for its own tokens.                *)
LEMMA BatchFits ==
  ASSUME IInv, SimulationInvariant, served < N
  PROVE  \E m \in 1..N :
           /\ Available = (served + 1)..m /\ Cardinality(Available) = m - served
           /\ served < m /\ m <= served + MaxActive /\ (m = N \/ m = served + MaxActive)
           /\ Gap \in Nat /\ arrival[m] <= batchClock.time + Gap
           /\ Duration \in Nat
           /\ \A r \in (served + 1)..m :
                prompt[r] * PrefillPerToken + output[r] * DecodePerBatch <= Duration
<1> USE BatchingAssumption, StaticAssumption
<1>1. /\ served \in Nat /\ N \in Nat /\ MaxActive \in Nat /\ MaxActive >= 1
      /\ batchClock.time \in Nat
      /\ arrival \in [Requests -> Nat] /\ prompt \in [Requests -> Nat]
      /\ output \in [Requests -> Nat]
  BY DEF IInv, TypeOK, SimulationInvariant, SimulationTypeOK
<1> DEFINE m == IF served + MaxActive <= N THEN served + MaxActive ELSE N
<1>2. /\ m \in 1..N /\ m \in Nat /\ served < m /\ m <= served + MaxActive
      /\ m = N \/ m = served + MaxActive
  BY <1>1
<1>3. Available = (served + 1)..m
  <2>1. \A r \in (served + 1)..N : r <= served + MaxActive <=> r \in (served + 1)..m
    BY <1>1
  <2>2. (served + 1)..m \subseteq (served + 1)..N
    BY <1>1, <1>2
  <2> HIDE DEF m
  <2> QED BY <2>1, <2>2 DEF Available
<1> HIDE DEF m
<1>4. PICK A : A = Available
  OBVIOUS
<1>5. /\ A = (served + 1)..m /\ m \in A /\ A # {} /\ A \subseteq Requests /\ A \subseteq Int
      /\ \A r \in A : r <= m
  <2>1. A = (served + 1)..m
    BY <1>3, <1>4
  <2>2. m \in (served + 1)..m /\ \A r \in (served + 1)..m : r \in 1..N /\ r \in Int /\ r <= m
    BY <1>1, <1>2
  <2> QED BY <2>1, <2>2 DEF Requests
<1>6. IsFiniteSet(A) /\ Cardinality(A) = m - served /\ m - served >= 1
  <2>1. PICK l \in Int, h \in Int : l = served + 1 /\ h = m
    BY <1>1, <1>2
  <2>2. IsFiniteSet(l..h) /\ Cardinality(l..h) = IF l > h THEN 0 ELSE h - l + 1
    BY FS_Interval
  <2> QED BY <1>1, <1>2, <1>5, <2>1, <2>2
<1>7. Highest(A) = m
  BY <1>5, HighestOf
<1>8. Gap \in Nat /\ arrival[m] <= batchClock.time + Gap
  <2> DEFINE d == arrival[m] - batchClock.time
  <2>1. m \in Requests
    BY <1>5
  <2>2. d \in Int /\ arrival[m] \in Nat
    BY <1>1, <2>1
  <2>3. Gap = Highest({d, 0})
    BY <1>4, <1>7 DEF Gap
  <2>4. \E x \in {d, 0} : \A y \in {d, 0} : x >= y
    <3> HIDE DEF d
    <3>1. d >= 0 \/ 0 >= d
      BY <2>2
    <3> QED BY <2>2, <3>1
  <2>5. Gap \in {d, 0} /\ Gap >= d /\ Gap >= 0
    <3> HIDE DEF d
    <3> QED BY <2>3, <2>4 DEF Highest
  <2> QED BY <1>1, <2>2, <2>5
<1>9. PICK p \in [Requests -> Nat], o \in [Requests -> Nat] : p = prompt /\ o = output
  BY <1>1
<1> DEFINE P == Highest({p[r] : r \in A})
           O == Highest({o[r] : r \in A})
           c == Cardinality(A)
<1>10. /\ P \in Nat /\ \A r \in A : p[r] <= P
       /\ O \in Nat /\ \A r \in A : o[r] <= O
  <2>1. \A r \in A : p[r] \in Nat /\ o[r] \in Nat
    BY <1>5
  <2> QED BY <1>5, <1>6, <2>1, HighestFits
<1>11. Duration = P * PrefillPerToken + O * DecodePerBatch * c
  BY <1>4, <1>9 DEF Duration
<1>12. c \in Nat /\ c >= 1
  BY <1>1, <1>2, <1>6
<1> HIDE DEF P, O, c
<1> DEFINE a == P * PrefillPerToken
           b == O * DecodePerBatch
<1>13. a \in Nat /\ b \in Nat /\ b * c \in Nat
  BY <1>10, <1>12
<1>14. b <= b * c
  <2>1. 1 * b <= c * b
    BY <1>12, <1>13, TimesGrow
  <2>2. c * b = b * c
    BY <1>12, <1>13
  <2> HIDE DEF b
  <2> QED BY <1>13, <2>1, <2>2
<1>15. Duration \in Nat
  BY <1>11, <1>13
<1>16. ASSUME NEW r \in A
       PROVE  prompt[r] * PrefillPerToken + output[r] * DecodePerBatch <= Duration
  <2>1. p[r] \in Nat /\ o[r] \in Nat /\ p[r] <= P /\ o[r] <= O
    BY <1>5, <1>10
  <2>2. p[r] * PrefillPerToken <= a
    BY <1>10, <2>1, TimesGrow
  <2>3. o[r] * DecodePerBatch <= b
    BY <1>10, <2>1, TimesGrow
  <2>4. p[r] * PrefillPerToken \in Nat /\ o[r] * DecodePerBatch \in Nat
    BY <2>1
  <2>5. Duration = a + b * c
    BY <1>11
  <2> HIDE DEF a, b
  <2>6. p[r] * PrefillPerToken + o[r] * DecodePerBatch <= a + b * c
    BY <1>13, <1>14, <2>2, <2>3, <2>4
  <2> QED BY <1>9, <2>5, <2>6
<1> QED BY <1>1, <1>2, <1>4, <1>5, <1>6, <1>8, <1>15, <1>16

LEMMA ServeKeeps ==
  ASSUME IInv, SimulationInvariant, ServeBatch
  PROVE  SimulationInvariant'
<1> USE BatchingAssumption, StaticAssumption
<1>1. /\ served \in Nat /\ N \in Nat /\ MaxActive \in Nat \ {0} /\ served < N
      /\ batchClock.time \in Nat /\ batchClock.busy \in Nat /\ batchClock.idle \in Nat
      /\ arrival \in [Requests -> Nat] /\ prompt \in [Requests -> Nat]
      /\ output \in [Requests -> Nat]
      /\ batchStart \in [Requests -> Nat] /\ batchFinish \in [Requests -> Nat]
      /\ UNCHANGED <<vars, policy, summaries>> /\ policy = "static"
  BY DEF IInv, TypeOK, SimulationInvariant, SimulationTypeOK, ServeBatch
<1>2. PICK m \in 1..N :
        /\ Available = (served + 1)..m /\ Cardinality(Available) = m - served
        /\ served < m /\ m <= served + MaxActive /\ (m = N \/ m = served + MaxActive)
        /\ Gap \in Nat /\ arrival[m] <= batchClock.time + Gap
        /\ Duration \in Nat
        /\ \A r \in (served + 1)..m :
             prompt[r] * PrefillPerToken + output[r] * DecodePerBatch <= Duration
  BY <1>1, BatchFits
<1>3. PICK begin \in Nat, end \in Nat, g \in Nat, d \in Nat :
        /\ g = Gap /\ d = Duration
        /\ begin = batchClock.time + g /\ end = begin + d
  BY <1>1, <1>2
<1>4. /\ batchClock' = [time |-> end, busy |-> batchClock.busy + d, idle |-> batchClock.idle + g]
      /\ batchStart' = [r \in Requests |-> IF r \in Available THEN begin ELSE batchStart[r]]
      /\ batchFinish' = [r \in Requests |-> IF r \in Available THEN end ELSE batchFinish[r]]
      /\ served' = m
  BY <1>1, <1>2, <1>3 DEF ServeBatch, Idled
<1>5. \A r \in 1..N : r \in Available <=> served < r /\ r <= m
  BY <1>1, <1>2
<1>6. /\ batchStart' \in [Requests -> Nat] /\ batchFinish' \in [Requests -> Nat]
      /\ \A r \in 1..N : served < r /\ r <= m => batchStart'[r] = begin /\ batchFinish'[r] = end
      /\ \A r \in 1..N : r <= served =>
           batchStart'[r] = batchStart[r] /\ batchFinish'[r] = batchFinish[r]
  <2> HIDE <1>2, <1>3
  <2>1. batchStart' \in [Requests -> Nat] /\ batchFinish' \in [Requests -> Nat]
    BY <1>1, <1>4
  <2>2. \A r \in 1..N : r <= served => ~(served < r)
    BY <1>1
  <2> QED BY <1>4, <1>5, <2>1, <2>2 DEF Requests
<1>7. SimulationTypeOK'
  <2>1. m \in 0..N /\ batchClock.busy + d \in Nat /\ batchClock.idle + g \in Nat
    BY <1>1
  <2>2. batchClock' \in [time : Nat, busy : Nat, idle : Nat]
    BY <1>4, <2>1
  <2> HIDE <1>2, <1>3
  <2> QED BY <1>1, <1>4, <1>6, <2>1, <2>2 DEF SimulationInvariant, SimulationTypeOK
<1>8. \A r \in 1..served : batchFinish[r] <= batchClock.time
  BY DEF SimulationInvariant, SimulationFits
<1>9. SimulationFits'
  <2>1. batchClock'.busy + batchClock'.idle = batchClock'.time
    BY <1>1, <1>3, <1>4 DEF SimulationInvariant, SimulationFits
  <2>2. ASSUME NEW r \in 1..m PROVE batchFinish'[r] <= end
    <3>1. CASE r <= served
      <4>1. r \in 1..served /\ r \in 1..N /\ r \in Requests
        BY <1>1, <3>1 DEF Requests
      <4>2. batchFinish'[r] = batchFinish[r] /\ batchFinish[r] <= batchClock.time
            /\ batchFinish[r] \in Nat
        BY <1>1, <1>6, <1>8, <3>1, <4>1
      <4> QED BY <1>1, <1>3, <4>2
    <3>2. CASE served < r
      <4>1. batchFinish'[r] = end
        BY <1>6, <3>2
      <4> QED BY <4>1
    <3> QED BY <1>1, <3>1, <3>2
  <2>3. batchFinish'[m] = end
    BY <1>2, <1>6
  <2>4. Completed' = Completed /\ Requests = Requests /\ finish' = finish /\ time' = time
    BY <1>1 DEF vars, input, Completed
  <2>5. Completed' = Requests => \E r \in Requests : finish'[r] = time'
    BY <2>4 DEF SimulationInvariant, SimulationFits
  <2>6. batchClock'.time = end
    BY <1>4
  <2> QED BY <1>4, <2>1, <2>2, <2>3, <2>5, <2>6 DEF SimulationFits
<1> DEFINE k == served \div MaxActive
<1>10. k \in Nat /\ served = MaxActive * k
  <2>1. served % MaxActive = 0
    BY <1>1 DEF SimulationInvariant, BatchesAreFull
  <2>2. k \in Nat /\ served = MaxActive * k + (served % MaxActive)
    BY <1>1, Division
  <2>3. MaxActive * k \in Nat
    BY <1>1, <2>2
  <2> HIDE DEF k
  <2> QED BY <2>1, <2>2, <2>3
<1> HIDE DEF k
<1>11. m % MaxActive = 0 \/ m = N
  BY <1>1, <1>2, <1>10, MultipleOf
<1>12. \A r \in 1..N : served < r /\ r <= m => (r - 1) \div MaxActive = k
  <2> SUFFICES ASSUME NEW r \in 1..N, served < r, r <= m
               PROVE  (r - 1) \div MaxActive = k
    OBVIOUS
  <2>1. PICK x \in Nat : x = r - 1
    OBVIOUS
  <2>2. MaxActive * k <= x /\ x < MaxActive * k + MaxActive
    BY <1>1, <1>2, <1>10, <2>1
  <2>3. x \div MaxActive = k
    BY <1>1, <1>10, <2>2, QuotientIs
  <2> QED BY <2>1, <2>3
<1>13. \A r \in 1..N : r <= served => (r - 1) \div MaxActive # k
  <2> SUFFICES ASSUME NEW r \in 1..N, r <= served
               PROVE  (r - 1) \div MaxActive # k
    OBVIOUS
  <2>1. PICK x \in Nat : x = r - 1
    OBVIOUS
  <2>2. x < MaxActive * k
    BY <1>1, <1>10, <2>1
  <2>3. x \div MaxActive # k
    BY <1>1, <1>10, <2>2, QuotientBelow
  <2> QED BY <2>1, <2>3
<1>14. ASSUME NEW r \in 1..m
       PROVE  /\ arrival[r] <= batchStart'[r]
              /\ batchStart'[r] + prompt[r] * PrefillPerToken + output[r] * DecodePerBatch
                   <= batchFinish'[r]
              /\ \A q \in 1..r :
                   IF (q - 1) \div MaxActive = (r - 1) \div MaxActive
                     THEN batchStart'[q] = batchStart'[r] /\ batchFinish'[q] = batchFinish'[r]
                     ELSE batchFinish'[q] <= batchStart'[r]
  <2>1. CASE r <= served
    <3>1. r \in 1..served /\ r \in 1..N
      BY <1>1, <2>1
    <3>2. batchStart'[r] = batchStart[r] /\ batchFinish'[r] = batchFinish[r]
      BY <1>6, <2>1, <3>1
    <3>3. \A q \in 1..r : q \in 1..N /\ q <= served
      BY <1>1, <3>1
    <3>4. \A q \in 1..r : batchStart'[q] = batchStart[q] /\ batchFinish'[q] = batchFinish[q]
      BY <1>6, <3>3
    <3>5. /\ arrival[r] <= batchStart[r]
          /\ batchStart[r] + prompt[r] * PrefillPerToken + output[r] * DecodePerBatch
               <= batchFinish[r]
          /\ \A q \in 1..r :
               IF (q - 1) \div MaxActive = (r - 1) \div MaxActive
                 THEN batchStart[q] = batchStart[r] /\ batchFinish[q] = batchFinish[r]
                 ELSE batchFinish[q] <= batchStart[r]
      BY <3>1 DEF SimulationInvariant, BatchesAreFull
    <3> QED BY <3>2, <3>4, <3>5
  <2>2. CASE served < r
    <3>1. r \in 1..N /\ r \in Requests /\ m \in Requests /\ r <= m /\ r \in (served + 1)..m
      BY <1>1, <1>2, <2>2 DEF Requests
    <3>2. batchStart'[r] = begin /\ batchFinish'[r] = end
      BY <1>6, <2>2, <3>1
    <3>3. arrival[r] <= begin
      <4>1. arrival[r] \in Nat /\ arrival[m] \in Nat /\ arrival[m] <= begin
        BY <1>1, <1>2, <1>3, <3>1
      <4>2. r = m \/ r < m
        BY <3>1
      <4>3. r < m => arrival[r] <= arrival[m]
        BY <3>1 DEF IInv, Progress
      <4> QED BY <4>1, <4>2, <4>3
    <3>4. begin + prompt[r] * PrefillPerToken + output[r] * DecodePerBatch <= end
      <4> DEFINE a == prompt[r] * PrefillPerToken
                 b == output[r] * DecodePerBatch
      <4>1. prompt[r] \in Nat /\ output[r] \in Nat
        BY <1>1, <3>1
      <4>2. a \in Nat /\ b \in Nat
        BY <4>1
      <4>3. a + b <= d
        BY <1>2, <1>3, <3>1
      <4> HIDE DEF a, b
      <4>4. begin + a + b <= end
        BY <1>3, <4>2, <4>3
      <4> QED BY <4>4 DEF a, b
    <3>5. ASSUME NEW q \in 1..r
          PROVE  IF (q - 1) \div MaxActive = (r - 1) \div MaxActive
                   THEN batchStart'[q] = begin /\ batchFinish'[q] = end
                   ELSE batchFinish'[q] <= begin
      <4>1. q \in 1..N /\ q <= m
        BY <1>1, <3>1
      <4>2. CASE served < q
        <5>1. (q - 1) \div MaxActive = k /\ (r - 1) \div MaxActive = k
          BY <1>12, <2>2, <3>1, <4>1, <4>2
        <5>2. batchStart'[q] = begin /\ batchFinish'[q] = end
          BY <1>6, <4>1, <4>2
        <5> QED BY <5>1, <5>2
      <4>3. CASE q <= served
        <5>1. (q - 1) \div MaxActive # k /\ (r - 1) \div MaxActive = k
          BY <1>12, <1>13, <2>2, <3>1, <4>1, <4>3
        <5>2. batchFinish'[q] = batchFinish[q] /\ q \in 1..served /\ q \in Requests
          BY <1>1, <1>6, <4>1, <4>3 DEF Requests
        <5>3. batchFinish'[q] <= batchClock.time /\ batchFinish'[q] \in Nat
          BY <1>1, <1>8, <5>2
        <5>4. batchFinish'[q] <= begin
          BY <1>1, <1>3, <5>3
        <5> QED BY <5>1, <5>4
      <4> QED BY <1>1, <4>1, <4>2, <4>3
    <3> QED BY <3>2, <3>3, <3>4, <3>5
  <2> QED BY <1>1, <2>1, <2>2
<1>15. BatchesAreFull'
  <2>1. UNCHANGED <<arrival, prompt, output>>
    BY <1>1 DEF vars, input
  <2> QED BY <1>4, <1>11, <1>14, <2>1 DEF BatchesAreFull
<1>16. SummariesShareSpan'
  BY <1>1 DEF SimulationInvariant, SummariesShareSpan, SharesSpan
<1> QED BY <1>7, <1>9, <1>15, <1>16 DEF SimulationInvariant

(* A summary of requests of which the last finished when the time that is  *)
(* accounted for was over.                                                 *)
LEMMA SummaryShares ==
  ASSUME arrival \in [Requests -> Nat],
         NEW b \in [Requests -> Nat], NEW e \in [Requests -> Nat],
         NEW bt \in Nat, NEW it \in Nat,
         \A r \in Requests : arrival[r] <= b[r] /\ b[r] <= e[r] /\ e[r] <= bt + it,
         \E r \in Requests : e[r] = bt + it
  PROVE  /\ PolicySummary(b, e, bt, it) \in PolicySummaries
         /\ SharesSpan(PolicySummary(b, e, bt, it))
<1>1. IsFiniteSet(Requests) /\ Requests # {}
  <2>1. 1 \in Int /\ N \in Int
    BY BatchingAssumption
  <2> QED BY <2>1, FS_Interval DEF Requests
<1>2. PICK w : w = [r \in Requests |-> b[r] - arrival[r]]
  OBVIOUS
<1>3. PICK l : l = [r \in Requests |-> e[r] - arrival[r]]
  OBVIOUS
<1>4. /\ DOMAIN w = Requests /\ \A r \in Requests : w[r] \in Nat
      /\ DOMAIN l = Requests /\ \A r \in Requests : l[r] \in Nat /\ l[r] <= e[r]
  <2> SUFFICES ASSUME NEW r \in Requests
               PROVE  w[r] \in Nat /\ l[r] \in Nat /\ l[r] <= e[r]
    BY <1>2, <1>3
  <2>1. arrival[r] \in Nat /\ b[r] \in Nat /\ e[r] \in Nat
    OBVIOUS
  <2>2. b[r] - arrival[r] \in Nat /\ e[r] - arrival[r] \in Nat /\ e[r] - arrival[r] <= e[r]
    BY <2>1
  <2> QED BY <1>2, <1>3, <2>2
<1>5. /\ BetweenRanks(w, 50) \in Nat /\ BetweenRanks(w, 95) \in Nat
      /\ BetweenRanks(w, 50) <= BetweenRanks(w, 95)
  BY <1>1, <1>4, BetweenRanksFits
<1>6. /\ BetweenRanks(l, 50) \in Nat /\ BetweenRanks(l, 95) \in Nat
      /\ BetweenRanks(l, 50) <= BetweenRanks(l, 95)
      /\ \E r \in Requests : BetweenRanks(l, 95) <= 100 * l[r]
  BY <1>1, <1>4, BetweenRanksFits
<1>7. PICK t \in Nat : t = bt + it
  OBVIOUS
<1>8. Highest({e[r] : r \in Requests}) = t
  <2> DEFINE S == {e[r] : r \in Requests}
  <2>1. t \in S /\ \A x \in S : x \in Int /\ x <= t
    BY <1>7
  <2> HIDE DEF S
  <2>2. Highest(S) = t
    BY <2>1, HighestOf
  <2> QED BY <2>2 DEF S
<1>9. BetweenRanks(l, 95) <= 100 * t
  <2>1. PICK r \in Requests : BetweenRanks(l, 95) <= 100 * l[r]
    BY <1>6
  <2>2. l[r] \in Nat /\ e[r] \in Nat /\ l[r] <= e[r] /\ e[r] <= t
    BY <1>4, <1>7
  <2> QED BY <1>6, <2>1, <2>2
<1>10. PICK w50 \in Nat, w95 \in Nat, l50 \in Nat, l95 \in Nat :
         /\ w50 = BetweenRanks(w, 50) /\ w95 = BetweenRanks(w, 95)
         /\ l50 = BetweenRanks(l, 50) /\ l95 = BetweenRanks(l, 95)
  BY <1>5, <1>6
<1>11. PolicySummary(b, e, bt, it) =
         [results |-> N, finish |-> t, total |-> t,
          wait |-> [p50 |-> w50, p95 |-> w95], latency |-> [p50 |-> l50, p95 |-> l95]]
  BY <1>2, <1>3, <1>7, <1>8, <1>10 DEF PolicySummary
<1>12. w50 <= w95 /\ l50 <= l95 /\ l95 <= 100 * t
  BY <1>5, <1>6, <1>9, <1>10
<1> HIDE <1>2, <1>3, <1>7, <1>10
<1> QED BY <1>11, <1>12 DEF PolicySummaries, Ranks, SharesSpan

(* A summary is noted: the other policy's is as it was.                    *)
LEMMA SummaryNoted ==
  ASSUME SimulationInvariant, NEW p \in {"static", "continuous"},
         NEW s \in PolicySummaries, SharesSpan(s),
         summaries' = [summaries EXCEPT ![p] = s]
  PROVE  /\ summaries' \in [{"static", "continuous"} -> PolicySummaries \cup {NoResult}]
         /\ SummariesShareSpan'
<1>1. summaries \in [{"static", "continuous"} -> PolicySummaries \cup {NoResult}]
  BY DEF SimulationInvariant, SimulationTypeOK
<1>2. /\ summaries' \in [{"static", "continuous"} -> PolicySummaries \cup {NoResult}]
      /\ summaries'[p] = s
      /\ \A q \in {"static", "continuous"} : q # p => summaries'[q] = summaries[q]
  BY <1>1
<1>3. \A q \in {"static", "continuous"} : summaries[q] # NoResult => SharesSpan(summaries[q])
  BY DEF SimulationInvariant, SummariesShareSpan
<1>4. \A q \in {"static", "continuous"} : summaries'[q] # NoResult => SharesSpan(summaries'[q])
  BY <1>2, <1>3
<1> QED BY <1>2, <1>4 DEF SummariesShareSpan, SharesSpan

LEMMA EndStaticKeeps ==
  ASSUME IInv, SimulationInvariant, EndStatic
  PROVE  SimulationInvariant'
<1>1. /\ served = N /\ N \in Nat /\ N > 0
      /\ batchClock.time \in Nat /\ batchClock.busy \in Nat /\ batchClock.idle \in Nat
      /\ arrival \in [Requests -> Nat] /\ prompt \in [Requests -> Nat] /\ output \in [Requests -> Nat]
      /\ batchStart \in [Requests -> Nat] /\ batchFinish \in [Requests -> Nat]
      /\ UNCHANGED <<vars, batchVars>> /\ policy' = "continuous"
      /\ summaries' = [summaries EXCEPT !["static"] =
                         PolicySummary(batchStart, batchFinish, batchClock.busy, batchClock.idle)]
  BY BatchingAssumption, StaticAssumption
     DEF IInv, TypeOK, SimulationInvariant, SimulationTypeOK, EndStatic
<1>2. PICK b \in [Requests -> Nat], e \in [Requests -> Nat], bt \in Nat, it \in Nat :
        b = batchStart /\ e = batchFinish /\ bt = batchClock.busy /\ it = batchClock.idle
  BY <1>1
<1>3. ASSUME NEW r \in Requests
      PROVE  arrival[r] <= b[r] /\ b[r] <= e[r] /\ e[r] <= bt + it
  <2>1. r \in 1..served
    BY <1>1 DEF Requests
  <2>2. /\ arrival[r] <= batchStart[r]
        /\ batchStart[r] + prompt[r] * PrefillPerToken + output[r] * DecodePerBatch
             <= batchFinish[r]
        /\ batchFinish[r] <= batchClock.time
        /\ batchClock.busy + batchClock.idle = batchClock.time
    BY <2>1 DEF SimulationInvariant, SimulationFits, BatchesAreFull
  <2>3. /\ prompt[r] * PrefillPerToken \in Nat /\ output[r] * DecodePerBatch \in Nat
        /\ b[r] \in Nat /\ e[r] \in Nat
    <3>1. prompt[r] \in Nat /\ output[r] \in Nat
      BY <1>1
    <3> QED BY <3>1, BatchingAssumption, StaticAssumption
  <2> DEFINE x == prompt[r] * PrefillPerToken
             y == output[r] * DecodePerBatch
  <2>4. b[r] + x + y <= e[r] /\ x \in Nat /\ y \in Nat
    BY <1>2, <2>2, <2>3
  <2> HIDE DEF x, y
  <2>5. b[r] <= e[r]
    BY <2>3, <2>4
  <2> QED BY <1>2, <2>2, <2>5
<1>4. \E r \in Requests : e[r] = bt + it
  <2>1. N \in Requests
    BY <1>1 DEF Requests
  <2>2. batchFinish[N] = batchClock.time /\ batchClock.busy + batchClock.idle = batchClock.time
    BY <1>1 DEF SimulationInvariant, SimulationFits
  <2> QED BY <1>2, <2>1, <2>2
<1>5. PICK s \in PolicySummaries : s = PolicySummary(b, e, bt, it) /\ SharesSpan(s)
  BY <1>1, <1>3, <1>4, SummaryShares
<1>6. summaries' = [summaries EXCEPT !["static"] = s]
  BY <1>1, <1>2, <1>5
<1> HIDE <1>2
<1>7. /\ summaries' \in [{"static", "continuous"} -> PolicySummaries \cup {NoResult}]
      /\ SummariesShareSpan'
  BY <1>5, <1>6, SummaryNoted
<1>8. SimulationTypeOK' /\ SimulationFits' /\ BatchesAreFull'
  BY <1>1, <1>7 DEF vars, input, batchVars, SimulationInvariant, SimulationTypeOK,
     SimulationFits, BatchesAreFull, Completed
<1> QED BY <1>7, <1>8 DEF SimulationInvariant

LEMMA EndContinuousKeeps ==
  ASSUME IInv, SimulationInvariant, EndContinuous
  PROVE  SimulationInvariant'
<1>1. /\ Completed = Requests
      /\ time \in Nat /\ busy \in Nat /\ idle \in Nat /\ busy + idle = time
      /\ arrival \in [Requests -> Nat] /\ prompt \in [Requests -> Nat] /\ output \in [Requests -> Nat]
      /\ start \in [Requests -> Nat] /\ finish \in [Requests -> Nat]
      /\ UNCHANGED <<vars, batchVars>> /\ policy' = "written"
      /\ summaries' = [summaries EXCEPT !["continuous"] =
                         PolicySummary(start, finish, busy, idle)]
  BY DEF IInv, TypeOK, ClockAccounted, EndContinuous
<1>2. PICK b \in [Requests -> Nat], e \in [Requests -> Nat], bt \in Nat, it \in Nat :
        b = start /\ e = finish /\ bt = busy /\ it = idle
  BY <1>1
<1>3. ASSUME NEW r \in Requests
      PROVE  arrival[r] <= b[r] /\ b[r] <= e[r] /\ e[r] <= bt + it
  <2>1. r \in Completed
    BY <1>1
  <2>2. /\ arrival[r] <= start[r]
        /\ start[r] + prompt[r] * PrefillPerToken + output[r] * Unit <= finish[r]
        /\ finish[r] <= time
    BY <2>1 DEF IInv, LatencyCoversWork, Order
  <2>3. /\ prompt[r] * PrefillPerToken \in Nat /\ output[r] * Unit \in Nat
        /\ b[r] \in Nat /\ e[r] \in Nat
    <3>1. prompt[r] \in Nat /\ output[r] \in Nat /\ Unit \in Nat
      BY <1>1, BatchingAssumption DEF Unit
    <3> QED BY <3>1, BatchingAssumption
  <2> DEFINE x == prompt[r] * PrefillPerToken
             y == output[r] * Unit
  <2>4. b[r] + x + y <= e[r] /\ x \in Nat /\ y \in Nat
    BY <1>2, <2>2, <2>3
  <2> HIDE DEF x, y
  <2>5. b[r] <= e[r]
    BY <2>3, <2>4
  <2> QED BY <1>1, <1>2, <2>2, <2>5
<1>4. \E r \in Requests : e[r] = bt + it
  BY <1>1, <1>2 DEF SimulationInvariant, SimulationFits
<1>5. PICK s \in PolicySummaries : s = PolicySummary(b, e, bt, it) /\ SharesSpan(s)
  BY <1>1, <1>3, <1>4, SummaryShares
<1>6. summaries' = [summaries EXCEPT !["continuous"] = s]
  BY <1>1, <1>2, <1>5
<1> HIDE <1>2
<1>7. /\ summaries' \in [{"static", "continuous"} -> PolicySummaries \cup {NoResult}]
      /\ SummariesShareSpan'
  BY <1>5, <1>6, SummaryNoted
<1>8. SimulationTypeOK' /\ SimulationFits' /\ BatchesAreFull'
  BY <1>1, <1>7 DEF vars, input, batchVars, SimulationInvariant, SimulationTypeOK,
     SimulationFits, BatchesAreFull, Completed
<1> QED BY <1>7, <1>8 DEF SimulationInvariant

(* The last request leaves in the decode step after which all are done.    *)
LEMMA ContinuousKeeps ==
  ASSUME IInv, SimulationInvariant, SimulateContinuous
  PROVE  SimulationInvariant'
<1>1. /\ Next /\ UNCHANGED <<policy, batchVars, summaries>>
      /\ active \subseteq admitted /\ admitted \subseteq Requests /\ finish \in [Requests -> Nat]
  BY DEF SimulateContinuous, IInv, TypeOK
<1>2. UNCHANGED <<arrival, prompt, output>>
  BY <1>1 DEF Next, Admit, Skip, Decode, input
<1>3. SimulationTypeOK' /\ BatchesAreFull' /\ SummariesShareSpan'
  BY <1>1, <1>2 DEF batchVars, SimulationInvariant, SimulationTypeOK, BatchesAreFull,
     SummariesShareSpan, SharesSpan
<1>4. ASSUME Completed' = Requests PROVE \E r \in Requests : finish'[r] = time'
  <2>1. CASE Admit
    <3>1. PICK r \in NextUp : admitted' = admitted \cup {r} /\ active' = active \cup {r}
      BY <2>1 DEF Admit
    <3>2. r \in Requests /\ r \in active'
      BY <3>1 DEF NextUp, First, Waiting
    <3> QED BY <1>4, <3>2 DEF Completed
  <2>2. CASE Skip
    <3>1. admitted' = admitted /\ active' = active
      BY <2>2 DEF Skip
    <3>2. \E r \in Requests : r \notin admitted
      BY <2>2 DEF Skip, First
    <3> QED BY <1>4, <3>1, <3>2 DEF Completed
  <2>3. CASE Decode
    <3>1. /\ active # {} /\ admitted' = admitted /\ active' = active \ Leaving
          /\ finish' = [r \in Requests |-> IF r \in Leaving THEN time' ELSE finish[r]]
      BY <2>3 DEF Decode
    <3>2. PICK r \in active : r \in Requests
      BY <1>1, <3>1
    <3>3. r \in Leaving
      BY <1>4, <3>1, <3>2 DEF Completed
    <3> QED BY <3>1, <3>2, <3>3
  <2> QED BY <1>1, <2>1, <2>2, <2>3 DEF Next
<1>5. SimulationFits'
  BY <1>1, <1>4 DEF batchVars, SimulationInvariant, SimulationFits
<1> QED BY <1>3, <1>5 DEF SimulationInvariant

(* Before a batch is served and a request admitted nothing is claimed.     *)
LEMMA NothingServed ==
  ASSUME IInv, served = 0, policy \in {"static", "written"}, admitted = {},
         batchClock = [time |-> 0, busy |-> 0, idle |-> 0],
         batchStart = [r \in Requests |-> 0], batchFinish = [r \in Requests |-> 0],
         summaries = [p \in {"static", "continuous"} |-> NoResult]
  PROVE  SimulationInvariant
<1>1. 1 \in Requests /\ \A r \in 1..served : FALSE
  BY BatchingAssumption, StaticAssumption DEF Requests
<1>2. SimulationTypeOK
  BY <1>1, BatchingAssumption DEF SimulationTypeOK
<1>3. SimulationFits
  BY <1>1 DEF SimulationFits, Completed
<1>4. BatchesAreFull /\ SummariesShareSpan
  <2>1. served % MaxActive = 0
    BY BatchingAssumption
  <2> QED BY <1>1, <2>1 DEF BatchesAreFull, SummariesShareSpan
<1> QED BY <1>2, <1>3, <1>4 DEF SimulationInvariant

LEMMA SimulationStepKeeps ==
  ASSUME IInv, SimulationInvariant, [SimulationNext]_simulationVars
  PROVE  IInv' /\ SimulationInvariant'
<1>1. [Next]_vars
  BY DEF SimulationNext, ServeBatch, EndStatic, SimulateContinuous, EndContinuous, simulationVars
<1>2. CASE UNCHANGED simulationVars
  <2>1. UNCHANGED <<arrival, prompt, output, time, admitted, active, finish, policy,
                    served, batchClock, batchStart, batchFinish, summaries>>
    BY <1>2 DEF simulationVars, vars, input, batchVars
  <2>2. SimulationTypeOK' /\ SummariesShareSpan'
    BY <2>1 DEF SimulationInvariant, SimulationTypeOK, SummariesShareSpan, SharesSpan
  <2>3. SimulationFits' /\ BatchesAreFull'
    BY <2>1 DEF SimulationInvariant, SimulationFits, BatchesAreFull, Completed
  <2>4. IInv'
    BY <1>1, SchedulerStep
  <2> QED BY <2>2, <2>3, <2>4 DEF SimulationInvariant
<1> QED BY <1>1, <1>2, SchedulerStep, ServeKeeps, EndStaticKeeps, ContinuousKeeps,
           EndContinuousKeeps DEF SimulationNext

LEMMA SimulationStarts == SimulationInit => IInv /\ SimulationInvariant
BY InitInvariant, NothingServed DEF SimulationInit, Init

(* Both simulations are as they claim, for any workload and any settings:  *)
(* the batches are full and served in order, and the summaries of the two  *)
(* policies are about spans of time that are accounted for.                *)
THEOREM SimulationHolds == SimulationSpec => [](IInv /\ SimulationInvariant)
BY SimulationStarts, SimulationStepKeeps, PTL DEF SimulationSpec

(***************************************************************************)
(* The load benchmarks                                                     *)
(***************************************************************************)
BenchCore ==
  /\ BenchTypeOK /\ BenchFits
  /\ OutputCoversItems /\ CountsMatchServer /\ PercentilesAreRanks

LEMMA ItemsFinite ==
  /\ IsFiniteSet(Items) /\ Cardinality(Items) = NumItems
  /\ \A S \in SUBSET Items : IsFiniteSet(S) /\ Cardinality(S) \in Nat
<1>1. 1 \in Int /\ NumItems \in Int /\ NumItems \in Nat /\ NumItems > 0
  BY BenchAssumption
<1>2. IsFiniteSet(Items) /\ Cardinality(Items) = NumItems
  BY <1>1, FS_Interval DEF Items
<1>3. \A S \in SUBSET Items : IsFiniteSet(S)
  BY <1>2, FS_Subset
<1> QED BY <1>2, <1>3, FS_CardinalityType

LEMMA InFlightFinite ==
  IsFiniteSet(InFlight) /\ Cardinality(InFlight) \in Nat /\ InFlight \subseteq Items
<1>1. PICK S \in SUBSET Items : S = InFlight
  BY DEF InFlight
<1> QED BY <1>1, ItemsFinite

(* Fewer are in flight, or one more where there was room.                  *)
LEMMA FlightShrinks ==
  ASSUME Cardinality(InFlight) <= Width, InFlight' \subseteq InFlight, UNCHANGED bench
  PROVE  Cardinality(InFlight') <= Width'
<1>1. PICK S \in SUBSET Items, T \in SUBSET Items :
        S = InFlight /\ T = InFlight' /\ T \in SUBSET S
  BY InFlightFinite
<1>2. IsFiniteSet(S) /\ Cardinality(S) \in Nat /\ Cardinality(T) \in Nat
  BY ItemsFinite
<1>3. Cardinality(T) <= Cardinality(S)
  BY <1>1, <1>2, FS_Subset
<1>4. Width' = Width /\ Width \in Nat
  BY BenchAssumption DEF Width
<1> QED BY <1>1, <1>2, <1>3, <1>4

LEMMA FlightGrows ==
  ASSUME Cardinality(InFlight) < Width, NEW c, InFlight' = InFlight \cup {c}, UNCHANGED bench
  PROVE  Cardinality(InFlight') <= Width'
<1>1. PICK S \in SUBSET Items : S = InFlight
  BY InFlightFinite
<1>2. IsFiniteSet(S) /\ Cardinality(S) \in Nat
  BY ItemsFinite
<1>3. Cardinality(S \cup {c}) <= Cardinality(S) + 1 /\ Cardinality(S \cup {c}) \in Nat
  <2>1. IsFiniteSet(S \cup {c})
        /\ Cardinality(S \cup {c}) = IF c \in S THEN Cardinality(S) ELSE Cardinality(S) + 1
    BY <1>2, FS_AddElement
  <2> QED BY <1>2, <2>1
<1>4. Width' = Width /\ Width \in Nat
  BY BenchAssumption DEF Width
<1> QED BY <1>1, <1>2, <1>3, <1>4

(* While the benchmark runs, what is said of its output says nothing.      *)
LEMMA NotEnded ==
  ASSUME benchPc' # "ended",
         \A k \in DOMAIN noted' : noted'[k].ok => server'[noted'[k].item] = "done"
  PROVE  OutputCoversItems' /\ CountsMatchServer' /\ PercentilesAreRanks'
BY DEF OutputCoversItems, CountsMatchServer, PercentilesAreRanks

LEMMA BecomesKeeps ==
  ASSUME BenchCore, benchPc = "running", NEW c \in Items,
         NEW s \in {"posted", "polling", "grading", "hung", "raised"},
         Becomes(c, s), client[c] \notin {"raised", "over"},
         client[c] = "queued" =>
           (\A d \in Items : client[d] = "queued" => c <= d) /\ Cardinality(InFlight) < Width,
         s = "polling" => bench = "jobs",
         s = "raised" => bench = "vllm",
         s \in {"grading", "hung"} => bench = "codegen",
         s = "grading" => server[c] = "done"
  PROVE  BenchCore'
<1>1. /\ client' = [client EXCEPT ![c] = s]
      /\ UNCHANGED <<bench, benchPc, server, noted, written>>
      /\ client \in [Items -> {"queued", "posted", "polling", "grading", "hung", "raised", "over"}]
  BY DEF Becomes, BenchCore, BenchTypeOK
<1>2. BenchTypeOK'
  BY <1>1 DEF BenchCore, BenchTypeOK
<1>3. client'[c] = s /\ \A d \in Items : d # c => client'[d] = client[d]
  BY <1>1
<1>4. Cardinality(InFlight') <= Width'
  <2>1. CASE client[c] = "queued"
    <3>1. CASE s = "raised"
      <4>1. InFlight' \subseteq InFlight
        BY <1>3, <3>1 DEF InFlight
      <4>2. Cardinality(InFlight) <= Width
        BY DEF BenchCore, BenchFits
      <4> QED BY <1>1, <4>1, <4>2, FlightShrinks
    <3>2. CASE s # "raised"
      <4>1. InFlight' = InFlight \cup {c}
        BY <1>3, <2>1, <3>2 DEF InFlight
      <4> QED BY <1>1, <2>1, <4>1, FlightGrows
    <3> QED BY <3>1, <3>2
  <2>2. CASE client[c] # "queued"
    <3>1. InFlight' \subseteq InFlight
      BY <1>3, <2>2 DEF InFlight
    <3>2. Cardinality(InFlight) <= Width
      BY DEF BenchCore, BenchFits
    <3> QED BY <1>1, <3>1, <3>2, FlightShrinks
  <2> QED BY <2>1, <2>2
<1>5. \A d, e \in Items : d < e /\ client'[d] = "queued" => client'[e] = "queued"
  <2> SUFFICES ASSUME NEW d \in Items, NEW e \in Items, d < e, client'[d] = "queued"
               PROVE  client'[e] = "queued"
    OBVIOUS
  <2>1. client[d] = "queued" /\ d # c
    BY <1>3
  <2>2. client[e] = "queued"
    BY <2>1 DEF BenchCore, BenchFits
  <2>3. c # e
    <3>1. d \in Nat /\ e \in Nat /\ c \in Nat
      BY BenchAssumption DEF Items
    <3> QED BY <2>1, <2>2, <3>1
  <2> QED BY <1>3, <2>2, <2>3
<1>6. \A d \in Items :
        /\ client'[d] = "over" <=> client[d] = "over"
        /\ client'[d] = "queued" => client[d] = "queued"
        /\ client'[d] = "polling" => bench = "jobs"
        /\ client'[d] = "raised" => bench = "vllm"
        /\ client'[d] \in {"grading", "hung"} => bench = "codegen"
        /\ client'[d] = "grading" => server[d] = "done"
  BY <1>3 DEF BenchCore, BenchFits
<1>7. BenchFits'
  BY <1>1, <1>4, <1>5, <1>6 DEF BenchCore, BenchFits
<1>8. \A k \in DOMAIN noted' : noted'[k].ok => server'[noted'[k].item] = "done"
  BY <1>1 DEF BenchCore, CountsMatchServer
<1> QED BY <1>1, <1>2, <1>7, <1>8, NotEnded DEF BenchCore

(* Without a pool the case that is over is the next after those noted.     *)
LEMMA NextInOrder ==
  ASSUME BenchCore, bench \notin Pooled, NEW c \in Items,
         client[c] \notin {"queued", "raised", "over"}
  PROVE  c = Len(noted) + 1
<1> DEFINE n == Len(noted)
<1>1. n \in Nat /\ DOMAIN noted = 1..n /\ c \in Nat /\ NumItems \in Nat /\ c <= NumItems /\ c >= 1
  BY BenchAssumption, LenProperties DEF BenchCore, BenchTypeOK, Items
<1>2. \A k \in 1..n : noted[k].item = k
  BY <1>1 DEF BenchCore, BenchFits
<1>3. \A d \in Items : client[d] = "over" <=> d \in 1..n
  BY <1>1, <1>2 DEF BenchCore, BenchFits
<1> HIDE DEF n
<1>4. c > n
  BY <1>1, <1>3
<1>5. ASSUME c > n + 1 PROVE FALSE
  <2> DEFINE d == n + 1
  <2>1. d \in Items /\ d < c /\ d \notin 1..n
    BY <1>1, <1>5 DEF Items
  <2> HIDE DEF d
  <2>2. client[d] # "over"
    BY <1>3, <2>1
  <2>3. client[d] # "queued"
    BY <2>1 DEF BenchCore, BenchFits
  <2>10. client[d] # "raised"
    BY <2>1 DEF BenchCore, BenchFits, Pooled
  <2>4. {c, d} \subseteq InFlight /\ c # d
    BY <1>1, <2>1, <2>2, <2>3, <2>10 DEF InFlight
  <2>5. PICK S \in SUBSET Items : S = InFlight
    BY InFlightFinite
  <2>6. IsFiniteSet(S) /\ Cardinality(S) \in Nat
    BY ItemsFinite
  <2>7. Cardinality({c, d}) = 2
    <3>1. IsFiniteSet({c}) /\ Cardinality({c}) = 1
      BY FS_Singleton
    <3>2. Cardinality({c} \cup {d}) = Cardinality({c}) + 1
      BY <2>4, <3>1, FS_AddElement
    <3>3. {c} \cup {d} = {c, d}
      OBVIOUS
    <3> QED BY <3>1, <3>2, <3>3
  <2>8. Cardinality({c, d}) <= Cardinality(S)
    BY <2>4, <2>5, <2>6, FS_Subset
  <2>9. Cardinality(InFlight) <= 1
    BY DEF BenchCore, BenchFits, Width
  <2> QED BY <2>5, <2>6, <2>7, <2>8, <2>9
<1> QED BY <1>1, <1>4, <1>5 DEF n

LEMMA OverKeeps ==
  ASSUME BenchCore, benchPc = "running", NEW c \in Items, 
         client[c] \notin {"queued", "raised", "over"},
         NEW ok \in BOOLEAN, NEW hit \in BOOLEAN, Over(c, ok, hit),
         hit => ok, bench = "codegen" => (ok => hit), ok => server[c] = "done"
  PROVE  BenchCore'
<1>1. /\ client' = [client EXCEPT ![c] = "over"]
      /\ UNCHANGED <<bench, benchPc, server, written>>
      /\ client \in [Items -> {"queued", "posted", "polling", "grading", "hung", "raised", "over"}]
      /\ bench \in Pooled \cup {"reasoning", "context", "codegen"}
  BY DEF Over, BenchCore, BenchTypeOK
<1>2. PICK row \in BenchRows : row = [item |-> c, ok |-> ok, hit |-> hit]
  BY DEF BenchRows
<1>3. row.item = c /\ row.ok = ok /\ row.hit = hit
  BY <1>2
<1>4. noted' = Append(noted, row)
  BY <1>2 DEF Over
<1>5. PICK rows \in Seq(BenchRows) : rows = noted
  BY DEF BenchCore, BenchTypeOK
<1> DEFINE n == Len(rows)
<1>6. /\ n \in Nat /\ DOMAIN noted = 1..n /\ noted' \in Seq(BenchRows)
      /\ DOMAIN noted' = 1..(n + 1)
      /\ \A k \in 1..n : noted'[k] = noted[k]
      /\ noted'[n + 1] = row
  <2>1. /\ noted' \in Seq(BenchRows) /\ Len(noted') = n + 1
        /\ \A k \in 1..n : noted'[k] = rows[k]
        /\ noted'[n + 1] = row
    BY <1>4, <1>5, AppendProperties
  <2>2. n \in Nat /\ DOMAIN rows = 1..n /\ DOMAIN noted' = 1..(n + 1)
    BY <2>1, LenProperties
  <2> QED BY <1>5, <2>1, <2>2
<1> HIDE <1>2, <1>4
<1>7. bench \notin Pooled => c = n + 1
  BY <1>5, NextInOrder
<1> HIDE <1>5
<1> HIDE DEF n
<1>8. \A k \in 1..(n + 1) : k \in 1..n \/ k = n + 1
  BY <1>6
<1>9. \A k \in 1..n : noted[k].item # c
  BY <1>6 DEF BenchCore, BenchFits
<1>10. client'[c] = "over" /\ \A d \in Items : d # c => client'[d] = client[d]
  BY <1>1
<1>11. BenchTypeOK'
  BY <1>1, <1>6 DEF BenchCore, BenchTypeOK
<1>12. Cardinality(InFlight') <= Width'
  <2>1. InFlight' \subseteq InFlight
    BY <1>10 DEF InFlight
  <2>2. Cardinality(InFlight) <= Width
    BY DEF BenchCore, BenchFits
  <2> QED BY <1>1, <2>1, <2>2, FlightShrinks
<1>13. \A k, l \in DOMAIN noted' : noted'[k].item = noted'[l].item => k = l
  <2>1. \A k, l \in 1..n : noted[k].item = noted[l].item => k = l
    BY <1>6 DEF BenchCore, BenchFits
  <2> QED BY <1>3, <1>6, <1>8, <1>9, <2>1
<1>14. \A d \in Items :
         /\ client'[d] = "over" <=> \E k \in DOMAIN noted' : noted'[k].item = d
         /\ client'[d] = "queued" => server[d] = "none"
  <2> SUFFICES ASSUME NEW d \in Items
               PROVE  /\ client'[d] = "over" <=> \E k \in 1..(n + 1) : noted'[k].item = d
                      /\ client'[d] = "queued" => server[d] = "none"
    BY <1>6
  <2>1. CASE d = c
    <3>1. n + 1 \in 1..(n + 1)
      BY <1>6
    <3> QED BY <1>3, <1>6, <1>10, <2>1, <3>1
  <2>2. CASE d # c
    <3>1. /\ client[d] = "over" <=> \E k \in 1..n : noted[k].item = d
          /\ client[d] = "queued" => server[d] = "none"
      BY <1>6 DEF BenchCore, BenchFits
    <3>2. \A k \in 1..n : k \in 1..(n + 1)
      BY <1>6
    <3> QED BY <1>3, <1>6, <1>8, <1>10, <2>2, <3>1, <3>2
  <2> QED BY <2>1, <2>2
<1>15. \A k \in DOMAIN noted' :
         /\ noted'[k].hit => noted'[k].ok
         /\ bench = "codegen" => (noted'[k].ok => noted'[k].hit)
         /\ bench \notin Pooled => noted'[k].item = k
         /\ noted'[k].ok => server[noted'[k].item] = "done"
  <2>1. \A k \in 1..n :
         /\ noted[k].hit => noted[k].ok
         /\ bench = "codegen" => (noted[k].ok => noted[k].hit)
         /\ bench \notin Pooled => noted[k].item = k
         /\ noted[k].ok => server[noted[k].item] = "done"
    BY <1>6 DEF BenchCore, BenchFits, CountsMatchServer
  <2> QED BY <1>3, <1>6, <1>7, <1>8, <2>1
<1>16. \A d \in Items :
         /\ client'[d] = "polling" => bench = "jobs"
         /\ client'[d] = "raised" => bench = "vllm"
         /\ client'[d] \in {"grading", "hung"} => bench = "codegen"
         /\ client'[d] = "grading" => server[d] = "done"
  BY <1>10 DEF BenchCore, BenchFits
<1>17. \A d, e \in Items : d < e /\ client'[d] = "queued" => client'[e] = "queued"
  BY <1>10 DEF BenchCore, BenchFits
<1>18. BenchFits'
  BY <1>1, <1>12, <1>13, <1>14, <1>15, <1>16, <1>17 DEF BenchFits
<1> QED BY <1>1, <1>11, <1>15, <1>18, NotEnded DEF BenchCore

LEMMA ServeItemKeeps ==
  ASSUME BenchCore, benchPc = "running", NEW c \in Items, ServeItem(c)
  PROVE  BenchCore'
<1>1. PICK s \in {"working", "done", "failed"} :
        /\ server' = [server EXCEPT ![c] = s]
        /\ s = "working" => client[c] # "queued"
        /\ s # "working" => server[c] = "working"
        /\ server[c] \in {"none", "working"}
  BY DEF ServeItem
<1>2. /\ UNCHANGED <<bench, benchPc, client, noted, written>>
      /\ server \in [Items -> {"none", "working", "done", "failed"}]
  BY DEF ServeItem, BenchCore, BenchTypeOK
<1>3. server'[c] = s /\ \A d \in Items : d # c => server'[d] = server[d]
  BY <1>1, <1>2
<1>4. BenchTypeOK'
  BY <1>1, <1>2 DEF BenchCore, BenchTypeOK
<1>5. InFlight' = InFlight /\ Width' = Width
  BY <1>2 DEF InFlight, Width
<1>6. \A d \in Items :
        /\ client[d] = "queued" => server'[d] = "none"
        /\ client[d] = "grading" => server'[d] = "done"
        /\ server[d] = "done" => server'[d] = "done"
  BY <1>1, <1>3 DEF BenchCore, BenchFits
<1>7. BenchFits'
  BY <1>2, <1>5, <1>6 DEF BenchCore, BenchFits
<1>8. \A k \in DOMAIN noted' : noted'[k].ok => server'[noted'[k].item] = "done"
  <2>1. noted \in Seq(BenchRows)
    BY DEF BenchCore, BenchTypeOK
  <2>2. \A k \in DOMAIN noted : noted[k] \in BenchRows
    BY <2>1, LenProperties, ElementOfSeq
  <2>3. \A k \in DOMAIN noted : noted[k].item \in Items
    BY <2>2 DEF BenchRows
  <2> QED BY <1>2, <1>6, <2>3 DEF BenchCore, CountsMatchServer
<1> QED BY <1>2, <1>4, <1>7, <1>8, NotEnded DEF BenchCore

LEMMA RaisedKeeps ==
  ASSUME BenchCore, benchPc = "running", benchPc' = "raised",
         UNCHANGED <<bench, client, server, noted, written>>
  PROVE  BenchCore'
<1>1. BenchTypeOK' /\ BenchFits'
  BY DEF BenchCore, BenchTypeOK, BenchFits, InFlight, Width
<1>2. \A k \in DOMAIN noted' : noted'[k].ok => server'[noted'[k].item] = "done"
  BY DEF BenchCore, CountsMatchServer
<1> QED BY <1>1, <1>2, NotEnded DEF BenchCore

(* Sets between which a function is one to one have one size.              *)
LEMMA SameSize ==
  ASSUME NEW S, NEW T, IsFiniteSet(S), NEW f \in [S -> T],
         \A x, y \in S : f[x] = f[y] => x = y, \A y \in T : \E x \in S : f[x] = y
  PROVE  IsFiniteSet(T) /\ Cardinality(T) = Cardinality(S)
<1>1. f \in Bijection(S, T)
  BY DEF Bijection, Injection, Surjection, IsInjective
<1>2. ExistsBijection(S, T)
  BY <1>1 DEF ExistsBijection
<1> QED BY <1>2, FS_Bijection

LEMMA NoMore ==
  ASSUME NEW S, NEW T, IsFiniteSet(T), NEW f \in [S -> T],
         \A x, y \in S : f[x] = f[y] => x = y
  PROVE  IsFiniteSet(S) /\ Cardinality(S) <= Cardinality(T)
<1>1. f \in Injection(S, T)
  BY DEF Injection, IsInjective
<1> QED BY <1>1, FS_Injection

(* When all cases are over there is a row of each, and no other.           *)
AllNoted(rows) ==
  /\ rows \in Seq(BenchRows)
  /\ \A c \in Items : \E k \in DOMAIN rows : rows[k].item = c
  /\ \A k, l \in DOMAIN rows : rows[k].item = rows[l].item => k = l

LEMMA RowsOfItems ==
  ASSUME NEW rows, AllNoted(rows)
  PROVE  /\ DOMAIN rows = Items /\ Len(rows) = NumItems
         /\ \A k \in Items : rows[k] \in BenchRows /\ rows[k].item \in Items
                             /\ rows[k].ok \in BOOLEAN /\ rows[k].hit \in BOOLEAN
<1>1. DOMAIN rows = 1..Len(rows) /\ Len(rows) \in Nat /\ \A k \in DOMAIN rows : rows[k] \in BenchRows
  BY LenProperties DEF AllNoted
<1>2. \A k \in DOMAIN rows : /\ rows[k].item \in Items
                             /\ rows[k].ok \in BOOLEAN /\ rows[k].hit \in BOOLEAN
  BY <1>1 DEF BenchRows
<1> DEFINE f == [k \in DOMAIN rows |-> rows[k].item]
<1>3. IsFiniteSet(DOMAIN rows) /\ Cardinality(DOMAIN rows) = Len(rows)
  <2>1. PICK n \in Nat : n = Len(rows)
    BY <1>1
  <2>2. 1 \in Int /\ n \in Int
    BY <2>1
  <2>3. IsFiniteSet(1..n) /\ Cardinality(1..n) = IF 1 > n THEN 0 ELSE n - 1 + 1
    BY <2>2, FS_Interval
  <2> QED BY <1>1, <2>1, <2>3
<1>4. f \in [DOMAIN rows -> Items]
  BY <1>2
<1>5. Cardinality(Items) = Cardinality(DOMAIN rows)
  <2>1. \A x, y \in DOMAIN rows : f[x] = f[y] => x = y
    BY DEF AllNoted
  <2>2. \A y \in Items : \E x \in DOMAIN rows : f[x] = y
    BY DEF AllNoted
  <2> HIDE DEF f
  <2> QED BY <1>3, <1>4, <2>1, <2>2, SameSize
<1>6. Len(rows) = NumItems
  BY <1>3, <1>5, ItemsFinite
<1> QED BY <1>1, <1>2, <1>6 DEF Items

LEMMA RowsByItem ==
  ASSUME NEW rows, AllNoted(rows)
  PROVE  /\ AllNoted(ByItem(rows)) /\ DOMAIN ByItem(rows) = Items
         /\ \A k \in Items : ByItem(rows)[k].item = k
         /\ \A k \in Items : ByItem(rows)[rows[k].item] = rows[k]
<1> DEFINE all == {rows[k] : k \in DOMAIN rows}
<1>1. DOMAIN rows = Items
  BY RowsOfItems
<1>2. \A c \in Items : \E k \in Items : ByItem(rows)[c] = rows[k] /\ rows[k].item = c
  <2> SUFFICES ASSUME NEW c \in Items
               PROVE  \E k \in Items : ByItem(rows)[c] = rows[k] /\ rows[k].item = c
    OBVIOUS
  <2>1. ByItem(rows)[c] = CHOOSE row \in all : row.item = c
    BY DEF ByItem
  <2>2. \E row \in all : row.item = c
    BY DEF AllNoted
  <2>3. ByItem(rows)[c] \in all /\ ByItem(rows)[c].item = c
    <3> HIDE DEF all
    <3> QED BY <2>1, <2>2
  <2> QED BY <1>1, <2>3
<1>3. \A k \in Items : ByItem(rows)[rows[k].item] = rows[k]
  <2>1. \A k \in Items : rows[k].item \in Items
    BY RowsOfItems
  <2>2. \A k, l \in Items : rows[k].item = rows[l].item => k = l
    BY <1>1 DEF AllNoted
  <2> SUFFICES ASSUME NEW k \in Items PROVE ByItem(rows)[rows[k].item] = rows[k]
    OBVIOUS
  <2>3. PICK l \in Items : ByItem(rows)[rows[k].item] = rows[l] /\ rows[l].item = rows[k].item
    BY <1>2, <2>1
  <2> QED BY <2>2, <2>3
<1>4. DOMAIN ByItem(rows) = Items
  BY DEF ByItem
<1>5. ByItem(rows) \in Seq(BenchRows)
  <2>1. \A c \in Items : ByItem(rows)[c] \in BenchRows
    BY <1>2, RowsOfItems
  <2>2. ByItem(rows) \in [1..NumItems -> BenchRows]
    BY <2>1 DEF ByItem, Items
  <2>3. NumItems \in Nat
    BY BenchAssumption
  <2> QED BY <2>2, <2>3, SeqDef
<1>6. \A k \in Items : ByItem(rows)[k].item = k
  BY <1>2
<1> HIDE DEF all
<1>7. AllNoted(ByItem(rows))
  BY <1>4, <1>5, <1>6 DEF AllNoted
<1> QED BY <1>3, <1>4, <1>6, <1>7

(* The numbers of rows that are told in the summaries.                     *)
LEMMA CountsFit ==
  ASSUME NEW rows, AllNoted(rows)
  PROVE  /\ OkRows(rows) \in SUBSET Items /\ FailedRows(rows) \in SUBSET Items
         /\ HitRows(rows) \in SUBSET Items
         /\ Cardinality(OkRows(rows)) \in Nat /\ Cardinality(FailedRows(rows)) \in Nat
         /\ Cardinality(HitRows(rows)) \in Nat
         /\ Cardinality(OkRows(rows)) + Cardinality(FailedRows(rows)) = NumItems
<1>1. /\ DOMAIN rows = Items /\ \A k \in Items : rows[k].ok \in BOOLEAN
  BY RowsOfItems
<1>2. PICK S \in SUBSET Items, T \in SUBSET Items, H \in SUBSET Items :
        S = OkRows(rows) /\ T = FailedRows(rows) /\ H = HitRows(rows)
  BY <1>1 DEF OkRows, FailedRows, HitRows
<1>3. S \cup T = Items /\ S \cap T = {}
  BY <1>1, <1>2 DEF OkRows, FailedRows
<1>4. /\ IsFiniteSet(S) /\ IsFiniteSet(T) /\ Cardinality(S) \in Nat /\ Cardinality(T) \in Nat
      /\ Cardinality(H) \in Nat
  BY ItemsFinite
<1>5. Cardinality(S \cup T) = Cardinality(S) + Cardinality(T) - Cardinality(S \cap T)
  BY <1>4, FS_Union
<1>6. Cardinality(S) + Cardinality(T) = NumItems
  <2>1. Cardinality(Items) = Cardinality(S) + Cardinality(T) - Cardinality({})
    BY <1>3, <1>5
  <2>2. Cardinality(Items) = NumItems /\ Cardinality({}) = 0
    BY ItemsFinite, FS_EmptySet
  <2> QED BY <1>4, <2>1, <2>2
<1> QED BY <1>2, <1>4, <1>6

LEMMA SortedCounts ==
  ASSUME NEW rows, AllNoted(rows)
  PROVE  Cardinality(OkRows(ByItem(rows))) = Cardinality(OkRows(rows))
<1>1. /\ DOMAIN rows = Items /\ \A k \in Items : rows[k].item \in Items
  BY RowsOfItems
<1>2. /\ AllNoted(ByItem(rows)) /\ DOMAIN ByItem(rows) = Items
      /\ \A k \in Items : ByItem(rows)[k].item = k
      /\ \A k \in Items : ByItem(rows)[rows[k].item] = rows[k]
  BY RowsByItem
<1> DEFINE S == OkRows(rows)
           T == OkRows(ByItem(rows))
           f == [k \in S |-> rows[k].item]
<1>3. S \in SUBSET Items /\ IsFiniteSet(S) /\ \A k \in S : rows[k].ok
  BY <1>1, ItemsFinite DEF OkRows
<1>4. f \in [S -> T]
  BY <1>1, <1>2, <1>3 DEF OkRows
<1>5. \A x, y \in S : f[x] = f[y] => x = y
  BY <1>1, <1>3 DEF AllNoted
<1>6. \A y \in T : \E x \in S : f[x] = y
  <2> SUFFICES ASSUME NEW y \in T PROVE \E x \in S : f[x] = y
    OBVIOUS
  <2>1. y \in Items /\ ByItem(rows)[y].ok
    BY <1>2 DEF OkRows
  <2>2. PICK x \in Items : rows[x].item = y
    BY <1>1, <2>1 DEF AllNoted
  <2>3. rows[x].ok
    BY <1>2, <2>1, <2>2
  <2>4. x \in S
    BY <1>1, <2>3 DEF OkRows
  <2> QED BY <2>2, <2>4
<1> HIDE DEF S, T, f
<1>7. Cardinality(T) = Cardinality(S)
  BY <1>3, <1>4, <1>5, <1>6, SameSize
<1> QED BY <1>7 DEF S, T

(* All that the files of a script must be for it to end as it promises.    *)
LEMMA WriteKeeps ==
  ASSUME BenchCore, NEW report, Write(report),
         report \in Outputs,
         AllNoted(report.rows), \A k \in Items : report.rows[k].item = k,
         \A k \in Items : report.rows[k].ok => server[k] = "done",
         bench # "context" => report.ok = Cardinality(OkRows(report.rows)),
         bench \notin {"context", "reasoning"} => report.ok + report.failed = NumItems,
         bench = "reasoning" => report.hits <= report.ok,
         bench \in Pooled =>
           /\ report.p50 <= report.p95
           /\ bench # "vllm" =>
                \A p \in {50, 95} :
                  LET value == IF p = 50 THEN report.p50 ELSE report.p95
                      below == {c \in Items : 100 * report.seconds[c] <= value}
                  IN /\ 100 * Cardinality(below) >= p * NumItems
                     /\ \E c \in Items : 100 * report.seconds[c] = value
  PROVE  BenchCore'
<1>1. /\ benchPc' = "ended" /\ written' = report
      /\ UNCHANGED <<bench, client, server, noted>>
  BY DEF Write
<1>2. BenchTypeOK'
  BY <1>1 DEF BenchCore, BenchTypeOK
<1>3. BenchFits'
  BY <1>1 DEF BenchCore, BenchFits, InFlight, Width
<1>4. OutputCoversItems'
  <2>1. [k \in DOMAIN report.rows |-> report.rows[k].item] = [k \in Items |-> k]
    BY RowsOfItems
  <2> QED BY <1>1, <2>1 DEF OutputCoversItems
<1>5. CountsMatchServer'
  <2>1. \A k \in DOMAIN noted : noted[k].ok => server[noted[k].item] = "done"
    BY DEF BenchCore, CountsMatchServer
  <2>2. PICK S \in SUBSET Items, T \in SUBSET Items :
          S = {c \in Items : server[c] = "working"} /\ T = FailedRows(report.rows)
    BY CountsFit
  <2>3. S \in SUBSET T
    <3>1. DOMAIN report.rows = Items
      BY RowsOfItems
    <3> QED BY <2>2, <3>1 DEF FailedRows
  <2>4. IsFiniteSet(T)
    BY ItemsFinite
  <2>5. Cardinality(S) <= Cardinality(T)
    BY <2>3, <2>4, FS_Subset
  <2> QED BY <1>1, <2>1, <2>2, <2>5 DEF CountsMatchServer
<1>6. PercentilesAreRanks'
  BY <1>1 DEF PercentilesAreRanks
<1> QED BY <1>2, <1>3, <1>4, <1>5, <1>6 DEF BenchCore

(* When all cases are over: what is noted.                                 *)
LEMMA NotedAll ==
  ASSUME BenchCore, \A c \in Items : client[c] = "over"
  PROVE  /\ AllNoted(noted)
         /\ \A k \in Items : noted[k].ok => server[noted[k].item] = "done"
         /\ \A k \in Items : noted[k].hit => noted[k].ok
         /\ bench = "codegen" => \A k \in Items : noted[k].ok => noted[k].hit
         /\ bench \notin Pooled => \A k \in Items : noted[k].item = k
<1>1. AllNoted(noted)
  BY DEF AllNoted, BenchCore, BenchTypeOK, BenchFits
<1>2. PICK rows : rows = noted
  OBVIOUS
<1>3. DOMAIN noted = Items
  BY <1>1, <1>2, RowsOfItems
<1> QED BY <1>1, <1>3 DEF BenchCore, BenchFits, CountsMatchServer

LEMMA CapacityKeeps ==
  ASSUME BenchCore, benchPc = "running", WriteCapacity
  PROVE  BenchCore'
<1>1. PICK seconds \in Latencies : Write(CapacitySummary(noted, seconds))
  BY DEF WriteCapacity
<1>2. bench \in {"generate", "jobs"}
  BY DEF WriteCapacity
<1>3. /\ AllNoted(noted)
      /\ \A k \in Items : noted[k].ok => server[noted[k].item] = "done"
  BY <1>1, NotedAll DEF Write
<1>4. PICK rows : rows = noted
  OBVIOUS
<1>5. /\ AllNoted(rows) /\ DOMAIN rows = Items
      /\ \A k \in Items : rows[k].item \in Items
      /\ \A k \in Items : rows[k].ok => server[rows[k].item] = "done"
  BY <1>3, <1>4, RowsOfItems
<1> DEFINE all == [k \in Items |-> seconds[rows[k].item]]
<1>6. \A c \in Items : seconds[c] \in 1..2
  BY DEF Latencies
<1>7. \A k \in Items : all[k] \in Nat
  BY <1>5, <1>6
<1>8. IsFiniteSet(Items) /\ Items # {} /\ Cardinality(Items) = NumItems
  BY ItemsFinite, BenchAssumption DEF Items
<1>9. PICK v50, v95 : v50 = NearestRank(all, 50) /\ v95 = NearestRank(all, 95)
  OBVIOUS
<1>10. v50 \in Nat /\ v95 \in Nat /\ v50 <= v95
  <2> HIDE DEF all
  <2>1. DOMAIN all = Items
    BY DEF all
  <2>2. 50 \in 1..100 /\ 95 \in 1..100
    OBVIOUS
  <2> QED BY <1>7, <1>8, <1>9, <2>1, <2>2, NearestRankFits, NearestRankGrows
<1>11. \A p \in {50, 95} :
         \A v \in Nat : v = NearestRank(all, p) =>
           LET below == {c \in Items : 100 * seconds[c] <= 100 * v}
           IN /\ 100 * Cardinality(below) >= p * NumItems
              /\ \E c \in Items : 100 * seconds[c] = 100 * v
  <2> SUFFICES ASSUME NEW p \in {50, 95}, NEW v \in Nat, v = NearestRank(all, p)
               PROVE  LET below == {c \in Items : 100 * seconds[c] <= 100 * v}
                      IN /\ 100 * Cardinality(below) >= p * NumItems
                         /\ \E c \in Items : 100 * seconds[c] = 100 * v
    OBVIOUS
  <2> DEFINE below == {c \in Items : 100 * seconds[c] <= 100 * v}
             f == [k \in UpTo(all, v) |-> rows[k].item]
  <2>1. /\ \E k \in Items : v = all[k]
        /\ 100 * Cardinality(UpTo(all, v)) >= p * NumItems
    <3>1. p \in 1..100 /\ DOMAIN all = Items
      OBVIOUS
    <3> HIDE DEF all
    <3> QED BY <1>7, <1>8, <3>1, NearestRankFits
  <2>2. \A k \in UpTo(all, v) : k \in Items /\ seconds[rows[k].item] <= v
    BY DEF UpTo
  <2>3. f \in [UpTo(all, v) -> below]
    <3> SUFFICES ASSUME NEW k \in UpTo(all, v) PROVE rows[k].item \in below
      OBVIOUS
    <3>1. rows[k].item \in Items /\ seconds[rows[k].item] <= v
      BY <1>5, <2>2
    <3>2. PICK s \in 1..2 : s = seconds[rows[k].item]
      BY <1>6, <3>1
    <3>3. 100 * s <= 100 * v
      BY <3>1, <3>2
    <3> QED BY <3>1, <3>2, <3>3
  <2>4. \A x, y \in UpTo(all, v) : f[x] = f[y] => x = y
    BY <1>5, <2>2 DEF AllNoted
  <2>5. below \in SUBSET Items
    OBVIOUS
  <2>6. \E c \in Items : 100 * seconds[c] = 100 * v
    BY <1>5, <2>1
  <2> HIDE DEF below, f, all
  <2>7. IsFiniteSet(below) /\ Cardinality(below) \in Nat
    BY <2>5, ItemsFinite
  <2>8. IsFiniteSet(UpTo(all, v)) /\ Cardinality(UpTo(all, v)) <= Cardinality(below)
    BY <2>3, <2>4, <2>7, NoMore
  <2>9. Cardinality(UpTo(all, v)) \in Nat
    BY <2>8, FS_CardinalityType
  <2>10. 100 * Cardinality(below) >= p * NumItems
    BY <2>1, <2>7, <2>8, <2>9, BenchAssumption
  <2> QED BY <2>6, <2>10 DEF below
<1>12. PICK ok \in Nat, failed \in Nat :
         /\ ok = Cardinality(OkRows(rows)) /\ failed = Cardinality(FailedRows(rows))
         /\ ok + failed = NumItems
  BY <1>5, CountsFit
<1>13. /\ AllNoted(ByItem(rows)) /\ DOMAIN ByItem(rows) = Items
       /\ \A k \in Items : ByItem(rows)[k].item = k
       /\ \A k \in Items : ByItem(rows)[rows[k].item] = rows[k]
       /\ Cardinality(OkRows(ByItem(rows))) = ok
  BY <1>5, <1>12, RowsByItem, SortedCounts
<1>14. \A k \in Items : ByItem(rows)[k].ok => server[k] = "done"
  <2> SUFFICES ASSUME NEW k \in Items, ByItem(rows)[k].ok PROVE server[k] = "done"
    OBVIOUS
  <2>1. PICK j \in Items : rows[j].item = k
    BY <1>5 DEF AllNoted
  <2>2. ByItem(rows)[k] = rows[j]
    BY <1>13, <2>1
  <2> QED BY <1>5, <2>1, <2>2
<1>15. PICK sorted \in Seq(BenchRows) : sorted = ByItem(rows)
  BY <1>13 DEF AllNoted
<1>16. PICK report :
         report = [rows |-> sorted, seconds |-> seconds, ok |-> ok, failed |-> failed,
                   hits |-> 0, p50 |-> 100 * v50, p95 |-> 100 * v95]
  OBVIOUS
<1>17. CapacitySummary(noted, seconds) = report
  <2>1. [k \in DOMAIN noted |-> seconds[noted[k].item]] = all
    BY <1>4, <1>5
  <2> HIDE DEF all
  <2>2. CapacitySummary(noted, seconds) =
          [NoOutput EXCEPT !.rows = sorted, !.seconds = seconds, !.ok = ok, !.failed = failed,
                           !.p50 = 100 * v50, !.p95 = 100 * v95]
    BY <1>4, <1>9, <1>12, <1>15, <2>1 DEF CapacitySummary
  <2> QED BY <1>16, <2>2 DEF NoOutput
<1>18. report \in Outputs
  BY <1>10, <1>16 DEF Outputs
<1>19. report.p50 <= report.p95
  BY <1>10, <1>16
<1>20. \A p \in {50, 95} :
         LET value == IF p = 50 THEN report.p50 ELSE report.p95
             below == {c \in Items : 100 * report.seconds[c] <= value}
         IN /\ 100 * Cardinality(below) >= p * NumItems
            /\ \E c \in Items : 100 * report.seconds[c] = value
  <2>1. report.seconds = seconds /\ report.p50 = 100 * v50 /\ report.p95 = 100 * v95
    BY <1>16
  <2> HIDE DEF all
  <2> QED BY <1>9, <1>10, <1>11, <2>1
<1>21. report.rows = sorted /\ report.ok = ok /\ report.failed = failed
  BY <1>16
<1> HIDE DEF all
<1>22. Write(report)
  BY <1>1, <1>17
<1>23. /\ AllNoted(report.rows) /\ \A k \in Items : report.rows[k].item = k
       /\ \A k \in Items : report.rows[k].ok => server[k] = "done"
       /\ report.ok = Cardinality(OkRows(report.rows)) /\ report.ok + report.failed = NumItems
  BY <1>12, <1>13, <1>14, <1>15, <1>21
<1>24. bench # "reasoning"
  BY <1>2
<1> QED BY <1>18, <1>19, <1>20, <1>22, <1>23, <1>24, WriteKeeps

LEMMA VllmKeeps ==
  ASSUME BenchCore, benchPc = "running", WriteVllm
  PROVE  BenchCore'
<1>1. PICK seconds \in Latencies : Write(VllmSummary(noted, seconds))
  BY DEF WriteVllm
<1>2. bench = "vllm"
  BY DEF WriteVllm
<1>3. /\ AllNoted(noted)
      /\ \A k \in Items : noted[k].ok => server[noted[k].item] = "done"
  BY <1>1, NotedAll DEF Write
<1>4. PICK rows : rows = noted
  OBVIOUS
<1>5. /\ AllNoted(rows) /\ DOMAIN rows = Items
      /\ \A k \in Items : rows[k].item \in Items
      /\ \A k \in Items : rows[k].ok => server[rows[k].item] = "done"
  BY <1>3, <1>4, RowsOfItems
<1>6. PICK S \in SUBSET Items : S = OkRows(rows)
  BY <1>5, CountsFit
<1> DEFINE good == [k \in S |-> seconds[rows[k].item]]
           v(p) == IF S = {} THEN 0 ELSE BetweenRanks(good, p)
<1>7. PICK v50, v95 : v50 = v(50) /\ v95 = v(95)
  OBVIOUS
<1>8. v50 \in Nat /\ v95 \in Nat /\ v50 <= v95
  <2>1. CASE S = {}
    BY <1>7, <2>1
  <2>2. CASE S # {}
    <3>1. \A k \in S : good[k] \in Nat
      <4>1. \A c \in Items : seconds[c] \in 1..2
        BY DEF Latencies
      <4> QED BY <1>5, <4>1
    <3>2. IsFiniteSet(S) /\ DOMAIN good = S
      BY ItemsFinite
    <3>3. v50 = BetweenRanks(good, 50) /\ v95 = BetweenRanks(good, 95)
      BY <1>7, <2>2
    <3> HIDE DEF good
    <3> QED BY <2>2, <3>1, <3>2, <3>3, BetweenRanksFits
  <2> QED BY <2>1, <2>2
<1>9. PICK ok \in Nat, failed \in Nat :
         /\ ok = Cardinality(OkRows(rows)) /\ failed = Cardinality(FailedRows(rows))
         /\ ok + failed = NumItems
  BY <1>5, CountsFit
<1>10. /\ AllNoted(ByItem(rows)) /\ DOMAIN ByItem(rows) = Items
       /\ \A k \in Items : ByItem(rows)[k].item = k
       /\ \A k \in Items : ByItem(rows)[rows[k].item] = rows[k]
       /\ Cardinality(OkRows(ByItem(rows))) = ok
  BY <1>5, <1>9, RowsByItem, SortedCounts
<1>11. \A k \in Items : ByItem(rows)[k].ok => server[k] = "done"
  <2> SUFFICES ASSUME NEW k \in Items, ByItem(rows)[k].ok PROVE server[k] = "done"
    OBVIOUS
  <2>1. PICK j \in Items : rows[j].item = k
    BY <1>5 DEF AllNoted
  <2>2. ByItem(rows)[k] = rows[j]
    BY <1>10, <2>1
  <2> QED BY <1>5, <2>1, <2>2
<1>12. PICK sorted \in Seq(BenchRows) : sorted = ByItem(rows)
  BY <1>10 DEF AllNoted
<1>13. PICK report :
         report = [rows |-> sorted, seconds |-> seconds, ok |-> ok, failed |-> failed,
                   hits |-> 0, p50 |-> v50, p95 |-> v95]
  OBVIOUS
<1>14. VllmSummary(noted, seconds) = report
  <2>1. [k \in OkRows(noted) |-> seconds[noted[k].item]] = good
    BY <1>4, <1>6
  <2> HIDE DEF good
  <2>2. VllmSummary(noted, seconds) =
          [NoOutput EXCEPT !.rows = sorted, !.seconds = seconds, !.ok = ok, !.failed = failed,
                           !.p50 = v50, !.p95 = v95]
    BY <1>4, <1>6, <1>7, <1>9, <1>12, <2>1 DEF VllmSummary
  <2> QED BY <1>13, <2>2 DEF NoOutput
<1>15. report \in Outputs
  BY <1>8, <1>13 DEF Outputs
<1>16. /\ AllNoted(report.rows) /\ \A k \in Items : report.rows[k].item = k
       /\ \A k \in Items : report.rows[k].ok => server[k] = "done"
       /\ report.ok = Cardinality(OkRows(report.rows)) /\ report.ok + report.failed = NumItems
       /\ report.p50 <= report.p95
  <2>1. /\ report.rows = sorted /\ report.ok = ok /\ report.failed = failed
        /\ report.p50 = v50 /\ report.p95 = v95
    BY <1>13
  <2> QED BY <1>8, <1>9, <1>10, <1>11, <1>12, <2>1
<1> HIDE DEF good, v
<1>17. Write(report)
  BY <1>1, <1>14
<1> QED BY <1>2, <1>15, <1>16, <1>17, WriteKeeps

LEMMA NoOutputFits ==
  /\ NoOutput \in Outputs
  /\ NoOutput.ok = 0 /\ NoOutput.failed = 0 /\ NoOutput.hits = 0
<1>1. [c \in Items |-> 1] \in Latencies
  BY DEF Latencies
<1>2. <<>> \in Seq(BenchRows)
  BY EmptySeq
<1> QED BY <1>1, <1>2 DEF NoOutput, Outputs

(* The scripts without a pool write the rows as they noted them.           *)
LEMMA UnpooledKeeps ==
  ASSUME BenchCore, benchPc = "running", bench \notin Pooled,
         NEW report \in Outputs, Write(report), report.rows = noted,
         bench # "context" => report.ok = Cardinality(OkRows(noted)),
         bench \notin {"context", "reasoning"} => report.ok + report.failed = NumItems,
         bench = "reasoning" => report.hits <= report.ok
  PROVE  BenchCore'
<1>1. /\ AllNoted(noted)
      /\ \A k \in Items : noted[k].ok => server[k] = "done"
      /\ \A k \in Items : noted[k].item = k
  BY NotedAll DEF Write
<1> QED BY <1>1, WriteKeeps DEF Outputs

LEMMA UnpooledOutputsKeep ==
  ASSUME BenchCore, benchPc = "running", WriteReasoning \/ WriteContext \/ WriteCodegen
  PROVE  BenchCore'
<1>1. /\ AllNoted(noted)
      /\ \A k \in Items : noted[k].hit => noted[k].ok
      /\ bench = "codegen" => \A k \in Items : noted[k].ok => noted[k].hit
  BY NotedAll DEF Write, WriteReasoning, WriteContext, WriteCodegen
<1>2. PICK rows \in Seq(BenchRows) : rows = noted
  BY <1>1 DEF AllNoted
<1>3. /\ DOMAIN rows = Items /\ Len(rows) = NumItems
      /\ OkRows(rows) \in SUBSET Items /\ HitRows(rows) \in SUBSET Items
      /\ Cardinality(OkRows(rows)) \in Nat /\ Cardinality(FailedRows(rows)) \in Nat
      /\ Cardinality(HitRows(rows)) \in Nat
      /\ Cardinality(OkRows(rows)) + Cardinality(FailedRows(rows)) = NumItems
  BY <1>1, <1>2, RowsOfItems, CountsFit
<1>4. PICK ok \in Nat, failed \in Nat, hits \in Nat :
        /\ ok = Cardinality(OkRows(rows)) /\ failed = Cardinality(FailedRows(rows))
        /\ hits = Cardinality(HitRows(rows)) /\ ok + failed = NumItems
  BY <1>3
<1>5. PICK base \in Outputs : base = NoOutput
  BY NoOutputFits
<1>6. CASE WriteReasoning
  <2>1. hits <= ok
    <3>1. HitRows(rows) \in SUBSET OkRows(rows)
      BY <1>1, <1>2, <1>3 DEF HitRows, OkRows
    <3>2. IsFiniteSet(OkRows(rows))
      BY <1>3, ItemsFinite
    <3> QED BY <1>4, <3>1, <3>2, FS_Subset
  <2>2. PICK report : report = [base EXCEPT !.rows = rows, !.ok = ok, !.hits = hits]
    OBVIOUS
  <2>3. /\ report \in Outputs /\ report.rows = rows
        /\ report.ok = ok /\ report.hits = hits
    BY <2>2 DEF Outputs
  <2>4. Write(report) /\ bench = "reasoning"
    BY <1>2, <1>4, <1>5, <1>6, <2>2 DEF WriteReasoning
  <2> QED BY <1>2, <1>4, <2>1, <2>3, <2>4, UnpooledKeeps DEF Pooled
<1>7. CASE WriteContext
  <2>1. PICK report : report = [base EXCEPT !.rows = rows]
    OBVIOUS
  <2>2. report \in Outputs /\ report.rows = rows
    BY <2>1 DEF Outputs
  <2>3. Write(report) /\ bench = "context"
    BY <1>2, <1>5, <1>7, <2>1 DEF WriteContext
  <2> QED BY <1>2, <2>2, <2>3, UnpooledKeeps DEF Pooled
<1>8. CASE WriteCodegen
  <2>1. bench = "codegen"
    BY <1>8 DEF WriteCodegen
  <2>2. hits = ok
    <3>1. \A k \in Items : rows[k].hit \in BOOLEAN /\ rows[k].ok \in BOOLEAN
      BY <1>1, <1>2, RowsOfItems
    <3>2. HitRows(rows) = OkRows(rows)
      BY <1>1, <1>2, <1>3, <2>1, <3>1 DEF HitRows, OkRows
    <3> QED BY <1>4, <3>2
  <2>3. Len(rows) - hits = failed
    BY <1>3, <1>4, <2>2
  <2>4. PICK report : report = [base EXCEPT !.rows = rows, !.ok = hits, !.failed = failed]
    OBVIOUS
  <2>5. /\ report \in Outputs /\ report.rows = rows
        /\ report.ok = ok /\ report.failed = failed
    BY <2>2, <2>4 DEF Outputs
  <2>6. Write(report)
    BY <1>2, <1>4, <1>5, <1>8, <2>3, <2>4 DEF WriteCodegen
  <2> QED BY <1>2, <1>4, <2>1, <2>5, <2>6, UnpooledKeeps DEF Pooled
<1> QED BY <1>6, <1>7, <1>8

(* Requests that the server works on and that no row calls a failure, nor  *)
(* raised, are those of cases in flight, not more than were asked for.     *)
LEMMA LoadFollows == BenchCore => LoadIsAsAsked
<1> SUFFICES ASSUME BenchCore PROVE LoadIsAsAsked
  OBVIOUS
<1> DEFINE given == {noted[k].item : k \in {l \in DOMAIN noted : ~noted[l].ok}}
                    \cup {c \in Items : client[c] = "raised"}
<1>1. PICK S \in SUBSET Items, T \in SUBSET Items :
        /\ S = InFlight /\ T = {c \in Items : server[c] = "working"} \ given
  BY InFlightFinite
<1>2. T \in SUBSET S
  <2> SUFFICES ASSUME NEW c \in T PROVE c \in S
    OBVIOUS
  <2>1. c \in Items /\ server[c] = "working" /\ c \notin given
    BY <1>1
  <2>2. client[c] # "queued"
    BY <2>1 DEF BenchCore, BenchFits
  <2>3. ASSUME client[c] = "over" PROVE FALSE
    <3>1. PICK k \in DOMAIN noted : noted[k].item = c
      BY <2>1, <2>3 DEF BenchCore, BenchFits
    <3>2. ~noted[k].ok
      BY <2>1, <3>1 DEF BenchCore, CountsMatchServer
    <3> QED BY <2>1, <3>1, <3>2
  <2>4. client[c] # "raised"
    BY <2>1
  <2> QED BY <1>1, <2>1, <2>2, <2>3, <2>4 DEF InFlight
<1>3. IsFiniteSet(S) /\ Cardinality(S) \in Nat /\ Cardinality(T) \in Nat
  BY ItemsFinite
<1>4. Cardinality(T) <= Cardinality(S)
  BY <1>2, <1>3, FS_Subset
<1>5. Cardinality(S) <= Width /\ Width \in Nat
  BY <1>1, BenchAssumption DEF BenchCore, BenchFits, Width
<1>6. Cardinality(T) <= Width
  BY <1>3, <1>4, <1>5
<1> QED BY <1>1, <1>6 DEF LoadIsAsAsked, Width

LEMMA BenchStepKeeps ==
  ASSUME BenchCore, BenchNext
  PROVE  BenchCore'
<1>1. benchPc = "running"
  BY DEF BenchNext, BenchStep
<1>2. ASSUME NEW c \in Items, Take(c) PROVE BenchCore'
  BY <1>1, <1>2, BecomesKeeps DEF Take
<1>3. ASSUME NEW c \in Items, NEW ok \in Outcomes(c)
      PROVE  ok \in BOOLEAN /\ (ok => server[c] = "done")
  BY <1>3 DEF Outcomes
<1>r. CASE ScriptRaises
  BY <1>1, <1>r, RaisedKeeps DEF ScriptRaises
<1>4. ASSUME NEW c \in Items, RunGenerate(c) \/ PostVllm(c) \/ PostContext(c)
      PROVE  BenchCore'
  <2>1. client[c] \notin {"queued", "raised", "over"} /\ bench # "codegen"
    BY <1>4 DEF RunGenerate, PostVllm, PostContext
  <2>2. CASE \E ok \in Outcomes(c) : Over(c, ok, FALSE)
    <3>1. PICK ok \in Outcomes(c) : Over(c, ok, FALSE)
      BY <2>2
    <3>2. PICK o \in BOOLEAN, h \in BOOLEAN : o = ok /\ h = FALSE /\ (o => server[c] = "done")
      BY <1>3
    <3>3. Over(c, o, h) /\ ~h
      BY <3>1, <3>2
    <3> QED BY <1>1, <2>1, <3>2, <3>3, OverKeeps
  <2>3. CASE bench = "vllm" /\ Becomes(c, "raised")
    BY <1>1, <2>1, <2>3, BecomesKeeps
  <2> QED BY <1>4, <1>r, <2>2, <2>3 DEF RunGenerate, PostVllm, PostContext
<1>5. ASSUME NEW c \in Items, PostReasoning(c) PROVE BenchCore'
  <2>1. client[c] \notin {"queued", "raised", "over"} /\ bench # "codegen"
    BY <1>5 DEF PostReasoning
  <2>2. CASE \E ok \in Outcomes(c), hit \in BOOLEAN : (hit => ok) /\ Over(c, ok, hit)
    <3>1. PICK ok \in Outcomes(c), hit \in BOOLEAN : (hit => ok) /\ Over(c, ok, hit)
      BY <2>2
    <3>2. ok \in BOOLEAN /\ (ok => server[c] = "done")
      BY <1>3
    <3> QED BY <1>1, <2>1, <3>1, <3>2, OverKeeps
  <2> QED BY <1>5, <1>r, <2>2 DEF PostReasoning
<1>6. ASSUME NEW c \in Items, client[c] \notin {"queued", "raised", "over"}, Over(c, FALSE, FALSE)
      PROVE  BenchCore'
  <2>1. PICK o \in BOOLEAN, h \in BOOLEAN : o = FALSE /\ h = FALSE
    OBVIOUS
  <2>2. Over(c, o, h) /\ ~o /\ ~h
    BY <1>6, <2>1
  <2> QED BY <1>1, <1>6, <2>2, OverKeeps
<1>7. ASSUME NEW c \in Items, SubmitAsJob(c) \/ StopPolling(c) PROVE BenchCore'
  <2>1. client[c] \in {"posted", "polling"}
    BY <1>7 DEF SubmitAsJob, StopPolling
  <2>2. CASE Over(c, FALSE, FALSE)
    BY <1>6, <2>1, <2>2
  <2>3. CASE bench = "jobs" /\ Becomes(c, "polling")
    BY <1>1, <2>1, <2>3, BecomesKeeps
  <2> QED BY <1>7, <2>2, <2>3 DEF SubmitAsJob, StopPolling
<1>8. ASSUME NEW c \in Items, PollJob(c) PROVE BenchCore'
  <2>1. client[c] = "polling" /\ bench = "jobs" /\ Over(c, server[c] = "done", FALSE)
    BY <1>8 DEF PollJob, BenchCore, BenchFits
  <2>2. PICK o \in BOOLEAN, h \in BOOLEAN : o = (server[c] = "done") /\ h = FALSE
    OBVIOUS
  <2>3. Over(c, o, h) /\ ~h
    BY <2>1, <2>2
  <2> QED BY <1>1, <2>1, <2>2, <2>3, OverKeeps
<1>9. ASSUME NEW c \in Items, CallModel(c) PROVE BenchCore'
  <2>1. client[c] = "posted" /\ bench = "codegen"
    BY <1>9 DEF CallModel
  <2>2. CASE Over(c, FALSE, FALSE)
    BY <1>6, <2>1, <2>2
  <2>3. CASE server[c] = "done" /\ Becomes(c, "grading")
    BY <1>1, <2>1, <2>3, BecomesKeeps
  <2> QED BY <1>9, <2>2, <2>3 DEF CallModel
<1>10. ASSUME NEW c \in Items, RunTests(c) PROVE BenchCore'
  <2>1. client[c] = "grading" /\ bench = "codegen" /\ server[c] = "done"
    BY <1>10 DEF RunTests, BenchCore, BenchFits
  <2>2. ASSUME NEW passed \in BOOLEAN, Over(c, passed, passed) PROVE BenchCore'
    BY <1>1, <2>1, <2>2, OverKeeps
  <2>3. CASE Becomes(c, "hung")
    BY <1>1, <2>1, <2>3, BecomesKeeps
  <2> QED BY <1>10, <2>2, <2>3 DEF RunTests
<1>11. ASSUME NEW c \in Items, AnswerExits(c) PROVE BenchCore'
  BY <1>r, <1>11 DEF AnswerExits
<1>12. CASE VllmRaises \/ UnknownTarget
  BY <1>r, <1>12 DEF VllmRaises, UnknownTarget
<1>13. ASSUME NEW c \in Items, ServeItem(c) PROVE BenchCore'
  BY <1>1, <1>13, ServeItemKeeps
<1> QED BY <1>1, <1>2, <1>4, <1>5, <1>7, <1>8, <1>9, <1>10, <1>11, <1>12, <1>13,
           CapacityKeeps, VllmKeeps, UnpooledOutputsKeep DEF BenchNext, BenchStep

(* Before a case is sent nothing is claimed.                               *)
LEMMA NothingSent ==
  ASSUME benchPc \in {"running", "raised"}, noted = <<>>, written = NoOutput,
         client = [c \in Items |-> "queued"], server = [c \in Items |-> "none"],
         bench \in Pooled \cup {"reasoning", "context", "codegen"}
  PROVE  BenchCore
<1>1. DOMAIN noted = {} /\ noted \in Seq(BenchRows)
  BY EmptySeq
<1>2. BenchTypeOK
  BY <1>1, NoOutputFits DEF BenchTypeOK
<1>3. Cardinality(InFlight) <= Width
  <2>1. InFlight = {}
    BY DEF InFlight
  <2>2. Width \in Nat
    BY BenchAssumption DEF Width
  <2> QED BY <2>1, <2>2, FS_EmptySet
<1>4. BenchFits
  BY <1>1, <1>3 DEF BenchFits
<1>5. OutputCoversItems /\ CountsMatchServer /\ PercentilesAreRanks
  BY <1>1 DEF OutputCoversItems, CountsMatchServer, PercentilesAreRanks
<1> QED BY <1>2, <1>4, <1>5 DEF BenchCore

LEMMA BenchCoreStep == BenchCore /\ [BenchNext]_benchVars => BenchCore'
<1>1. ASSUME BenchCore, UNCHANGED benchVars PROVE BenchCore'
  BY <1>1 DEF benchVars, BenchCore, BenchTypeOK, BenchFits, InFlight, Width,
     OutputCoversItems, CountsMatchServer, PercentilesAreRanks
<1> QED BY <1>1, BenchStepKeeps

LEMMA BenchCoreIsAll == BenchCore => BenchInvariant
BY LoadFollows DEF BenchCore, BenchInvariant

LEMMA BenchStarts == BenchInit => BenchCore
BY NothingSent DEF BenchInit

(* Each of the benchmarks, for any number of cases and any width: what it  *)
(* writes covers the cases in order, its successes are the server's, its   *)
(* percentiles are ranks, and its load was the one asked for.              *)
THEOREM BenchHolds == BenchSpec => []BenchInvariant
BY BenchStarts, BenchCoreStep, BenchCoreIsAll, PTL DEF BenchSpec

=============================================================================
