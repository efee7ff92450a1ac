----------------------------- MODULE Percentiles -----------------------------
(***************************************************************************)
(* The percentiles of the load benchmarks and of the scheduler simulation: *)
(* functions of the values that f has on its finite domain, some of them   *)
(* more than once.                                                         *)
(***************************************************************************)
EXTENDS Naturals, FiniteSets

Below(f, x) == {d \in DOMAIN f : f[d] < x}
UpTo(f, x) == {d \in DOMAIN f : f[d] <= x}

(* sorted(values): fewer than i values are below the i-th, and with those  *)
(* equal to it there are at least i.                                       *)
Ascending(f) ==
  [i \in 1..Cardinality(DOMAIN f) |->
     CHOOSE x \in {f[d] : d \in DOMAIN f} :
       Cardinality(Below(f, x)) < i /\ i <= Cardinality(UpTo(f, x))]

(* Mutant: the rank is rounded down.                                       *)
RankDown(f, p) ==
  LET rank == (p * Cardinality(DOMAIN f)) \div 100
  IN Ascending(f)[IF rank = 0 THEN 1 ELSE rank]

(* percentile of benchmark_gateway_capacity.py: the nearest rank.          *)
NearestRank(f, p) ==
  LET rank == (p * Cardinality(DOMAIN f) + 99) \div 100
  IN Ascending(f)[IF rank = 0 THEN 1 ELSE rank]

(* That of benchmark_vllm_backend.py and scheduler_simulation.py, in       *)
(* hundredths: p lies between two of the sorted values, and the result     *)
(* divides the distance between them as p does.                            *)
BetweenRanks(f, p) ==
  LET n     == Cardinality(DOMAIN f)
      place == (n - 1) * p
      low   == place \div 100 + 1
      high  == IF low < n THEN low + 1 ELSE low
  IN Ascending(f)[low] * (100 - (place % 100)) + Ascending(f)[high] * (place % 100)

=============================================================================
