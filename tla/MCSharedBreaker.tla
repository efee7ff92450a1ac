-------------------------- MODULE MCSharedBreaker --------------------------
(* Instances of SharedBreaker for TLC: two gateways, one of them with two  *)
(* request threads.                                                        *)
EXTENDS SharedBreaker, TLC

CONSTANTS g1, g2, c1, c2, c3

ThreadsOf == [c \in Calls |-> IF c = c3 THEN g2 ELSE g1]

Symmetry == Permutations({c1, c2}) \cup Permutations(Tokens)

=============================================================================
