---------------------------- MODULE MCJobQueue ----------------------------
(* Small instances of JobQueue for TLC.                                    *)
EXTENDS JobQueue, TLC

(* Every process under its own name, as _default_consumer_name gives it.   *)
DistinctNames == [w \in Workers |-> w]

(* Every process under one JOB_WORKER_NAME.                                *)
SharedName == [w \in Workers |-> "worker"]

(* Workers are interchangeable under either naming, and so are tokens.     *)
Symmetry == Permutations(Workers) \cup Permutations(Tokens)

============================================================================
