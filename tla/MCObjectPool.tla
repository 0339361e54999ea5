---------------------------- MODULE MCObjectPool ----------------------------
(* Instances of ObjectPool for TLC. *)
EXTENDS ObjectPool, TLC

(* Neither threads nor addresses are told apart. *)
PoolSymmetry == Permutations(OpThreads) \cup Permutations(OpObjects)
=============================================================================
