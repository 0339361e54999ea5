---------------------------- MODULE MCIsgwServer ----------------------------
(* Instances of IsgwServer for TLC. *)
EXTENDS IsgwServer, TLC

(* Nothing distinguishes the workers. *)
WorkerSymmetry == Permutations(Workers)
=============================================================================
