---------------------------- MODULE MCReplicaSet ----------------------------
(* The ReplicaSet controller on a small instance. *)
EXTENDS ReplicaSet, TLC

Symmetry == Permutations(Pods)
=============================================================================
