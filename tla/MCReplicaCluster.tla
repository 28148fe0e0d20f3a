-------------------------- MODULE MCReplicaCluster --------------------------
(***************************************************************************)
(* ReplicaCluster on small instances.  Replicas are interchangeable, and   *)
(* so are keys.                                                            *)
(***************************************************************************)
EXTENDS ReplicaCluster, TLC

Symmetry == Permutations(Replicas) \cup Permutations(Keys)
=============================================================================
