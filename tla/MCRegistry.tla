----------------------------- MODULE MCRegistry -----------------------------
(***************************************************************************)
(* Registry on small instances.  Goroutines are interchangeable.           *)
(***************************************************************************)
EXTENDS Registry, TLC

Symmetry == Permutations(Tasks)
=============================================================================
