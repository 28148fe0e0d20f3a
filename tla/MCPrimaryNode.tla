--------------------------- MODULE MCPrimaryNode ---------------------------
(***************************************************************************)
(* PrimaryNode on small instances.  Keys, workers and handlers are         *)
(* interchangeable.                                                        *)
(***************************************************************************)
EXTENDS PrimaryNode, TLC

Symmetry == Permutations(Keys) \cup Permutations(Workers) \cup Permutations(Handlers)
=============================================================================
