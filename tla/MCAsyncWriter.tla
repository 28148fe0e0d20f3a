--------------------------- MODULE MCAsyncWriter ---------------------------
(***************************************************************************)
(* AsyncWriter on small instances.  Keys and workers are interchangeable.  *)
(***************************************************************************)
EXTENDS AsyncWriter, TLC

Symmetry == Permutations(Keys) \cup Permutations(Workers)
=============================================================================
