---------------------------- MODULE MCPromiseMap ----------------------------
(***************************************************************************)
(* PromiseMap for TLC.                                                     *)
(***************************************************************************)
EXTENDS PromiseMap, TLC

Symmetry == Permutations(Keys) \union Permutations(Promises)
=============================================================================
