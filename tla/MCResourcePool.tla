--------------------------- MODULE MCResourcePool ---------------------------
(***************************************************************************)
(* ResourcePool for TLC.  Callers, closers and resources are model values; *)
(* safety runs use the symmetry of the callers and of the resources.       *)
(***************************************************************************)
EXTENDS ResourcePool

Symmetry ==
  Permutations(Callers) \union Permutations(Resources) \union Permutations(Closers)
=============================================================================
