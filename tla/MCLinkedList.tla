---------------------------- MODULE MCLinkedList ----------------------------
(***************************************************************************)
(* LinkedList for TLC.                                                     *)
(***************************************************************************)
EXTENDS LinkedList, TLC

CONSTANTS a, b

AllBatches == {<<a>>, <<b>>, <<a, b>>, <<b, a, a>>}

Symmetry == Permutations(Nodes)
=============================================================================
