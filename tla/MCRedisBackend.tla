--------------------------- MODULE MCRedisBackend ---------------------------
(***************************************************************************)
(* RedisBackend for TLC.                                                   *)
(***************************************************************************)
EXTENDS RedisBackend, TLC

CONSTANTS g1, g2, d1, w1, t1, t2, sub1

\* Which task each call is about, in the different runs.
OneGet == g1 :> t1 @@ d1 :> t1
SameTask == g1 :> t1 @@ g2 :> t1
AllKinds == g1 :> t1 @@ g2 :> t1 @@ d1 :> t1 @@ w1 :> t1
WithPut == g1 :> t1 @@ g2 :> t2 @@ w1 :> t1

\* The gets may be exchanged where all of them are of one task.
SymmetrySame ==
  Permutations(Gets) \union Permutations(Conns) \union Permutations(Promises)
=============================================================================
