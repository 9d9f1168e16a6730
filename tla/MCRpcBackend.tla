---------------------------- MODULE MCRpcBackend ----------------------------
(***************************************************************************)
(* RpcBackend for TLC.                                                     *)
(***************************************************************************)
EXTENDS RpcBackend, TLC

CONSTANTS g1, d1, w1, w2, t1, con1

\* Both gets, the delete and one put are of the same task.
SomeCalls == g1 :> t1 @@ d1 :> t1 @@ w1 :> t1 @@ w2 :> t1
=============================================================================
