--------------------------- MODULE MCPoolCleanup ---------------------------
(* A server application and a client application. *)
EXTENDS PoolCleanup

TwoKinds == {[side |-> "srv", app |-> "s"], [side |-> "cli", app |-> "c"]}
=============================================================================
