-------------------------- MODULE MCPoolIdGenerator --------------------------
(* Instances of PoolIdGenerator for TLC: two threads of one process and one  *)
(* of another.                                                               *)
EXTENDS PoolIdGenerator, TLC

CONSTANTS t1, t2, t3, p1, p2

MCProcOf == (t1 :> p1) @@ (t2 :> p1) @@ (t3 :> p2)
=============================================================================
