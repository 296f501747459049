-------------------------- MODULE MCSessionTeardown --------------------------
(* Instances of SessionTeardown for TLC. *)
EXTENDS SessionTeardown, TLC

CONSTANTS srv, cli1, cli2, s1, s2, c1, c2

(* A server process with a session to each of two clients. *)
StarProcOf == (s1 :> srv) @@ (s2 :> srv) @@ (c1 :> cli1) @@ (c2 :> cli2)
StarPeer == (s1 :> c1) @@ (s2 :> c2) @@ (c1 :> s1) @@ (c2 :> s2)

(* A session between two processes. *)
PairProcOf == (s1 :> srv) @@ (c1 :> cli1)
PairPeer == (s1 :> c1) @@ (c1 :> s1)
=============================================================================
