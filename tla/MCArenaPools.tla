---------------------------- MODULE MCArenaPools ----------------------------
(* Instances of ArenaPools for TLC. *)
EXTENDS ArenaPools, TLC

CONSTANTS srv, cli, t1, t2

(* A page, and two pages at an even address. *)
MCRequests == {[size |-> 1, align |-> 1], [size |-> 2, align |-> 2]}

(* The threads are interchangeable. *)
ThreadSymmetry == Permutations(Threads)
=============================================================================
