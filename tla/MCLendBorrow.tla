---------------------------- MODULE MCLendBorrow ----------------------------
(* Instances of LendBorrow for TLC. *)
EXTENDS LendBorrow, TLC

CONSTANTS p1, p2, a, c

(* One slot in each of two pools. *)
TwoSlots == (a :> p1) @@ (c :> p2)

=============================================================================
