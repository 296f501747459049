---------------------------- MODULE MCPageStates ----------------------------
(* Two pools next to each other in the address space. *)
EXTENDS PageStates

TwoPools == [p \in {1, 2} |-> 2 * p]
=============================================================================
