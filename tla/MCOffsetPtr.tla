---------------------------- MODULE MCOffsetPtr ----------------------------
EXTENDS OffsetPtr, TLC

(* One pool as large as an offset allows, and a smaller one. *)
MCSize == (1 :> 3) @@ (2 :> 2)

MCCounts == {-1, 1}

SlotSymmetry == Permutations(Slots)
=============================================================================
