--------------------------- MODULE MCSessionSetup ---------------------------
(* Two sessions of one application. *)
EXTENDS SessionSetup

CONSTANTS s1, s2

OneApp == [s \in Sessions |-> "app"]
=============================================================================
