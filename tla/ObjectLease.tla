----------------------------- MODULE ObjectLease -----------------------------
(***************************************************************************)
(* What lending promises, without messages, pools or sessions: an object   *)
(* lent to another process stays where it is until every reference to it   *)
(* has come to an end, unless the lender has abandoned its slot.           *)
(***************************************************************************)
EXTENDS Naturals

CONSTANT Slots    \* places at which objects are allocated

VARIABLES
  live,       \* slots that hold an object
  refs,       \* references to every slot that are not the lender's own
  abandoned   \* slots for which the lender no longer keeps the promise

vars == <<live, refs, abandoned>>

Init ==
  /\ live = {}
  /\ refs = [s \in Slots |-> 0]
  /\ abandoned = {}

(* An object is made in a slot that holds none and that nobody refers to. *)
Construct(s) ==
  /\ s \notin live
  /\ refs[s] = 0 \/ s \in abandoned
  /\ live' = live \cup {s}
  /\ UNCHANGED <<refs, abandoned>>

(* An object is lent once more. *)
Lend(s) ==
  /\ s \in live \ abandoned
  /\ refs' = [refs EXCEPT ![s] = @ + 1]
  /\ UNCHANGED <<live, abandoned>>

(* References end, and objects without references may be freed.  Slots may *)
(* be abandoned, for good, and their objects freed with references left.   *)
End ==
  /\ refs' \in [Slots -> Nat]
  /\ \A s \in Slots : refs'[s] <= refs[s]
  /\ abandoned \subseteq abandoned'
  /\ abandoned' \subseteq Slots
  /\ live' \subseteq live
  /\ \A s \in live \ live' : refs'[s] = 0 \/ s \in abandoned'

Next == End \/ \E s \in Slots : Construct(s) \/ Lend(s)

Spec == Init /\ [][Next]_vars
=============================================================================
