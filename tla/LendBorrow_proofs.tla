-------------------------- MODULE LendBorrow_proofs --------------------------
(* Theorems about LendBorrow, for every set of pools and slots. *)
EXTENDS LendBorrow, TLAPS, SequenceTheorems

USE DEF lOpen, bOpen

(* The steps of the destructors before they have the mutexes they need. *)
EndStep == StopLender \/ StopBorrower \/ BorrowerNotifies \/ BorrowerAnswered \/ BorrowerTimedOut

(* A borrowed object's pool stays open in the borrower. *)
BorrowedIsOpen == \A s \in Slots : borrowed[s] > 0 => PoolOf[s] \in bPools

(* A message, sent or not, leaves the channel's queue well typed. *)
LEMMA SendType ==
  ASSUME toBorrower \in Seq(Msg),
         NEW op \in {"LEND_ARENA", "LEND_POOL", "REMOVE_POOL"},
         NEW p, (p = NoPool /\ op = "LEND_ARENA") \/ (p \in Pools /\ op # "LEND_ARENA"),
         Send(Message(op, p))
  PROVE  toBorrower' \in Seq(Msg)
<1>1. Message(op, p) \in Msg
  BY DEF Message, Msg
<1> QED
  BY <1>1 DEF Send

(* A function on 1 .. n is a sequence. *)
LEMMA FunctionIsSeq ==
  ASSUME NEW S, NEW n \in Nat, NEW f \in [1 .. n -> S] PROVE f \in Seq(S)
  BY SeqDef, Zenon

(* An empty table of use counts, and an empty queue. *)
LEMMA EmptyTypes ==
  /\ [s \in Slots |-> 0] \in [Slots -> 0 .. MaxUse]
  /\ [s \in Slots |-> 0] \in [Slots -> Nat]
  /\ <<>> \in Seq(Msg)
<1>1. 0 \in 0 .. MaxUse
  BY ConstantsAssumption
<1> QED
  BY <1>1

(* Deregistering a pool keeps the lender's tables well typed. *)
LEMMA DeregisterType ==
  ASSUME TypeOK, NEW p \in Pools, DeregisterLenderPool(p)
  PROVE  /\ lPools' \in SUBSET Pools
         /\ pins' \in [Slots -> 0 .. MaxUse]
         /\ dropped' \in SUBSET Pools
         /\ early' \in SUBSET Slots
<1>1. 0 \in 0 .. MaxUse
  BY ConstantsAssumption
<1> QED
  BY <1>1 DEF DeregisterLenderPool, WasEmpty, TypeOK

(* So does undoing a request. *)
LEMMA UndoType ==
  ASSUME TypeOK, UndoRequest
  PROVE  /\ poolState' \in [Pools -> {"absent", "creating", "live", "removed"}]
         /\ listener' \in {"none", "requested", "added"}
         /\ req' \in Pools \cup {NoPool}
         /\ lPools' \in SUBSET Pools
         /\ pins' \in [Slots -> 0 .. MaxUse]
         /\ dropped' \in SUBSET Pools
         /\ early' \in SUBSET Slots
<1>1. CASE listener = "requested" /\ listener' = "none" /\ UNCHANGED <<poolState, req, pinVars>>
  BY <1>1 DEF TypeOK, pinVars
<1>2. CASE req \in Pools /\ req' = NoPool /\ DeregisterLenderPool(req)
             /\ poolState' = [poolState EXCEPT ![req] = "live"] /\ UNCHANGED listener
  BY <1>2, DeregisterType DEF TypeOK
<1> QED
  BY <1>1, <1>2 DEF UndoRequest

(* The inductive step of type correctness, action by action. *)
LEMMA TypeStep == TypeOK /\ [Next]_vars => TypeOK'
<1> SUFFICES ASSUME TypeOK, [Next]_vars PROVE TypeOK'
  OBVIOUS
<1> USE ConstantsAssumption DEF TypeOK
<1>1. ASSUME NEW p \in Pools, CreatePool(p) PROVE TypeOK'
  BY <1>1 DEF CreatePool, pinVars, travelVars, borrowerVars
<1>2. ASSUME NEW p \in Pools, LendShmPool(p) PROVE TypeOK'
  <2>1. toBorrower' \in Seq(Msg)
    BY <1>2, SendType DEF LendShmPool
  <2> QED
    BY <1>2, <2>1 DEF LendShmPool, RegisterLenderPool, borrowerVars
<1>3. ASSUME NEW p \in Pools, RemovePool(p) PROVE TypeOK'
  <2>1. toBorrower' \in Seq(Msg)
    BY <1>3, SendType DEF RemovePool
  <2> QED
    BY <1>3, <2>1 DEF RemovePool, DeregisterLenderPool, WasEmpty, requestVars, borrowerVars
<1>4. ASSUME NEW s \in Slots, Construct(s) PROVE TypeOK'
  BY <1>4 DEF Construct, lenderVars, requestVars, pinVars, travelVars, borrowerVars
<1>5. ASSUME NEW s \in Slots, Release(s) PROVE TypeOK'
  BY <1>5 DEF Release, lenderVars, requestVars, pinVars, travelVars, borrowerVars
<1>6. ASSUME NEW s \in Slots, LendObject(s) PROVE TypeOK'
  BY <1>6 DEF LendObject, RegisterLenderObject, arenaVars, requestVars, borrowerVars
<1>7. ASSUME NEW s \in Slots, ReceiveObjectReturn(s) PROVE TypeOK'
  BY <1>7 DEF ReceiveObjectReturn, DeregisterLenderObject, arenaVars, requestVars, borrowerVars
<1>8. ASSUME NEW s \in Slots, BorrowObject(s) PROVE TypeOK'
  BY <1>8 DEF BorrowObject, RegisterBorrowerObject, arenaVars, lenderVars, requestVars, pinVars
<1>9. ASSUME NEW s \in Slots, BorrowObjectFails(s) PROVE TypeOK'
  BY <1>9 DEF BorrowObjectFails, arenaVars, lenderVars, requestVars, pinVars, borrowerVars
<1>10. ASSUME NEW s \in Slots, ReturnObject(s) PROVE TypeOK'
  BY <1>10 DEF ReturnObject, DeregisterBorrowerObject, arenaVars, lenderVars, requestVars, pinVars, travelVars
<1>11. ASSUME NEW s \in Slots, SendReturn(s) PROVE TypeOK'
  BY <1>11 DEF SendReturn, arenaVars, lenderVars, requestVars, pinVars
<1>12. CASE LendArena
  <2>1. toBorrower' \in Seq(Msg)
    <3>1. Send(Message("LEND_ARENA", NoPool))
      BY <1>12 DEF LendArena
    <3> QED
      BY <3>1, SendType, ConstantsAssumption
  <2> QED
    BY <1>12, <2>1 DEF LendArena, arenaVars, pinVars, borrowerVars
<1>13. CASE LendArenaAccepted
  BY <1>13 DEF LendArenaAccepted, ArenaPools, arenaVars, pinVars, travelVars, borrowerVars
<1>14. CASE LendShmPoolAccepted
  BY <1>14 DEF LendShmPoolAccepted, pinVars, travelVars, borrowerVars
<1>15. CASE RequestRefused
  BY <1>15, UndoType DEF RequestRefused, travelVars, borrowerVars
<1>16. CASE RequestFailed
  BY <1>16, UndoType DEF RequestFailed, travelVars, borrowerVars
<1>17. CASE RequestTimedOut
  <2>1. toBorrower' \in Seq(Msg)
    <3>1. \A m \in Msg : [m EXCEPT !.awaited = FALSE] \in Msg
      BY DEF Msg
    <3>2. toBorrower \in [1 .. Len(toBorrower) -> Msg]
      OBVIOUS
    <3>3. toBorrower' = [i \in 1 .. Len(toBorrower) |->
                           [toBorrower[i] EXCEPT !.awaited = FALSE]]
      BY <1>17, <3>2 DEF RequestTimedOut
    <3>4. \A i \in 1 .. Len(toBorrower) :
            [toBorrower[i] EXCEPT !.awaited = FALSE] \in Msg
      BY <3>1, <3>2
    <3>5. toBorrower' \in [1 .. Len(toBorrower) -> Msg]
      BY <3>3, <3>4
    <3>6. Len(toBorrower) \in Nat
      OBVIOUS
    <3> QED
      BY <3>5, <3>6, FunctionIsSeq
  <2> QED
    BY <1>17, <2>1, UndoType DEF RequestTimedOut, borrowerVars
<1>18. CASE DisconnectLender
  BY <1>18 DEF DisconnectLender, arenaVars, requestVars, pinVars, travelVars, borrowerVars
<1>19. CASE CloseLender
  BY <1>19, EmptyTypes DEF CloseLender, arenaVars, travelVars, borrowerVars
<1>20. CASE ReceiveArena
  BY <1>20 DEF ReceiveArena, NextMessage, Respond, arenaVars, pinVars
<1>21. CASE ReceiveShmPool
  <2>1. /\ bPools' \in SUBSET Pools
        /\ reply' \in {"none", "ok", "fail"}
        /\ toBorrower' \in Seq(Msg)
    <3>1. toBorrower # <<>> /\ toBorrower' = Tail(toBorrower)
      BY <1>21 DEF ReceiveShmPool, NextMessage
    <3>2. toBorrower' \in Seq(Msg) /\ Head(toBorrower) \in Msg
      BY <3>1
    <3>3. Head(toBorrower).pool \in Pools
      BY <1>21, <3>2 DEF ReceiveShmPool, NextMessage, Msg
    <3>4. bPools' \in SUBSET Pools
      BY <1>21, <3>3 DEF ReceiveShmPool, RegisterBorrowerPool
    <3>5. reply' \in {"none", "ok", "fail"}
      BY <1>21 DEF ReceiveShmPool, Respond
    <3> QED
      BY <3>2, <3>4, <3>5
  <2> QED
    BY <1>21, <2>1 DEF ReceiveShmPool, arenaVars, pinVars
<1>22. CASE ReceiveShmPoolRemoval
  BY <1>22 DEF ReceiveShmPoolRemoval, DeregisterBorrowerPool, NextMessage, arenaVars, lenderVars, requestVars, pinVars
<1>23. CASE DisconnectBorrower
  BY <1>23 DEF DisconnectBorrower, arenaVars, lenderVars, requestVars, pinVars, travelVars
<1>24. CASE CloseBorrower
  BY <1>24 DEF CloseBorrower, arenaVars, lenderVars, requestVars, pinVars, travelVars
<1>25. CASE Hose \/ PeerGone
  <2>1. LoseInFlight
    BY <1>25 DEF Hose, PeerGone
  <2>2. toBorrower' \in Seq(Msg)
    BY <2>1 DEF LoseInFlight
  <2>3. returns' \in [Slots -> Nat]
    BY <2>1 DEF LoseInFlight
  <2> QED
    BY <2>1, <2>2, <2>3 DEF LoseInFlight, arenaVars, pinVars, borrowerVars
<1>26. CASE UNCHANGED vars
  BY <1>26 DEF vars, arenaVars, lenderVars, requestVars, pinVars, travelVars, borrowerVars
<1>27. CASE StopLender
  BY <1>27, EmptyTypes DEF StopLender, arenaVars, requestVars, pinVars, borrowerVars
<1>28. CASE StopBorrower
  BY <1>28, EmptyTypes DEF StopBorrower, arenaVars, lenderVars, requestVars, pinVars
<1>29. CASE BorrowerNotifies \/ BorrowerAnswered \/ BorrowerTimedOut
  <2>1. /\ UNCHANGED <<arenaVars, lenderVars, travelVars, bArena, bPools, borrowed, returning, bConnected>>
        /\ bLife' \in {"ending", "blocked"}
    BY <1>29 DEF BorrowerNotifies, BorrowerAnswered, BorrowerTimedOut, UnblockBorrower
  <2> QED
    BY <2>1 DEF arenaVars, lenderVars, requestVars, pinVars, travelVars
<1> QED
  BY <1>1, <1>2, <1>3, <1>4, <1>5, <1>6, <1>7, <1>8, <1>9, <1>10, <1>11,
     <1>12, <1>13, <1>14, <1>15, <1>16, <1>17, <1>18, <1>19, <1>20, <1>21,
     <1>22, <1>23, <1>24, <1>25, <1>26, <1>27, <1>28, <1>29 DEF Next

(* The initial state is well typed. *)
LEMMA InitType == Init => TypeOK
<1> SUFFICES ASSUME Init PROVE TypeOK
  OBVIOUS
<1> USE DEF Init
<1>1. 0 \in 0 .. MaxAttempts
  BY ConstantsAssumption
<1>2. attempts \in 0 .. MaxAttempts
  BY <1>1
<1>3. /\ pins \in [Slots -> 0 .. MaxUse]
      /\ handles \in [Slots -> Nat] /\ returns \in [Slots -> Nat]
      /\ borrowed \in [Slots -> Nat] /\ returning \in [Slots -> Nat]
      /\ toBorrower \in Seq(Msg)
  BY EmptyTypes
<1> QED
  BY <1>2, <1>3 DEF TypeOK

(* Every variable of the session keeps its type. *)
THEOREM TypeCorrect == Spec => []TypeOK
  BY InitType, TypeStep, PTL DEF Spec

(* Deregistering a pool clears its use counts; if one of them was not zero,  *)
(* the pool counts as dropped from then on.                                  *)
LEMMA DeregisterPinned ==
  ASSUME TypeOK, Pinned, NEW p \in Pools, DeregisterLenderPool(p),
         UNCHANGED <<lOpen, handles, borrowed, returning, returns>>
  PROVE  Pinned'
<1> SUFFICES ASSUME NEW s \in Slots, lOpen', PoolOf[s] \notin dropped'
             PROVE  pins'[s] >= Outstanding(s)'
  BY DEF Pinned
<1> USE DEF TypeOK, Pinned, Outstanding, DeregisterLenderPool, WasEmpty
<1>1. PoolOf[s] \notin dropped /\ pins[s] >= Outstanding(s)
  OBVIOUS
<1>2. Outstanding(s)' = Outstanding(s)
  OBVIOUS
<1>3. CASE PoolOf[s] = p
  <2>1. pins[s] = 0
    BY <1>3 DEF SlotsOf
  <2> QED
    BY <1>1, <1>2, <1>3, <2>1
<1>4. CASE PoolOf[s] # p
  BY <1>1, <1>2, <1>4
<1> QED
  BY <1>3, <1>4

(* The inductive step of Pinned.  Every step either leaves the counters      *)
(* alone, moves a reference from one place to the next, ends one on both     *)
(* sides, or deregisters.                                                    *)
LEMMA PinnedStep == TypeOK /\ Pinned /\ [Next]_vars => Pinned'
<1> SUFFICES ASSUME TypeOK, Pinned, [Next]_vars PROVE Pinned'
  OBVIOUS
<1>t. TypeOK'
  BY TypeStep
<1>n. \A t \in Slots : /\ pins[t] \in Nat /\ handles[t] \in Nat /\ borrowed[t] \in Nat
                        /\ returning[t] \in Nat /\ returns[t] \in Nat
  BY ConstantsAssumption DEF TypeOK
<1>m. \A t \in Slots : /\ pins'[t] \in Nat /\ handles'[t] \in Nat /\ borrowed'[t] \in Nat
                        /\ returning'[t] \in Nat /\ returns'[t] \in Nat
  BY <1>t, ConstantsAssumption DEF TypeOK
<1> DEFINE counters == <<lOpen, pins, dropped, handles, borrowed, returning, returns>>
<1>1. CASE UNCHANGED counters
  BY <1>1 DEF Pinned, Outstanding
<1>2. ASSUME NEW p \in Pools, CreatePool(p) \/ LendShmPool(p) PROVE Pinned'
  BY <1>1, <1>2 DEF CreatePool, LendShmPool, pinVars, travelVars, borrowerVars
<1>3. ASSUME NEW p \in Pools, RemovePool(p) PROVE Pinned'
  BY <1>3, DeregisterPinned DEF RemovePool, borrowerVars
<1>4. ASSUME NEW s \in Slots, Construct(s) \/ Release(s) PROVE Pinned'
  BY <1>1, <1>4 DEF Construct, Release, lenderVars, pinVars, travelVars, borrowerVars
<1>5. ASSUME NEW s \in Slots, LendObject(s) PROVE Pinned'
  BY <1>5 DEF LendObject, RegisterLenderObject, TypeOK, Pinned, Outstanding, borrowerVars
<1>6. ASSUME NEW s \in Slots, ReceiveObjectReturn(s) PROVE Pinned'
  <2> SUFFICES ASSUME NEW t \in Slots, lOpen', PoolOf[t] \notin dropped'
               PROVE  pins'[t] >= Outstanding(t)'
    BY DEF Pinned
  <2>1. lOpen /\ PoolOf[t] \notin dropped
    BY <1>6 DEF ReceiveObjectReturn, DeregisterLenderObject
  <2>2. pins[t] >= Outstanding(t)
    BY <2>1 DEF Pinned
  <2>3. CASE t = s
    <3>1. returns[s] > 0 /\ returns'[s] = returns[s] - 1
      BY <1>6 DEF ReceiveObjectReturn, DeregisterLenderObject, TypeOK
    <3>2. pins[s] > 0
      BY <1>n, <2>2, <2>3, <3>1 DEF Outstanding
    <3>3. pins'[s] = pins[s] - 1
      BY <1>6, <3>2 DEF ReceiveObjectReturn, DeregisterLenderObject, TypeOK
    <3> QED
      BY <1>6, <1>n, <2>2, <2>3, <3>1, <3>3 DEF ReceiveObjectReturn, DeregisterLenderObject, Outstanding, borrowerVars
  <2>4. CASE t # s
    <3>1. returns'[t] = returns[t] /\ pins'[t] = pins[t]
      BY <1>6, <2>4 DEF ReceiveObjectReturn, DeregisterLenderObject, TypeOK
    <3> QED
      BY <1>6, <2>2, <3>1 DEF ReceiveObjectReturn, DeregisterLenderObject, Outstanding, borrowerVars
  <2> QED
    BY <2>3, <2>4
<1>7. ASSUME NEW s \in Slots, BorrowObject(s) PROVE Pinned'
  BY <1>7 DEF BorrowObject, RegisterBorrowerObject, TypeOK, Pinned, Outstanding, lenderVars, pinVars
<1>8. ASSUME NEW s \in Slots, BorrowObjectFails(s) PROVE Pinned'
  BY <1>8 DEF BorrowObjectFails, TypeOK, Pinned, Outstanding, lenderVars, pinVars, borrowerVars
<1>9. ASSUME NEW s \in Slots, ReturnObject(s) PROVE Pinned'
  BY <1>9 DEF ReturnObject, DeregisterBorrowerObject, TypeOK, Pinned, Outstanding, lenderVars, pinVars, travelVars
<1>10. ASSUME NEW s \in Slots, SendReturn(s) PROVE Pinned'
  <2> SUFFICES ASSUME NEW t \in Slots, lOpen', PoolOf[t] \notin dropped'
               PROVE  pins'[t] >= Outstanding(t)'
    BY DEF Pinned
  <2>1. lOpen /\ PoolOf[t] \notin dropped /\ pins' = pins
    BY <1>10 DEF SendReturn, lenderVars, pinVars
  <2>2. pins[t] >= Outstanding(t)
    BY <2>1 DEF Pinned
  <2>3. Outstanding(t)' <= Outstanding(t)
    <3>1. UNCHANGED <<handles, borrowed>>
      BY <1>10 DEF SendReturn
    <3>2. CASE t = s
      <4>1. returning[t] > 0 /\ returning'[t] = returning[t] - 1
        BY <1>10, <3>2 DEF SendReturn, TypeOK
      <4>2. returns'[t] = returns[t] \/ returns'[t] = returns[t] + 1
        BY <1>10, <3>2 DEF SendReturn, TypeOK
      <4> QED
        BY <1>n, <3>1, <4>1, <4>2 DEF Outstanding
    <3>3. CASE t # s
      <4>1. returning'[t] = returning[t] /\ returns'[t] = returns[t]
        BY <1>10, <3>3 DEF SendReturn, TypeOK
      <4> QED
        BY <1>n, <3>1, <4>1 DEF Outstanding
    <3> QED
      BY <3>2, <3>3
  <2>4. pins[t] \in Nat /\ Outstanding(t) \in Nat /\ Outstanding(t)' \in Nat
    BY <1>n, <1>m DEF Outstanding
  <2> QED
    BY <2>1, <2>2, <2>3, <2>4
<1>11. CASE LendArena \/ LendArenaAccepted \/ LendShmPoolAccepted
  BY <1>1, <1>11 DEF LendArena, LendArenaAccepted, LendShmPoolAccepted, pinVars,
                     travelVars, borrowerVars
<1>12. CASE RequestRefused \/ RequestFailed \/ RequestTimedOut
  <2>1. /\ UndoRequest
        /\ UNCHANGED <<lOpen, handles, borrowed, returning, returns>>
    BY <1>12 DEF RequestRefused, RequestFailed, RequestTimedOut, travelVars, borrowerVars
  <2>2. CASE UNCHANGED pinVars
    BY <1>1, <2>1, <2>2 DEF pinVars
  <2>3. CASE req \in Pools /\ DeregisterLenderPool(req)
    BY <2>1, <2>3, DeregisterPinned
  <2> QED
    BY <2>1, <2>2, <2>3 DEF UndoRequest
<1>13. CASE CloseLender
  BY <1>13 DEF CloseLender, Pinned
<1>14. CASE DisconnectLender \/ DisconnectBorrower \/ CloseBorrower
  BY <1>1, <1>14 DEF DisconnectLender, DisconnectBorrower, CloseBorrower, lenderVars,
                     pinVars, travelVars, borrowerVars
<1>15. CASE ReceiveArena \/ ReceiveShmPool \/ ReceiveShmPoolRemoval
  BY <1>1, <1>15 DEF ReceiveArena, ReceiveShmPool, ReceiveShmPoolRemoval, lenderVars, pinVars
<1>16. CASE Hose \/ PeerGone
  <2> SUFFICES ASSUME NEW t \in Slots, lOpen', PoolOf[t] \notin dropped'
               PROVE  pins'[t] >= Outstanding(t)'
    BY DEF Pinned
  <2>1. lOpen /\ PoolOf[t] \notin dropped /\ pins' = pins
    BY <1>16 DEF Hose, PeerGone, LoseInFlight, pinVars
  <2>2. pins[t] >= Outstanding(t)
    BY <2>1 DEF Pinned
  <2>3. Outstanding(t)' <= Outstanding(t)
    <3>1. UNCHANGED <<handles, borrowed, returning>> /\ returns'[t] <= returns[t]
      BY <1>16 DEF Hose, PeerGone, LoseInFlight, borrowerVars
    <3> QED
      BY <1>n, <1>m, <3>1 DEF Outstanding
  <2>4. pins[t] \in Nat /\ Outstanding(t) \in Nat /\ Outstanding(t)' \in Nat
    BY <1>n, <1>m DEF Outstanding
  <2> QED
    BY <2>1, <2>2, <2>3, <2>4
<1>17. CASE UNCHANGED vars
  BY <1>1, <1>17 DEF vars, lenderVars, pinVars, travelVars, borrowerVars
<1>end. CASE EndStep
  <2>1. CASE StopLender
    <3>1. /\ UNCHANGED <<pins, dropped, handles, borrowed, returning>> /\ lOpen' = lOpen
          /\ \A t \in Slots : returns'[t] = 0
      BY <2>1 DEF StopLender, pinVars, borrowerVars
    <3> QED
      BY <1>n, <3>1 DEF Pinned, Outstanding
  <2>2. CASE ~StopLender
    BY <1>1, <1>end, <2>2 DEF EndStep, StopLender, StopBorrower, BorrowerNotifies, BorrowerAnswered, BorrowerTimedOut,
                    UnblockBorrower, arenaVars, lenderVars, requestVars, pinVars, travelVars, borrowerVars
  <2> QED
    BY <2>1, <2>2
<1> QED
  BY <1>end, <1>2, <1>3, <1>4, <1>5, <1>6, <1>7, <1>8, <1>9, <1>10, <1>11, <1>12,
     <1>13, <1>14, <1>15, <1>16, <1>17 DEF Next, EndStep

(* The lender's use counts cover every reference that is in a handle,        *)
(* borrowed or on its way back: no object is freed under the borrower,       *)
(* whatever times out, fails or is reordered.                                *)
THEOREM PinnedAlways == Spec => []Pinned
<1>1. Init => Pinned
  BY DEF Init, Pinned, Outstanding
<1> QED
  BY <1>1, PinnedStep, TypeCorrect, PTL DEF Spec

-----------------------------------------------------------------------------
(* The protocol: requests, registrations and what is waited for. *)

(* The notifying thread, the listener and the registered pools: pools are    *)
(* lent only while the session listens to the arena, a response is there     *)
(* only for a request, and the pool of a pending LEND_POOL is registered.    *)
Requests ==
  /\ lPools # {} \/ todo # {} \/ req # NoPool => listener = "added"
  /\ listener # "none" => lOpen
  /\ listener = "requested" => lLife = "up"
  /\ dropped # {} => listener = "added" \/ ~lOpen
  /\ reply # "none" => listener = "requested" \/ req # NoPool
  /\ req # NoPool => req \in lPools /\ req \notin todo

(* A pool is registered at most once: a dropped pool never again.            *)
Registered ==
  /\ dropped \cap (lPools \cup todo) = {}
  /\ lPools \cap todo = {}
  /\ \A s \in Slots : pins[s] > 0 => PoolOf[s] \in lPools
  /\ \A p \in lPools \cup todo : poolState[p] \in {"creating", "live"}
  /\ \A p \in dropped : poolState[p] # "absent"

(* While the channel works at most one message on its way is waited for: it  *)
(* is the request of the thread that waits, which has no response yet.       *)
Awaited == ~hosed =>
  \A i \in DOMAIN toBorrower : toBorrower[i].awaited =>
    /\ reply = "none"
    /\ \/ toBorrower[i].op = "LEND_ARENA" /\ listener = "requested"
       \/ toBorrower[i].op = "LEND_POOL" /\ toBorrower[i].pool = req
    /\ \A j \in DOMAIN toBorrower : toBorrower[j].awaited => j = i

(* The borrower has opened every registered pool but the one whose response  *)
(* is waited for, and that one too once the response is positive.            *)
Opened == bOpen =>
  /\ lPools \ {req} \subseteq bPools
  /\ reply = "ok" /\ req # NoPool => req \in bPools

(* Every REMOVE_POOL on its way is the only one for its pool.                *)
RemovedOnce ==
  \A i, j \in DOMAIN toBorrower :
    toBorrower[i].op = "REMOVE_POOL" =>
      /\ poolState[toBorrower[i].pool] = "removed"
      /\ toBorrower[j].op = "REMOVE_POOL" /\ toBorrower[j].pool = toBorrower[i].pool => j = i

(* Once the borrower's destructor has begun nothing is borrowed. *)
Ended == bLife # "up" => \A s \in Slots : borrowed[s] = 0 /\ returning[s] = 0

(* What the proofs below need of a state. *)
Protocol == TypeOK /\ Requests /\ Registered /\ Awaited /\ Ended

(* Send() leaves the queue as it is, or adds the message at its end. *)
LEMMA SentLast ==
  ASSUME toBorrower \in Seq(Msg), NEW m, Send(m), NEW i \in DOMAIN toBorrower'
  PROVE  \/ i \in DOMAIN toBorrower /\ toBorrower'[i] = toBorrower[i]
         \/ /\ ~hosed /\ i = Len(toBorrower) + 1 /\ toBorrower'[i] = m
            /\ i \notin DOMAIN toBorrower
<1>1. CASE hosed
  BY <1>1 DEF Send
<1>2. CASE ~hosed
  BY <1>2 DEF Send
<1> QED
  BY <1>1, <1>2

(* Tail() moves every message one place. *)
LEMMA TakenFirst ==
  ASSUME toBorrower \in Seq(Msg), toBorrower # <<>>, toBorrower' = Tail(toBorrower)
  PROVE  /\ 1 \in DOMAIN toBorrower /\ Head(toBorrower) = toBorrower[1]
         /\ \A i \in DOMAIN toBorrower' :
              /\ i \in Nat \ {0} /\ i + 1 \in DOMAIN toBorrower
              /\ toBorrower'[i] = toBorrower[i + 1]
  OBVIOUS

(* The queue may be cut or its messages given up, but no message changes. *)
LEMMA QueueShrinks ==
  ASSUME toBorrower \in Seq(Msg),
         \/ toBorrower' = toBorrower \/ toBorrower' = <<>>
         \/ \E k \in 0 .. Len(toBorrower) : toBorrower' = SubSeq(toBorrower, 1, k)
         \/ toBorrower' = [i \in DOMAIN toBorrower |-> [toBorrower[i] EXCEPT !.awaited = FALSE]]
  PROVE  \A i \in DOMAIN toBorrower' :
           /\ i \in DOMAIN toBorrower /\ toBorrower'[i].op = toBorrower[i].op
           /\ toBorrower'[i].pool = toBorrower[i].pool
           /\ toBorrower'[i].awaited => toBorrower[i].awaited
<1>1. CASE toBorrower' = toBorrower \/ toBorrower' = <<>>
  BY <1>1
<1>2. CASE \E k \in 0 .. Len(toBorrower) : toBorrower' = SubSeq(toBorrower, 1, k)
  BY <1>2
<1>3. CASE toBorrower' = [i \in DOMAIN toBorrower |-> [toBorrower[i] EXCEPT !.awaited = FALSE]]
  <2>1. \A i \in DOMAIN toBorrower : toBorrower[i] \in Msg
    OBVIOUS
  <2> QED
    BY <1>3, <2>1 DEF Msg
<1> QED
  BY <1>1, <1>2, <1>3

(* Deregistering a pool drops it only if an object of it is lent, and then   *)
(* the pool was registered.                                                  *)
LEMMA DeregisterRegistered ==
  ASSUME TypeOK, Registered, NEW p \in Pools, DeregisterLenderPool(p)
  PROVE  /\ lPools' = lPools \ {p}
         /\ dropped' = dropped \/ (p \in lPools /\ dropped' = dropped \cup {p})
         /\ \A s \in Slots : pins'[s] > 0 => pins[s] > 0 /\ PoolOf[s] # p
<1>1. \A s \in Slots : pins'[s] = IF PoolOf[s] = p THEN 0 ELSE pins[s]
  BY DEF DeregisterLenderPool
<1>2. ASSUME ~WasEmpty(p) PROVE p \in lPools
  <2>1. PICK s \in Slots : PoolOf[s] = p /\ pins[s] # 0
    BY <1>2 DEF WasEmpty, SlotsOf
  <2>2. pins[s] > 0
    BY <2>1, ConstantsAssumption DEF TypeOK
  <2> QED
    BY <2>1, <2>2 DEF Registered
<1> QED
  BY <1>1, <1>2 DEF DeregisterLenderPool

(* The inductive step of Registered. *)
LEMMA RegisteredStep == Protocol /\ [Next]_vars => Registered'
<1> SUFFICES ASSUME Protocol, [Next]_vars PROVE Registered'
  OBVIOUS
<1> USE DEF Protocol
<1> DEFINE mine == <<dropped, lPools, todo, pins, poolState>>
<1>1. CASE UNCHANGED mine
  BY <1>1 DEF Registered
<1>2. ASSUME NEW p \in Pools, CreatePool(p) PROVE Registered'
  BY <1>2 DEF CreatePool, pinVars, NotifierIdle, Registered, TypeOK
<1>3. ASSUME NEW p \in Pools, LendShmPool(p) PROVE Registered'
  BY <1>3 DEF LendShmPool, RegisterLenderPool, Registered, TypeOK
<1>4. ASSUME NEW p \in Pools, RemovePool(p) PROVE Registered'
  <2>1. DeregisterLenderPool(p) /\ todo' = {} /\ poolState' = [poolState EXCEPT ![p] = "removed"]
    BY <1>4 DEF RemovePool, NotifierIdle, requestVars
  <2>2. /\ lPools' = lPools \ {p} /\ dropped' \subseteq dropped \cup {p}
        /\ \A s \in Slots : pins'[s] > 0 => pins[s] > 0 /\ PoolOf[s] # p
    BY <2>1, DeregisterRegistered
  <2>3. /\ \A q \in lPools' : q \in lPools /\ poolState'[q] = poolState[q]
        /\ \A q \in dropped' : poolState'[q] # "absent"
    BY <2>1, <2>2 DEF Registered, TypeOK
  <2> QED
    BY <2>1, <2>2, <2>3 DEF Registered
<1>5. ASSUME NEW s \in Slots, Construct(s) \/ Release(s) PROVE Registered'
  BY <1>1, <1>5 DEF Construct, Release, lenderVars, requestVars, pinVars
<1>6. ASSUME NEW s \in Slots, LendObject(s) PROVE Registered'
  BY <1>6 DEF LendObject, RegisterLenderObject, arenaVars, requestVars, Registered, TypeOK
<1>7. ASSUME NEW s \in Slots, ReceiveObjectReturn(s) PROVE Registered'
  <2>1. \A t \in Slots : pins'[t] > 0 => pins[t] > 0
    BY <1>7, ConstantsAssumption DEF ReceiveObjectReturn, DeregisterLenderObject, TypeOK
  <2> QED
    BY <1>7, <2>1 DEF ReceiveObjectReturn, arenaVars, requestVars, Registered
<1>8. ASSUME NEW s \in Slots,
             BorrowObject(s) \/ BorrowObjectFails(s) \/ ReturnObject(s) \/ SendReturn(s)
      PROVE  Registered'
  BY <1>1, <1>8 DEF BorrowObject, BorrowObjectFails, ReturnObject, SendReturn, arenaVars,
                    lenderVars, requestVars, pinVars
<1>9. CASE LendArenaAccepted
  <2>1. lPools = {} /\ dropped = {}
    BY <1>9 DEF LendArenaAccepted, Requests
  <2> QED
    BY <1>9, <2>1 DEF LendArenaAccepted, ArenaPools, arenaVars, pinVars, Registered
<1>10. CASE LendShmPoolAccepted
  BY <1>10 DEF LendShmPoolAccepted, pinVars, Registered, TypeOK
<1>11. CASE RequestRefused \/ RequestFailed \/ RequestTimedOut
  <2>1. UndoRequest /\ todo' = todo
    BY <1>11 DEF RequestRefused, RequestFailed, RequestTimedOut
  <2>2. CASE UNCHANGED <<poolState, req, pinVars>>
    BY <1>1, <2>1, <2>2 DEF pinVars
  <2>3. CASE req \in Pools /\ DeregisterLenderPool(req) /\ poolState' = [poolState EXCEPT ![req] = "live"]
    <3>1. req \in lPools /\ req \notin todo
      BY <2>3, ConstantsAssumption DEF Requests
    <3>2. /\ lPools' = lPools \ {req} /\ dropped' \subseteq dropped \cup {req}
          /\ \A s \in Slots : pins'[s] > 0 => pins[s] > 0 /\ PoolOf[s] # req
      BY <2>3, DeregisterRegistered
    <3>3. /\ \A q \in lPools' \cup todo : poolState'[q] = poolState[q]
          /\ \A q \in dropped' : poolState'[q] # "absent"
      BY <2>3, <3>1, <3>2 DEF Registered, TypeOK
    <3> QED
      BY <2>1, <3>1, <3>2, <3>3 DEF Registered
  <2> QED
    BY <2>1, <2>2, <2>3 DEF UndoRequest
<1>12. CASE CloseLender
  <2>1. \A s \in Slots : ~(pins'[s] > 0)
    BY <1>12 DEF CloseLender
  <2> QED
    BY <1>12, <2>1 DEF CloseLender, NotifierIdle, arenaVars, Registered
<1>13. CASE LendArena \/ DisconnectLender \/ DisconnectBorrower \/ CloseBorrower
  BY <1>1, <1>13 DEF LendArena, DisconnectLender, DisconnectBorrower, CloseBorrower,
                     arenaVars, lenderVars, requestVars, pinVars
<1>14. CASE ReceiveArena \/ ReceiveShmPool \/ ReceiveShmPoolRemoval \/ Hose \/ PeerGone
  BY <1>1, <1>14 DEF ReceiveArena, ReceiveShmPool, ReceiveShmPoolRemoval, Hose, PeerGone,
                     LoseInFlight, arenaVars, lenderVars, requestVars, pinVars
<1>15. CASE UNCHANGED vars
  BY <1>1, <1>15 DEF vars, arenaVars, lenderVars, requestVars, pinVars
<1>end. CASE EndStep
  BY <1>1, <1>end DEF EndStep, StopLender, StopBorrower, BorrowerNotifies, BorrowerAnswered, BorrowerTimedOut,
                    UnblockBorrower, arenaVars, lenderVars, requestVars, pinVars, travelVars, borrowerVars
<1> HIDE DEF Protocol, mine
<1> QED
  BY <1>end, <1>2, <1>3, <1>4, <1>5, <1>6, <1>7, <1>8, <1>9, <1>10, <1>11, <1>12, <1>13,
     <1>14, <1>15 DEF Next, EndStep

(* A message that is answered was awaited by the thread that is waiting.     *)
LEMMA Answered ==
  ASSUME Protocol, NEW op, NextMessage(op), NEW success, Respond(Head(toBorrower), success)
  PROVE  reply' = reply \/ listener = "requested" \/ req # NoPool
<1>1. CASE hosed \/ ~Head(toBorrower).awaited
  BY <1>1 DEF Respond
<1>2. CASE ~hosed /\ Head(toBorrower).awaited
  <2>1. /\ 1 \in DOMAIN toBorrower /\ Head(toBorrower) = toBorrower[1]
        /\ toBorrower[1] \in Msg
    BY TakenFirst DEF NextMessage, Protocol, TypeOK
  <2> QED
    BY <1>2, <2>1, ConstantsAssumption DEF Protocol, Awaited, Msg
<1> QED
  BY <1>1, <1>2

(* The inductive step of Requests. *)
LEMMA RequestsStep == Protocol /\ [Next]_vars => Requests'
<1> SUFFICES ASSUME Protocol, [Next]_vars PROVE Requests'
  OBVIOUS
<1> USE ConstantsAssumption DEF Protocol
<1> DEFINE mine == <<lPools, todo, req, listener, lLife, dropped, reply>>
<1>1. CASE UNCHANGED mine
  BY <1>1 DEF Requests
<1>2. ASSUME NEW p \in Pools, CreatePool(p) PROVE Requests'
  BY <1>2 DEF CreatePool, pinVars, NotifierIdle, Requests
<1>3. ASSUME NEW p \in Pools, LendShmPool(p) PROVE Requests'
  BY <1>3 DEF LendShmPool, RegisterLenderPool, Requests
<1>4. ASSUME NEW p \in Pools, RemovePool(p) PROVE Requests'
  <2>1. DeregisterLenderPool(p) /\ UNCHANGED <<requestVars, lLife>> /\ NotifierIdle
    BY <1>4 DEF RemovePool
  <2> QED
    BY <2>1, DeregisterRegistered DEF requestVars, NotifierIdle, Requests
<1>5. ASSUME NEW s \in Slots,
             \/ Construct(s) \/ Release(s) \/ LendObject(s) \/ ReceiveObjectReturn(s)
             \/ BorrowObject(s) \/ BorrowObjectFails(s) \/ ReturnObject(s) \/ SendReturn(s)
      PROVE  Requests'
  BY <1>1, <1>5 DEF Construct, Release, LendObject, ReceiveObjectReturn, BorrowObject,
                    BorrowObjectFails, ReturnObject, SendReturn, lenderVars, requestVars, pinVars
<1>6. CASE LendArena
  BY <1>6 DEF LendArena, pinVars, Requests
<1>7. CASE LendArenaAccepted
  BY <1>7 DEF LendArenaAccepted, NotifierIdle, pinVars, Requests
<1>8. CASE LendShmPoolAccepted
  BY <1>8 DEF LendShmPoolAccepted, pinVars, Requests
<1>9. CASE RequestRefused \/ RequestFailed \/ RequestTimedOut
  <2>1. UndoRequest /\ todo' = todo /\ lLife' = lLife /\ reply' = "none"
    BY <1>9 DEF RequestRefused, RequestFailed, RequestTimedOut
  <2>2. CASE listener = "requested" /\ listener' = "none" /\ UNCHANGED <<poolState, req, pinVars>>
    BY <2>1, <2>2 DEF pinVars, Requests
  <2>3. CASE req \in Pools /\ req' = NoPool /\ DeregisterLenderPool(req) /\ UNCHANGED listener
    BY <2>1, <2>3, DeregisterRegistered DEF Requests
  <2> QED
    BY <2>1, <2>2, <2>3 DEF UndoRequest
<1>10. CASE CloseLender
  BY <1>10 DEF CloseLender, NotifierIdle, Requests
<1>11. CASE DisconnectLender \/ DisconnectBorrower \/ CloseBorrower \/ ReceiveShmPoolRemoval
  BY <1>1, <1>11 DEF DisconnectLender, DisconnectBorrower, CloseBorrower, ReceiveShmPoolRemoval,
                     lenderVars, requestVars, pinVars
<1>12. CASE ReceiveArena \/ ReceiveShmPool
  <2>1. reply' = reply \/ listener = "requested" \/ req # NoPool
    BY <1>12, Answered DEF ReceiveArena, ReceiveShmPool
  <2>2. UNCHANGED <<lPools, todo, req, listener, lLife, dropped>>
    BY <1>12 DEF ReceiveArena, ReceiveShmPool, pinVars
  <2> QED
    BY <2>1, <2>2 DEF Requests
<1>13. CASE Hose \/ PeerGone
  BY <1>13 DEF Hose, PeerGone, LoseInFlight, pinVars, Requests
<1>14. CASE UNCHANGED vars
  BY <1>1, <1>14 DEF vars, lenderVars, requestVars, pinVars
<1>end. CASE EndStep
  <2>1. UNCHANGED <<lPools, todo, req, listener, dropped, reply>>
    BY <1>end DEF EndStep, StopLender, StopBorrower, BorrowerNotifies, BorrowerAnswered,
                  BorrowerTimedOut, UnblockBorrower, lenderVars, requestVars, pinVars
  <2>2. lLife' = lLife \/ (lLife = "up" /\ lLife' = "ending" /\ listener # "requested")
    BY <1>end DEF EndStep, StopLender, LendingArena, StopBorrower, BorrowerNotifies, BorrowerAnswered,
                  BorrowerTimedOut, UnblockBorrower, lenderVars
  <2> QED
    BY <2>1, <2>2 DEF Requests
<1> HIDE DEF Protocol, mine
<1> QED
  BY <1>end, <1>2, <1>3, <1>4, <1>5, <1>6, <1>7, <1>8, <1>9, <1>10, <1>11, <1>12, <1>13,
     <1>14 DEF Next, EndStep

(* Nothing on its way is waited for when a response is there, or nobody      *)
(* waits.                                                                    *)
LEMMA NoneAwaited ==
  ASSUME Protocol, ~hosed, reply # "none" \/ (listener # "requested" /\ req = NoPool)
  PROVE  \A i \in DOMAIN toBorrower : ~toBorrower[i].awaited
<1>1. \A i \in DOMAIN toBorrower : toBorrower[i] \in Msg
  BY DEF Protocol, TypeOK
<1> QED
  BY <1>1, ConstantsAssumption DEF Protocol, Awaited, Msg

(* A thread that sends its request is the only one to wait. *)
LEMMA SendAwaited ==
  ASSUME Protocol, ~hosed, \A i \in DOMAIN toBorrower : ~toBorrower[i].awaited,
         reply' = "none", NEW p,
         \/ Send(Message("LEND_ARENA", p)) /\ listener' = "requested"
         \/ Send(Message("LEND_POOL", p)) /\ req' = p
         \/ Send(Message("REMOVE_POOL", p))
  PROVE  Awaited'
<1> SUFFICES ASSUME NEW i \in DOMAIN toBorrower', toBorrower'[i].awaited,
                    NEW j \in DOMAIN toBorrower', toBorrower'[j].awaited
             PROVE  /\ \/ toBorrower'[i].op = "LEND_ARENA" /\ listener' = "requested"
                       \/ toBorrower'[i].op = "LEND_POOL" /\ toBorrower'[i].pool = req'
                    /\ j = i
  BY DEF Awaited
<1>1. toBorrower \in Seq(Msg)
  BY DEF Protocol, TypeOK
<1>2. CASE Send(Message("LEND_ARENA", p)) /\ listener' = "requested"
  BY <1>1, <1>2, SentLast DEF Message
<1>3. CASE Send(Message("LEND_POOL", p)) /\ req' = p
  BY <1>1, <1>3, SentLast DEF Message
<1>4. CASE Send(Message("REMOVE_POOL", p))
  <2>1. ~Message("REMOVE_POOL", p).awaited
    BY DEF Message
  <2> QED
    BY <1>1, <1>4, <2>1, SentLast
<1> QED
  BY <1>2, <1>3, <1>4

(* The inductive step of Awaited. *)
LEMMA AwaitedStep == Protocol /\ [Next]_vars => Awaited'
<1> SUFFICES ASSUME Protocol, [Next]_vars, ~hosed' PROVE Awaited'
  BY DEF Awaited
<1> USE DEF Protocol
<1>q. toBorrower \in Seq(Msg)
  BY DEF TypeOK
<1>e. ASSUME toBorrower' = <<>> PROVE Awaited'
  BY <1>e DEF Awaited
<1>1. ASSUME UNCHANGED <<toBorrower, reply, listener, req, hosed>> PROVE Awaited'
  BY <1>1 DEF Awaited
<1>0. ASSUME ~hosed, reply # "none" \/ (listener # "requested" /\ req = NoPool), UNCHANGED toBorrower
      PROVE  Awaited'
  BY <1>0, NoneAwaited DEF Awaited
<1>2. ASSUME NEW p \in Pools, CreatePool(p) PROVE Awaited'
  BY <1>1, <1>2 DEF CreatePool, travelVars
<1>3. ASSUME NEW p \in Pools, LendShmPool(p) PROVE Awaited'
  <2>1. ~hosed /\ req = NoPool /\ listener = "added" /\ reply = "none" /\ reply' = "none"
    BY <1>3 DEF LendShmPool, Requests
  <2>2. CASE lConnected
    BY <1>3, <2>1, <2>2, NoneAwaited, SendAwaited DEF LendShmPool
  <2>3. CASE ~lConnected
    BY <1>1, <1>3, <2>1, <2>3 DEF LendShmPool
  <2> QED
    BY <2>2, <2>3
<1>4. ASSUME NEW p \in Pools, RemovePool(p) PROVE Awaited'
  <2>1. ~hosed /\ req = NoPool /\ UNCHANGED <<hosed, reply, listener, req>>
    BY <1>4 DEF RemovePool, NotifierIdle, requestVars
  <2>2. CASE p \in lPools /\ lConnected /\ WasEmpty(p)
    <3>1. listener = "added" /\ reply = "none"
      BY <2>1, <2>2 DEF Requests
    <3>2. Send(Message("REMOVE_POOL", p))
      BY <1>4, <2>2 DEF RemovePool
    <3> QED
      BY <2>1, <3>1, <3>2, NoneAwaited, SendAwaited
  <2>3. CASE ~(p \in lPools /\ lConnected /\ WasEmpty(p))
    BY <1>1, <1>4, <2>1, <2>3 DEF RemovePool
  <2> QED
    BY <2>2, <2>3
<1>5. ASSUME NEW s \in Slots,
             \/ Construct(s) \/ Release(s) \/ LendObject(s) \/ ReceiveObjectReturn(s)
             \/ BorrowObject(s) \/ BorrowObjectFails(s) \/ ReturnObject(s) \/ SendReturn(s)
      PROVE  Awaited'
  BY <1>1, <1>5 DEF Construct, Release, LendObject, ReceiveObjectReturn, BorrowObject,
                    BorrowObjectFails, ReturnObject, SendReturn, lenderVars, requestVars, travelVars
<1>6. CASE LendArena
  <2>1. /\ ~hosed /\ req = NoPool /\ listener = "none" /\ reply = "none" /\ reply' = "none"
        /\ Send(Message("LEND_ARENA", NoPool)) /\ listener' = "requested"
    BY <1>6 DEF LendArena, Requests
  <2> QED
    BY <2>1, NoneAwaited, SendAwaited
<1>7. CASE LendArenaAccepted \/ LendShmPoolAccepted
  BY <1>0, <1>7 DEF LendArenaAccepted, LendShmPoolAccepted, travelVars
<1>8. CASE RequestRefused
  BY <1>0, <1>8 DEF RequestRefused, travelVars
<1>9. CASE RequestFailed
  BY <1>9 DEF RequestFailed, travelVars
<1>10. CASE RequestTimedOut
  <2>1. \A i \in DOMAIN toBorrower : toBorrower[i] \in Msg
    BY <1>q
  <2>2. \A i \in DOMAIN toBorrower' : ~toBorrower'[i].awaited
    BY <1>10, <2>1 DEF RequestTimedOut, Msg
  <2> QED
    BY <2>2 DEF Awaited
<1>11. CASE CloseLender
  BY <1>0, <1>11 DEF CloseLender, NotifierIdle, Requests, travelVars
<1>12. CASE DisconnectLender \/ DisconnectBorrower
  BY <1>1, <1>12 DEF DisconnectLender, DisconnectBorrower, lenderVars, requestVars, travelVars
<1>13. CASE CloseBorrower
  BY <1>1, <1>13 DEF CloseBorrower, lenderVars, requestVars, travelVars
<1>14. CASE ReceiveArena \/ ReceiveShmPool \/ ReceiveShmPoolRemoval
  <2>0. hosed' = hosed /\ UNCHANGED <<listener, req>>
    BY <1>14 DEF ReceiveArena, ReceiveShmPool, ReceiveShmPoolRemoval, lenderVars, requestVars
  <2>1. /\ toBorrower # <<>> /\ toBorrower' = Tail(toBorrower)
        /\ ~hosed /\ UNCHANGED <<listener, req>>
    BY <1>14, <2>0 DEF ReceiveArena, ReceiveShmPool, ReceiveShmPoolRemoval, NextMessage
  <2>2. reply' = reply \/ toBorrower[1].awaited
    BY <1>14, <2>1, <1>q, TakenFirst DEF ReceiveArena, ReceiveShmPool, ReceiveShmPoolRemoval, Respond,
                               lenderVars, requestVars
  <2>3. \A i \in DOMAIN toBorrower' :
          /\ i \in Nat \ {0} /\ i + 1 \in DOMAIN toBorrower
          /\ toBorrower'[i] = toBorrower[i + 1]
    BY <1>q, <2>1, TakenFirst
  <2>4. 1 \in DOMAIN toBorrower
    BY <1>q, <2>1, TakenFirst
  <2>5. ASSUME NEW i \in DOMAIN toBorrower', toBorrower'[i].awaited PROVE reply' = reply
    <3>1. /\ i + 1 \in DOMAIN toBorrower /\ toBorrower[i + 1].awaited /\ i + 1 # 1
      BY <2>3, <2>5
    <3> QED
      BY <2>1, <2>2, <2>4, <3>1 DEF Awaited
  <2>6. ASSUME NEW i \in DOMAIN toBorrower', toBorrower'[i].awaited,
               NEW j \in DOMAIN toBorrower', toBorrower'[j].awaited
        PROVE  j = i
    <3>1. i + 1 = j + 1
      BY <2>1, <2>3, <2>6 DEF Awaited
    <3> QED
      BY <2>3, <3>1
  <2> QED
    BY <2>1, <2>3, <2>5, <2>6 DEF Awaited
<1>15. CASE Hose \/ PeerGone
  BY <1>15 DEF Hose, PeerGone, LoseInFlight
<1>16. CASE UNCHANGED vars
  BY <1>1, <1>16 DEF vars, lenderVars, requestVars, travelVars
<1>end. CASE EndStep
  BY <1>1, <1>e, <1>end DEF EndStep, StopLender, StopBorrower, BorrowerNotifies, BorrowerAnswered, BorrowerTimedOut,
                    UnblockBorrower, arenaVars, lenderVars, requestVars, pinVars, travelVars, borrowerVars
<1> HIDE DEF Protocol
<1> QED
  BY <1>end, <1>2, <1>3, <1>4, <1>5, <1>6, <1>7, <1>8, <1>9, <1>10, <1>11, <1>12, <1>13,
     <1>14, <1>15, <1>16 DEF Next, EndStep

(* What a step does to the end of the borrower's session and what is         *)
(* borrowed: once the destructor has begun nothing is.                       *)
LEMMA EndedStep == Protocol /\ [Next]_vars => Ended'
<1> SUFFICES ASSUME Protocol, [Next]_vars PROVE Ended'
  OBVIOUS
<1>i. TypeOK /\ Ended
  BY DEF Protocol
<1>1. CASE UNCHANGED <<bLife, borrowed, returning>>
  BY <1>1, <1>i DEF Ended
<1>2. ASSUME NEW p \in Pools, CreatePool(p) \/ LendShmPool(p) \/ RemovePool(p) PROVE Ended'
  BY <1>1, <1>2 DEF CreatePool, LendShmPool, RemovePool, borrowerVars
<1>3. ASSUME NEW s \in Slots,
             \/ Construct(s) \/ Release(s) \/ LendObject(s) \/ ReceiveObjectReturn(s)
             \/ BorrowObjectFails(s)
      PROVE  Ended'
  BY <1>1, <1>3 DEF Construct, Release, LendObject, ReceiveObjectReturn, BorrowObjectFails, borrowerVars
<1>4. ASSUME NEW s \in Slots, BorrowObject(s) PROVE Ended'
  BY <1>4 DEF BorrowObject, Ended
<1>5. ASSUME NEW s \in Slots, ReturnObject(s) \/ SendReturn(s) PROVE Ended'
  <2>1. bLife' = bLife /\ (borrowed[s] > 0 \/ returning[s] > 0)
    BY <1>5 DEF ReturnObject, SendReturn
  <2>2. bLife' = "up"
    BY <1>i, <2>1 DEF Ended
  <2> QED
    BY <2>2 DEF Ended
<1>6. CASE \/ LendArena \/ LendArenaAccepted \/ LendShmPoolAccepted \/ RequestRefused
           \/ RequestFailed \/ RequestTimedOut \/ DisconnectLender \/ StopLender \/ CloseLender
  BY <1>1, <1>6 DEF LendArena, LendArenaAccepted, LendShmPoolAccepted, RequestRefused, RequestFailed,
                    RequestTimedOut, DisconnectLender, StopLender, CloseLender, borrowerVars
<1>7. CASE \/ ReceiveArena \/ ReceiveShmPool \/ ReceiveShmPoolRemoval \/ DisconnectBorrower
           \/ Hose \/ PeerGone
  BY <1>1, <1>7 DEF ReceiveArena, ReceiveShmPool, ReceiveShmPoolRemoval, DisconnectBorrower, Hose,
                    PeerGone, LoseInFlight, borrowerVars
<1>8. CASE StopBorrower
  BY <1>8 DEF StopBorrower, Ended
<1>9. CASE BorrowerNotifies \/ BorrowerAnswered \/ BorrowerTimedOut \/ CloseBorrower
  BY <1>i, <1>9 DEF BorrowerNotifies, BorrowerAnswered, BorrowerTimedOut, UnblockBorrower,
                    CloseBorrower, Ended
<1>10. CASE UNCHANGED vars
  BY <1>1, <1>10 DEF vars, borrowerVars
<1> HIDE DEF Ended
<1> QED
  BY <1>2, <1>3, <1>4, <1>5, <1>6, <1>7, <1>8, <1>9, <1>10 DEF Next

(* A removed pool stays removed. *)
LEMMA RemovedStays ==
  ASSUME Protocol, [Next]_vars, NEW p \in Pools, poolState[p] = "removed"
  PROVE  poolState'[p] = "removed"
<1> USE DEF Protocol
<1>1. ASSUME UNCHANGED poolState PROVE poolState'[p] = "removed"
  BY <1>1
<1>2. ASSUME NEW q \in Pools, CreatePool(q) \/ LendShmPool(q) PROVE poolState'[p] = "removed"
  BY <1>2 DEF CreatePool, LendShmPool, Registered, TypeOK
<1>3. ASSUME NEW q \in Pools, RemovePool(q) PROVE poolState'[p] = "removed"
  BY <1>3 DEF RemovePool, TypeOK
<1>4. ASSUME NEW s \in Slots,
             \/ Construct(s) \/ Release(s) \/ LendObject(s) \/ ReceiveObjectReturn(s)
             \/ BorrowObject(s) \/ BorrowObjectFails(s) \/ ReturnObject(s) \/ SendReturn(s)
      PROVE  poolState'[p] = "removed"
  BY <1>1, <1>4 DEF Construct, Release, LendObject, ReceiveObjectReturn, BorrowObject,
                    BorrowObjectFails, ReturnObject, SendReturn, arenaVars
<1>5. ASSUME req \in Pools, poolState' = [poolState EXCEPT ![req] = "live"]
      PROVE  poolState'[p] = "removed"
  BY <1>5, ConstantsAssumption DEF Requests, Registered, TypeOK
<1>6. CASE LendShmPoolAccepted \/ RequestRefused \/ RequestFailed \/ RequestTimedOut
  BY <1>1, <1>5, <1>6 DEF LendShmPoolAccepted, RequestRefused, RequestFailed, RequestTimedOut,
                          UndoRequest
<1>7. CASE \/ LendArena \/ LendArenaAccepted \/ DisconnectLender \/ CloseLender
           \/ DisconnectBorrower \/ CloseBorrower
  BY <1>1, <1>7 DEF LendArena, LendArenaAccepted, DisconnectLender, CloseLender,
                    DisconnectBorrower, CloseBorrower, arenaVars
<1>8. CASE ReceiveArena \/ ReceiveShmPool \/ ReceiveShmPoolRemoval \/ Hose \/ PeerGone
  BY <1>1, <1>8 DEF ReceiveArena, ReceiveShmPool, ReceiveShmPoolRemoval, Hose, PeerGone,
                    LoseInFlight, arenaVars
<1>9. CASE UNCHANGED vars
  BY <1>1, <1>9 DEF vars, arenaVars
<1>end. CASE EndStep
  BY <1>1, <1>end DEF EndStep, StopLender, StopBorrower, BorrowerNotifies, BorrowerAnswered, BorrowerTimedOut,
                    UnblockBorrower, arenaVars, lenderVars, requestVars, pinVars, travelVars, borrowerVars
<1> HIDE DEF Protocol
<1> QED
  BY <1>end, <1>2, <1>3, <1>4, <1>6, <1>7, <1>8, <1>9 DEF Next, EndStep

(* The references to a slot grow in number only when its object is lent.     *)
LEMMA RefsStep ==
  ASSUME TypeOK, [Next]_vars, NEW s \in Slots
  PROVE  /\ Outstanding(s) \in Nat /\ Outstanding(s)' \in Nat
         /\ Outstanding(s)' <= Outstanding(s) \/ LendObject(s)
<1>t. TypeOK'
  BY TypeStep
<1>n. /\ handles[s] \in Nat /\ borrowed[s] \in Nat /\ returning[s] \in Nat /\ returns[s] \in Nat
      /\ handles'[s] \in Nat /\ borrowed'[s] \in Nat /\ returning'[s] \in Nat /\ returns'[s] \in Nat
  BY <1>t DEF TypeOK
<1>o. Outstanding(s) \in Nat /\ Outstanding(s)' \in Nat
  BY <1>n DEF Outstanding
<1> DEFINE Fewer == Outstanding(s)' <= Outstanding(s)
<1> DEFINE refs == <<handles, borrowed, returning, returns>>
<1> SUFFICES Fewer \/ LendObject(s)
  BY <1>o
<1>1. ASSUME UNCHANGED refs PROVE Fewer
  BY <1>1, <1>n DEF Outstanding
<1>2. ASSUME NEW p \in Pools, CreatePool(p) \/ LendShmPool(p) \/ RemovePool(p) PROVE Fewer
  BY <1>1, <1>2 DEF CreatePool, LendShmPool, RemovePool, travelVars, borrowerVars
<1>3. ASSUME NEW t \in Slots, Construct(t) \/ Release(t) PROVE Fewer
  BY <1>1, <1>3 DEF Construct, Release, travelVars, borrowerVars
<1>4. ASSUME NEW t \in Slots, LendObject(t) PROVE Fewer \/ LendObject(s)
  <2>1. CASE t # s
    BY <1>4, <1>n, <2>1 DEF LendObject, Outstanding, TypeOK, borrowerVars
  <2> QED
    BY <1>4, <2>1
<1>5. ASSUME NEW t \in Slots, ReceiveObjectReturn(t) PROVE Fewer
  <2>1. returns'[s] <= returns[s]
    BY <1>5, <1>n DEF ReceiveObjectReturn, TypeOK
  <2>2. UNCHANGED <<handles, borrowed, returning>>
    BY <1>5 DEF ReceiveObjectReturn, borrowerVars
  <2> QED
    BY <1>n, <2>1, <2>2 DEF Outstanding
<1>6. ASSUME NEW t \in Slots, BorrowObject(t) PROVE Fewer
  <2>1. /\ handles'[s] + borrowed'[s] = handles[s] + borrowed[s]
    BY <1>6, <1>n DEF BorrowObject, RegisterBorrowerObject, TypeOK
  <2>2. UNCHANGED <<returning, returns>>
    BY <1>6 DEF BorrowObject
  <2> QED
    BY <1>n, <2>1, <2>2 DEF Outstanding
<1>7. ASSUME NEW t \in Slots, BorrowObjectFails(t) PROVE Fewer
  <2>1. handles'[s] <= handles[s]
    BY <1>7, <1>n DEF BorrowObjectFails, TypeOK
  <2>2. UNCHANGED <<borrowed, returning, returns>>
    BY <1>7 DEF BorrowObjectFails, borrowerVars
  <2> QED
    BY <1>n, <2>1, <2>2 DEF Outstanding
<1>8. ASSUME NEW t \in Slots, ReturnObject(t) PROVE Fewer
  <2>1. /\ borrowed'[s] + returning'[s] = borrowed[s] + returning[s]
    BY <1>8, <1>n DEF ReturnObject, DeregisterBorrowerObject, TypeOK
  <2>2. UNCHANGED <<handles, returns>>
    BY <1>8 DEF ReturnObject, travelVars
  <2> QED
    BY <1>n, <2>1, <2>2 DEF Outstanding
<1>9. ASSUME NEW t \in Slots, SendReturn(t) PROVE Fewer
  <2>1. returning'[s] + returns'[s] <= returning[s] + returns[s]
    BY <1>9, <1>n DEF SendReturn, TypeOK
  <2>2. UNCHANGED <<handles, borrowed>>
    BY <1>9 DEF SendReturn
  <2> QED
    BY <1>n, <2>1, <2>2 DEF Outstanding
<1>10. CASE LendArena \/ LendArenaAccepted \/ LendShmPoolAccepted
  BY <1>1, <1>10 DEF LendArena, LendArenaAccepted, LendShmPoolAccepted, travelVars, borrowerVars
<1>11. CASE RequestRefused \/ RequestFailed \/ RequestTimedOut
  BY <1>1, <1>11 DEF RequestRefused, RequestFailed, RequestTimedOut, travelVars, borrowerVars
<1>12. CASE DisconnectLender \/ CloseLender \/ DisconnectBorrower \/ CloseBorrower
  BY <1>1, <1>12 DEF DisconnectLender, CloseLender, DisconnectBorrower, CloseBorrower,
                     travelVars, borrowerVars
<1>13. CASE ReceiveArena \/ ReceiveShmPool \/ ReceiveShmPoolRemoval
  BY <1>1, <1>13 DEF ReceiveArena, ReceiveShmPool, ReceiveShmPoolRemoval
<1>14. CASE Hose \/ PeerGone
  <2>1. returns'[s] <= returns[s] /\ UNCHANGED <<handles, borrowed, returning>>
    BY <1>14 DEF Hose, PeerGone, LoseInFlight, borrowerVars
  <2> QED
    BY <1>n, <2>1 DEF Outstanding
<1>15. CASE UNCHANGED vars
  BY <1>1, <1>15 DEF vars, travelVars, borrowerVars
<1>end. CASE EndStep
  <2>1. CASE StopLender
    <3>1. UNCHANGED <<handles, borrowed, returning>> /\ returns'[s] = 0
      BY <2>1 DEF StopLender, borrowerVars
    <3> QED
      BY <1>n, <3>1 DEF Outstanding
  <2>2. CASE ~StopLender
    BY <1>1, <1>end, <2>2 DEF EndStep, StopLender, StopBorrower, BorrowerNotifies, BorrowerAnswered, BorrowerTimedOut,
                    UnblockBorrower, arenaVars, lenderVars, requestVars, pinVars, travelVars, borrowerVars
  <2> QED
    BY <2>1, <2>2
<1> HIDE DEF Fewer, refs
<1> QED
  BY <1>end, <1>2, <1>3, <1>4, <1>5, <1>6, <1>7, <1>8, <1>9, <1>10, <1>11, <1>12, <1>13,
     <1>14, <1>15 DEF Next, EndStep

-----------------------------------------------------------------------------
(* The refinement of ObjectLease. *)

(* A step that is not Construct() makes no object, and what it frees has no  *)
(* use count left: if anything still refers to it, its slot is abandoned.    *)
LEMMA EndOfLease ==
  ASSUME TypeOK, TypeOK', Pinned',
         \A s \in Slots : Outstanding(s)' <= Outstanding(s),
         \A s \in Slots : Alive(s)' => Alive(s),
         dropped \subseteq dropped', lOpen' => lOpen
  PROVE  Lease!End
<1>1. \A s \in Slots : Outstanding(s)' \in Nat /\ pins'[s] \in Nat
  <2>1. /\ handles' \in [Slots -> Nat] /\ returns' \in [Slots -> Nat]
        /\ borrowed' \in [Slots -> Nat] /\ returning' \in [Slots -> Nat]
        /\ pins' \in [Slots -> 0 .. MaxUse]
    BY DEF TypeOK
  <2> QED
    BY <2>1, ConstantsAssumption DEF Outstanding
<1>2. \A s \in Slots : ~Alive(s)' => Outstanding(s)' = 0 \/ PoolOf[s] \in dropped' \/ ~lOpen'
  <2> SUFFICES ASSUME NEW s \in Slots, ~Alive(s)', PoolOf[s] \notin dropped', lOpen'
               PROVE  Outstanding(s)' = 0
    OBVIOUS
  <2>1. pins'[s] >= Outstanding(s)'
    BY DEF Pinned
  <2>2. pins'[s] = 0
    BY <1>1 DEF Alive
  <2> QED
    BY <1>1, <2>1, <2>2
<1>3. [s \in Slots |-> Outstanding(s)]' \in [Slots -> Nat]
  BY <1>1
<1>4. \A s \in Slots : [t \in Slots |-> Outstanding(t)]'[s] <= [t \in Slots |-> Outstanding(t)][s]
  BY <1>1
<1> QED
  BY <1>2, <1>3, <1>4 DEF Lease!End

(* What a step may do to the promise: abandoning is for good, and objects    *)
(* are made by Construct() only.                                             *)
LEMMA LeaseStep ==
  ASSUME Protocol, [Next]_vars
  PROVE  /\ dropped \subseteq dropped'
         /\ lOpen' => lOpen
         /\ lLife' = "up" => lLife = "up"
         /\ \A s \in Slots : \/ Alive(s)' => Alive(s)
                             \/ Construct(s)
         /\ \A s \in Slots : LendObject(s) => s \in held /\ lOpen /\ PoolOf[s] \notin dropped
<1> USE DEF Protocol
<1>0. \A s \in Slots : LendObject(s) => s \in held /\ lOpen /\ PoolOf[s] \notin dropped
  BY DEF LendObject, Registered
<1>n. \A s \in Slots : pins[s] \in Nat
  BY ConstantsAssumption DEF TypeOK
<1> DEFINE Goal == /\ dropped \subseteq dropped' /\ (lOpen' => lOpen)
                   /\ (lLife' = "up" => lLife = "up")
                   /\ \A s \in Slots : (Alive(s)' => Alive(s)) \/ Construct(s)
<1> SUFFICES Goal
  BY <1>0
<1>1. ASSUME lLife' = lLife, UNCHANGED <<dropped, held, pins>> PROVE Goal
  BY <1>1 DEF Alive
<1>2. ASSUME NEW p \in Pools, CreatePool(p) \/ LendShmPool(p) PROVE Goal
  BY <1>1, <1>2 DEF CreatePool, LendShmPool, pinVars
<1>d. ASSUME NEW p \in Pools, DeregisterLenderPool(p), held' \subseteq held, lLife' = lLife
      PROVE  Goal
  <2>1. dropped \subseteq dropped'
    BY <1>d DEF DeregisterLenderPool
  <2>2. \A s \in Slots : pins'[s] > 0 => pins[s] > 0
    BY <1>d, <1>n DEF DeregisterLenderPool
  <2> QED
    BY <1>d, <2>1, <2>2 DEF Alive
<1>3. ASSUME NEW p \in Pools, RemovePool(p) PROVE Goal
  BY <1>3, <1>d DEF RemovePool
<1>4. ASSUME NEW s \in Slots, Construct(s) PROVE Goal
  <2>1. UNCHANGED <<dropped, pins>> /\ lLife' = lLife /\ held' = held \cup {s}
    BY <1>4 DEF Construct, lenderVars, pinVars
  <2>2. \A t \in Slots : (Alive(t)' => Alive(t)) \/ Construct(t)
    BY <1>4, <2>1 DEF Alive
  <2> QED
    BY <2>1, <2>2
<1>5. ASSUME NEW s \in Slots, Release(s) PROVE Goal
  BY <1>5 DEF Release, lenderVars, pinVars, Alive
<1>6. ASSUME NEW s \in Slots, LendObject(s) PROVE Goal
  <2>1. UNCHANGED <<dropped, held>> /\ lLife' = lLife
    BY <1>6 DEF LendObject, arenaVars
  <2>2. s \in held /\ \A t \in Slots : t # s => pins'[t] = pins[t]
    BY <1>6 DEF LendObject, RegisterLenderObject, TypeOK
  <2> QED
    BY <2>1, <2>2 DEF Alive
<1>7. ASSUME NEW s \in Slots, ReceiveObjectReturn(s) PROVE Goal
  <2>1. UNCHANGED <<dropped, held>> /\ lLife' = lLife
    BY <1>7 DEF ReceiveObjectReturn, arenaVars
  <2>2. \A t \in Slots : pins'[t] > 0 => pins[t] > 0
    BY <1>7, <1>n DEF ReceiveObjectReturn, DeregisterLenderObject, TypeOK
  <2> QED
    BY <2>1, <2>2 DEF Alive
<1>8. ASSUME NEW s \in Slots,
             BorrowObject(s) \/ BorrowObjectFails(s) \/ ReturnObject(s) \/ SendReturn(s)
      PROVE  Goal
  BY <1>1, <1>8 DEF BorrowObject, BorrowObjectFails, ReturnObject, SendReturn, arenaVars,
                    lenderVars, pinVars
<1>9. CASE LendArena \/ LendArenaAccepted \/ LendShmPoolAccepted
  BY <1>1, <1>9 DEF LendArena, LendArenaAccepted, LendShmPoolAccepted, arenaVars, pinVars
<1>10. CASE RequestRefused \/ RequestFailed \/ RequestTimedOut
  <2>1. UndoRequest /\ held' = held /\ lLife' = lLife
    BY <1>10 DEF RequestRefused, RequestFailed, RequestTimedOut
  <2> QED
    BY <1>1, <1>d, <2>1 DEF UndoRequest, pinVars
<1>11. CASE CloseLender
  <2>1. dropped' = dropped /\ lLife = "ending" /\ lLife' = "gone" /\ held' = held
    BY <1>11 DEF CloseLender, arenaVars
  <2>2. \A s \in Slots : ~(pins'[s] > 0)
    BY <1>11 DEF CloseLender
  <2> QED
    BY <2>1, <2>2 DEF Alive
<1>12. CASE DisconnectLender \/ DisconnectBorrower \/ CloseBorrower
  BY <1>1, <1>12 DEF DisconnectLender, DisconnectBorrower, CloseBorrower, arenaVars, lenderVars,
                     pinVars
<1>13. CASE ReceiveArena \/ ReceiveShmPool \/ ReceiveShmPoolRemoval \/ Hose \/ PeerGone
  BY <1>1, <1>13 DEF ReceiveArena, ReceiveShmPool, ReceiveShmPoolRemoval, Hose, PeerGone,
                     LoseInFlight, arenaVars, lenderVars, pinVars
<1>14. CASE UNCHANGED vars
  BY <1>1, <1>14 DEF vars, arenaVars, lenderVars, pinVars
<1>end. CASE EndStep
  <2>1. UNCHANGED <<dropped, held, pins>>
    BY <1>end DEF EndStep, StopLender, StopBorrower, BorrowerNotifies, BorrowerAnswered,
                  BorrowerTimedOut, UnblockBorrower, arenaVars, lenderVars, pinVars
  <2>2. lLife' = lLife \/ (lLife = "up" /\ lLife' = "ending")
    BY <1>end DEF EndStep, StopLender, StopBorrower, BorrowerNotifies, BorrowerAnswered,
                  BorrowerTimedOut, UnblockBorrower, lenderVars
  <2> QED
    BY <2>1, <2>2 DEF Alive
<1> HIDE DEF Protocol, Goal
<1> QED
  BY <1>end, <1>2, <1>3, <1>4, <1>5, <1>6, <1>7, <1>8, <1>9, <1>10, <1>11, <1>12, <1>13,
     <1>14 DEF Next, EndStep

(* Every step of the session is a step of ObjectLease. *)
LEMMA LeaseNext ==
  ASSUME Protocol, Pinned, TypeOK', Pinned', [Next]_vars
  PROVE  Lease!Next
<1>t. TypeOK
  BY DEF Protocol
<1>1. ASSUME NEW s \in Slots, Construct(s) PROVE Lease!Next
  <2>1. /\ ~Alive(s) /\ held' = held \cup {s}
        /\ UNCHANGED <<pins, dropped, lOpen, handles, borrowed, returning, returns>>
    BY <1>1 DEF Construct, lenderVars, pinVars, travelVars, borrowerVars
  <2>2. Outstanding(s) \in Nat /\ pins[s] \in Nat
    BY <1>t, ConstantsAssumption DEF TypeOK, Outstanding
  <2>3. Outstanding(s) = 0 \/ PoolOf[s] \in dropped \/ ~lOpen
    BY <2>1, <2>2 DEF Pinned, Alive
  <2>4. {t \in Slots : Alive(t)}' = {t \in Slots : Alive(t)} \cup {s}
    BY <2>1 DEF Alive
  <2>5. [t \in Slots |-> Outstanding(t)]' = [t \in Slots |-> Outstanding(t)]
    BY <2>1 DEF Outstanding
  <2>6. {t \in Slots : PoolOf[t] \in dropped \/ ~lOpen}' = {t \in Slots : PoolOf[t] \in dropped \/ ~lOpen}
    BY <2>1
  <2>7. Lease!Construct(s)
    BY <2>1, <2>3, <2>4, <2>5, <2>6 DEF Lease!Construct
  <2> QED
    BY <2>7 DEF Lease!Next
<1>2. ASSUME NEW s \in Slots, LendObject(s) PROVE Lease!Next
  <2>1. /\ s \in held /\ lOpen /\ PoolOf[s] \notin dropped
    BY <1>2, LeaseStep
  <2>2. /\ UNCHANGED <<held, dropped, borrowed, returning, returns>> /\ lOpen' = lOpen
        /\ handles' = [handles EXCEPT ![s] = @ + 1]
        /\ \A t \in Slots : t # s => pins'[t] = pins[t]
    BY <1>2, <1>t DEF LendObject, RegisterLenderObject, TypeOK, arenaVars, borrowerVars
  <2>3. {t \in Slots : Alive(t)}' = {t \in Slots : Alive(t)}
    BY <2>1, <2>2 DEF Alive
  <2>4. \A t \in Slots : Outstanding(t)' = IF t = s THEN Outstanding(t) + 1 ELSE Outstanding(t)
    BY <1>t, <2>2 DEF Outstanding, TypeOK
  <2>5. [t \in Slots |-> Outstanding(t)]' =
          [[t \in Slots |-> Outstanding(t)] EXCEPT ![s] = @ + 1]
    BY <2>4
  <2>6. {t \in Slots : PoolOf[t] \in dropped \/ ~lOpen}' = {t \in Slots : PoolOf[t] \in dropped \/ ~lOpen}
    BY <2>2
  <2>7. s \in {t \in Slots : Alive(t)} \ {t \in Slots : PoolOf[t] \in dropped \/ ~lOpen}
    BY <2>1 DEF Alive
  <2>8. Lease!Lend(s)
    BY <2>3, <2>5, <2>6, <2>7 DEF Lease!Lend
  <2> QED
    BY <2>8 DEF Lease!Next
<1>3. ASSUME \A s \in Slots : ~Construct(s) /\ ~LendObject(s) PROVE Lease!Next
  <2>1. \A s \in Slots : Outstanding(s)' <= Outstanding(s)
    BY <1>t, <1>3, RefsStep
  <2>2. /\ \A s \in Slots : Alive(s)' => Alive(s)
        /\ dropped \subseteq dropped' /\ (lOpen' => lOpen)
    BY <1>3, LeaseStep
  <2> QED
    BY <1>t, <2>1, <2>2, EndOfLease DEF Lease!Next
<1> QED
  BY <1>1, <1>2, <1>3

(* The protocol invariant holds in every state. *)
THEOREM ProtocolAlways == Spec => []Protocol
<1>1. Init => Protocol
  BY InitType DEF Init, Requests, Registered, Awaited, Ended, Protocol
<1>2. Protocol /\ [Next]_vars => Protocol'
  BY TypeStep, RequestsStep, RegisteredStep, AwaitedStep, EndedStep DEF Protocol
<1> QED
  BY <1>1, <1>2, PTL DEF Spec

(* Lending keeps the promise of ObjectLease.  *)
THEOREM LeaseIsKept == Spec => KeepsLease
<1>1. Init => Lease!Init
  <2> SUFFICES ASSUME Init PROVE Lease!Init
    OBVIOUS
  <2>1. \A s \in Slots : ~Alive(s) /\ Outstanding(s) = 0
    BY DEF Init, Alive, Outstanding
  <2>2. dropped = {} /\ lOpen
    BY DEF Init
  <2> QED
    BY <2>1, <2>2 DEF Lease!Init
<1>2. Protocol /\ Pinned /\ TypeOK' /\ Pinned' /\ [Next]_vars => [Lease!Next]_(Lease!vars)
  BY LeaseNext
<1>3. Spec => []TypeOK
  BY TypeCorrect
<1> QED
  BY <1>1, <1>2, <1>3, ProtocolAlways, PinnedAlways, PTL DEF Spec, KeepsLease, Lease!Spec

-----------------------------------------------------------------------------
(* The borrower's pools and the queue of messages. *)

(* What a step may do to the queue: it takes the first message (d = 1), or   *)
(* it adds one at the end; the others keep their contents.                   *)
LEMMA QueueStep ==
  ASSUME Protocol, [Next]_vars
  PROVE  \E d \in {0, 1} : \A i \in DOMAIN toBorrower' :
           /\ i \in Nat
           /\ \/ /\ i + d \in DOMAIN toBorrower
                 /\ toBorrower'[i].op = toBorrower[i + d].op
                 /\ toBorrower'[i].pool = toBorrower[i + d].pool
              \/ toBorrower'[i].op # "REMOVE_POOL"
              \/ /\ d = 0 /\ i = Len(toBorrower) + 1
                 /\ \E p \in lPools : /\ RemovePool(p) /\ WasEmpty(p)
                                      /\ toBorrower'[i].pool = p
<1> DEFINE Moved(d) ==
      \A i \in DOMAIN toBorrower' :
        /\ i \in Nat
        /\ \/ /\ i + d \in DOMAIN toBorrower
              /\ toBorrower'[i].op = toBorrower[i + d].op
              /\ toBorrower'[i].pool = toBorrower[i + d].pool
           \/ toBorrower'[i].op # "REMOVE_POOL"
           \/ /\ d = 0 /\ i = Len(toBorrower) + 1
              /\ \E p \in lPools : /\ RemovePool(p) /\ WasEmpty(p)
                                   /\ toBorrower'[i].pool = p
<1>q. toBorrower \in Seq(Msg) /\ \A i \in DOMAIN toBorrower : i \in Nat
  BY DEF Protocol, TypeOK
<1>n. \A i \in DOMAIN toBorrower' : i \in Nat
  <2>1. toBorrower' \in Seq(Msg)
    BY TypeStep DEF Protocol, TypeOK
  <2> QED
    BY <2>1
<1> SUFFICES Moved(0) \/ Moved(1)
  OBVIOUS
<1>1. ASSUME \/ toBorrower' = toBorrower \/ toBorrower' = <<>>
             \/ \E k \in 0 .. Len(toBorrower) : toBorrower' = SubSeq(toBorrower, 1, k)
             \/ toBorrower' = [i \in DOMAIN toBorrower |->
                                [toBorrower[i] EXCEPT !.awaited = FALSE]]
      PROVE  Moved(0)
  <2>1. \A i \in DOMAIN toBorrower' :
          /\ i \in DOMAIN toBorrower /\ toBorrower'[i].op = toBorrower[i].op
          /\ toBorrower'[i].pool = toBorrower[i].pool
    BY <1>1, <1>q, QueueShrinks, Zenon
  <2>2. \A i \in DOMAIN toBorrower' : i + 0 = i
    BY <1>n
  <2> QED
    BY <1>n, <2>1, <2>2
<1>2. ASSUME NEW m, Send(m), m.op # "REMOVE_POOL" PROVE Moved(0)
  <2> SUFFICES ASSUME NEW i \in DOMAIN toBorrower'
               PROVE  \/ /\ i + 0 \in DOMAIN toBorrower
                         /\ toBorrower'[i].op = toBorrower[i + 0].op
                         /\ toBorrower'[i].pool = toBorrower[i + 0].pool
                      \/ toBorrower'[i].op # "REMOVE_POOL"
    BY <1>n
  <2>1. i + 0 = i
    BY <1>n
  <2> QED
    BY <1>2, <1>q, <2>1, SentLast
<1>3. ASSUME NEW p \in Pools, CreatePool(p) PROVE Moved(0)
  BY <1>1, <1>3 DEF CreatePool, travelVars
<1>4. ASSUME NEW p \in Pools, LendShmPool(p) PROVE Moved(0)
  <2>1. Message("LEND_POOL", p).op # "REMOVE_POOL"
    BY DEF Message
  <2>2. toBorrower' = toBorrower \/ Send(Message("LEND_POOL", p))
    BY <1>4 DEF LendShmPool
  <2> HIDE DEF Moved
  <2> QED
    BY <1>1, <1>2, <2>1, <2>2
<1>5. ASSUME NEW p \in Pools, RemovePool(p) PROVE Moved(0)
  <2>1. CASE p \in lPools /\ lConnected /\ WasEmpty(p)
    <3>1. Send(Message("REMOVE_POOL", p))
      BY <1>5, <2>1 DEF RemovePool
    <3> SUFFICES ASSUME NEW i \in DOMAIN toBorrower'
                 PROVE  \/ /\ i + 0 \in DOMAIN toBorrower
                           /\ toBorrower'[i].op = toBorrower[i + 0].op
                           /\ toBorrower'[i].pool = toBorrower[i + 0].pool
                        \/ i = Len(toBorrower) + 1 /\ toBorrower'[i].pool = p
      BY <1>n, <1>5, <2>1
    <3>2. i + 0 = i
      BY <1>n
    <3>3. Message("REMOVE_POOL", p).pool = p
      BY DEF Message
    <3> QED
      BY <1>q, <3>1, <3>2, <3>3, SentLast
  <2>2. CASE ~(p \in lPools /\ lConnected /\ WasEmpty(p))
    <3>1. toBorrower' = toBorrower
      BY <1>5, <2>2 DEF RemovePool
    <3> HIDE DEF Moved
    <3> QED
      BY <1>1, <3>1
  <2> HIDE DEF Moved
  <2> QED
    BY <2>1, <2>2
<1>6. ASSUME NEW s \in Slots,
             \/ Construct(s) \/ Release(s) \/ LendObject(s) \/ ReceiveObjectReturn(s)
             \/ BorrowObject(s) \/ BorrowObjectFails(s) \/ ReturnObject(s) \/ SendReturn(s)
      PROVE  Moved(0)
  BY <1>1, <1>6 DEF Construct, Release, LendObject, ReceiveObjectReturn, BorrowObject,
                    BorrowObjectFails, ReturnObject, SendReturn, travelVars
<1> HIDE DEF Moved
<1>7. CASE LendArena
  <2>1. Send(Message("LEND_ARENA", NoPool)) /\ Message("LEND_ARENA", NoPool).op # "REMOVE_POOL"
    BY <1>7 DEF LendArena, Message
  <2> QED
    BY <1>2, <2>1
<1>8. CASE LendArenaAccepted \/ LendShmPoolAccepted \/ RequestRefused \/ RequestFailed
  BY <1>1, <1>8 DEF LendArenaAccepted, LendShmPoolAccepted, RequestRefused, RequestFailed, travelVars
<1>9. CASE RequestTimedOut
  BY <1>1, <1>9 DEF RequestTimedOut
<1>10. CASE DisconnectLender \/ CloseLender \/ DisconnectBorrower \/ CloseBorrower
  BY <1>1, <1>10 DEF DisconnectLender, CloseLender, DisconnectBorrower, CloseBorrower, travelVars
<1>11. CASE ReceiveArena \/ ReceiveShmPool \/ ReceiveShmPoolRemoval
  <2>1. toBorrower # <<>> /\ toBorrower' = Tail(toBorrower)
    BY <1>11 DEF ReceiveArena, ReceiveShmPool, ReceiveShmPoolRemoval, NextMessage
  <2>2. \A i \in DOMAIN toBorrower' :
          i + 1 \in DOMAIN toBorrower /\ toBorrower'[i] = toBorrower[i + 1]
    BY <1>q, <2>1, TakenFirst
  <2> QED
    BY <1>n, <2>2 DEF Moved
<1>12. CASE Hose \/ PeerGone
  BY <1>1, <1>12 DEF Hose, PeerGone, LoseInFlight
<1>13. CASE UNCHANGED vars
  BY <1>1, <1>13 DEF vars, travelVars
<1>end. CASE EndStep
  BY <1>1, <1>end DEF EndStep, StopLender, StopBorrower, BorrowerNotifies, BorrowerAnswered, BorrowerTimedOut,
                    UnblockBorrower, arenaVars, lenderVars, requestVars, pinVars, travelVars, borrowerVars
<1> QED
  BY <1>end, <1>3, <1>4, <1>5, <1>6, <1>7, <1>8, <1>9, <1>10, <1>11, <1>12, <1>13 DEF Next, EndStep

(* The borrower closes a pool only on REMOVE_POOL, and never one of which it *)
(* has an object, unless its session ends.                                   *)
LEMMA BorrowerPoolsStep ==
  ASSUME Protocol, [Next]_vars, NEW p \in bPools, p \notin bPools'
  PROVE  \/ /\ ReceiveShmPoolRemoval
            /\ Head(toBorrower).op = "REMOVE_POOL" /\ Head(toBorrower).pool = p
            /\ toBorrower # <<>> /\ toBorrower' = Tail(toBorrower)
            /\ \A s \in SlotsOf(p) : borrowed[s] = 0
         \/ ~bOpen' /\ \A s \in Slots : borrowed[s] = 0
<1>1. ASSUME NEW q \in Pools PROVE ~CreatePool(q) /\ ~LendShmPool(q) /\ ~RemovePool(q)
  BY DEF CreatePool, LendShmPool, RemovePool, borrowerVars
<1>2. ASSUME NEW s \in Slots
      PROVE  /\ ~Construct(s) /\ ~Release(s) /\ ~LendObject(s) /\ ~ReceiveObjectReturn(s)
             /\ ~BorrowObject(s) /\ ~BorrowObjectFails(s) /\ ~ReturnObject(s) /\ ~SendReturn(s)
  BY DEF Construct, Release, LendObject, ReceiveObjectReturn, BorrowObject, BorrowObjectFails,
         ReturnObject, SendReturn, borrowerVars
<1>3. /\ ~LendArena /\ ~LendArenaAccepted /\ ~LendShmPoolAccepted /\ ~RequestRefused
      /\ ~RequestFailed /\ ~RequestTimedOut
  BY DEF LendArena, LendArenaAccepted, LendShmPoolAccepted, RequestRefused, RequestFailed,
         RequestTimedOut, borrowerVars
<1>4. ~DisconnectLender /\ ~CloseLender /\ ~DisconnectBorrower /\ ~Hose /\ ~PeerGone
  BY DEF DisconnectLender, CloseLender, DisconnectBorrower, Hose, PeerGone, LoseInFlight, borrowerVars
<1>5. ~ReceiveArena /\ ~ReceiveShmPool
  BY DEF ReceiveArena, ReceiveShmPool, RegisterBorrowerPool
<1>end. ~EndStep
  BY DEF EndStep, StopLender, StopBorrower, BorrowerNotifies, BorrowerAnswered, BorrowerTimedOut,
                    UnblockBorrower, arenaVars, lenderVars, requestVars, pinVars, travelVars, borrowerVars
<1>6. ~UNCHANGED vars
  BY DEF vars, borrowerVars
<1>7. ReceiveShmPoolRemoval \/ CloseBorrower
  BY <1>end, <1>1, <1>2, <1>3, <1>4, <1>5, <1>6 DEF Next, EndStep
<1>8. CASE ReceiveShmPoolRemoval
  BY <1>8 DEF ReceiveShmPoolRemoval, DeregisterBorrowerPool, NextMessage
<1>9. CASE CloseBorrower
  BY <1>9 DEF CloseBorrower, Protocol, Ended
<1> QED
  BY <1>7, <1>8, <1>9

(* What else a step may do to the borrower's side. *)
LEMMA BorrowerStep ==
  ASSUME TypeOK, [Next]_vars
  PROVE  /\ bOpen' => bOpen
         /\ \A s \in early : s \in early' \/ (ReceiveObjectReturn(s) /\ pins[s] = 1)
         /\ \A s \in Slots : borrowed'[s] > 0 => \/ borrowed[s] > 0
                                                 \/ PoolOf[s] \in bPools /\ bPools' = bPools
         /\ \A s \in Slots : handles'[s] > 0 => handles[s] > 0 \/ LendObject(s)
<1> DEFINE Goal == /\ (bOpen' => bOpen)
                   /\ \A s \in early : s \in early' \/ (ReceiveObjectReturn(s) /\ pins[s] = 1)
                   /\ \A s \in Slots : borrowed'[s] > 0 => \/ borrowed[s] > 0
                                                           \/ PoolOf[s] \in bPools /\ bPools' = bPools
                   /\ \A s \in Slots : handles'[s] > 0 => handles[s] > 0 \/ LendObject(s)
<1> SUFFICES Goal
  OBVIOUS
<1>n. \A s \in Slots : borrowed[s] \in Nat /\ handles[s] \in Nat
  BY DEF TypeOK
<1>1. ASSUME bOpen' => bOpen, UNCHANGED <<early, borrowed, handles>> PROVE Goal
  BY <1>1
<1>2. ASSUME NEW p \in Pools, CreatePool(p) \/ LendShmPool(p) \/ RemovePool(p) PROVE Goal
  BY <1>1, <1>2 DEF CreatePool, LendShmPool, RemovePool, DeregisterLenderPool, pinVars, travelVars,
                    borrowerVars
<1>3. ASSUME NEW s \in Slots, Construct(s) \/ Release(s) PROVE Goal
  BY <1>1, <1>3 DEF Construct, Release, lenderVars, pinVars, travelVars, borrowerVars
<1>13. ASSUME NEW s \in Slots, ReceiveObjectReturn(s) PROVE Goal
  <2>1. bOpen' = bOpen /\ UNCHANGED <<borrowed, handles>>
    BY <1>13 DEF ReceiveObjectReturn, borrowerVars
  <2>2. early' = IF pins[s] = 1 THEN early \ {s} ELSE early
    BY <1>13 DEF ReceiveObjectReturn
  <2> QED
    BY <1>13, <2>1, <2>2
<1>4. ASSUME NEW s \in Slots, LendObject(s) PROVE Goal
  <2>1. /\ bOpen' = bOpen /\ early \subseteq early' /\ borrowed' = borrowed
        /\ \A t \in Slots : t # s => handles'[t] = handles[t]
    BY <1>4 DEF LendObject, TypeOK, borrowerVars
  <2> QED
    BY <1>4, <2>1
<1>5. ASSUME NEW s \in Slots, BorrowObject(s) PROVE Goal
  <2>1. /\ bOpen' = bOpen /\ early' = early /\ PoolOf[s] \in bPools /\ bPools' = bPools
        /\ \A t \in Slots : t # s => borrowed'[t] = borrowed[t]
    BY <1>5 DEF BorrowObject, RegisterBorrowerObject, TypeOK, lenderVars, pinVars
  <2>2. \A t \in Slots : handles'[t] > 0 => handles[t] > 0
    BY <1>5, <1>n DEF BorrowObject, TypeOK
  <2> QED
    BY <2>1, <2>2
<1>6. ASSUME NEW s \in Slots, BorrowObjectFails(s) PROVE Goal
  <2>1. bOpen' = bOpen /\ early' = early /\ borrowed' = borrowed
    BY <1>6 DEF BorrowObjectFails, lenderVars, pinVars, borrowerVars
  <2>2. \A t \in Slots : handles'[t] > 0 => handles[t] > 0
    BY <1>6, <1>n DEF BorrowObjectFails, TypeOK
  <2> QED
    BY <2>1, <2>2
<1>7. ASSUME NEW s \in Slots, ReturnObject(s) \/ SendReturn(s) PROVE Goal
  <2>1. bOpen' = bOpen /\ early' = early /\ handles' = handles
    BY <1>7 DEF ReturnObject, SendReturn, lenderVars, pinVars, travelVars
  <2>2. \A t \in Slots : borrowed'[t] > 0 => borrowed[t] > 0
    BY <1>7, <1>n DEF ReturnObject, SendReturn, DeregisterBorrowerObject, TypeOK
  <2> QED
    BY <2>1, <2>2
<1>8. CASE LendArena \/ LendArenaAccepted \/ LendShmPoolAccepted
  BY <1>1, <1>8 DEF LendArena, LendArenaAccepted, LendShmPoolAccepted, pinVars, travelVars, borrowerVars
<1>9. CASE RequestRefused \/ RequestFailed \/ RequestTimedOut
  BY <1>1, <1>9 DEF RequestRefused, RequestFailed, RequestTimedOut, UndoRequest,
                    DeregisterLenderPool, pinVars, travelVars, borrowerVars
<1>10. CASE DisconnectLender \/ CloseLender \/ DisconnectBorrower \/ CloseBorrower
  BY <1>1, <1>10 DEF DisconnectLender, CloseLender, DisconnectBorrower, CloseBorrower,
                     lenderVars, pinVars, travelVars, borrowerVars
<1>11. CASE ReceiveArena \/ ReceiveShmPool \/ ReceiveShmPoolRemoval \/ Hose \/ PeerGone
  BY <1>1, <1>11 DEF ReceiveArena, ReceiveShmPool, ReceiveShmPoolRemoval, Hose, PeerGone,
                     LoseInFlight, lenderVars, pinVars, borrowerVars
<1>12. CASE UNCHANGED vars
  BY <1>1, <1>12 DEF vars, lenderVars, pinVars, travelVars, borrowerVars
<1>end. CASE EndStep
  BY <1>1, <1>end DEF EndStep, StopLender, StopBorrower, BorrowerNotifies, BorrowerAnswered, BorrowerTimedOut,
                    UnblockBorrower, arenaVars, lenderVars, requestVars, pinVars, travelVars, borrowerVars
<1> HIDE DEF Goal
<1> QED
  BY <1>end, <1>2, <1>3, <1>4, <1>5, <1>6, <1>7, <1>8, <1>9, <1>10, <1>11, <1>12,
     <1>13 DEF Next, EndStep

(* A borrowed object's pool stays open in the borrower, so what the borrower *)
(* holds is mapped: REMOVE_POOL is refused while an object is borrowed, and  *)
(* ~Shm_session() does not run then.                                         *)
THEOREM BorrowedAlwaysOpen == Spec => []BorrowedIsOpen
<1>1. Init => BorrowedIsOpen
  BY DEF Init, BorrowedIsOpen
<1>2. Protocol /\ BorrowedIsOpen /\ [Next]_vars => BorrowedIsOpen'
  <2> SUFFICES ASSUME Protocol, BorrowedIsOpen, [Next]_vars, NEW s \in Slots, borrowed'[s] > 0
               PROVE  PoolOf[s] \in bPools'
    BY DEF BorrowedIsOpen
  <2>1. CASE PoolOf[s] \in bPools /\ bPools' = bPools
    BY <2>1
  <2>2. CASE borrowed[s] > 0
    <3>1. PoolOf[s] \in bPools /\ borrowed[s] # 0 /\ s \in SlotsOf(PoolOf[s])
      BY <2>2 DEF BorrowedIsOpen, SlotsOf
    <3> QED
      BY <3>1, BorrowerPoolsStep
  <2> QED
    BY <2>1, <2>2, BorrowerStep DEF Protocol
<1> QED
  BY <1>1, <1>2, ProtocolAlways, PTL DEF Spec

(* What the lender and the borrower agree on about pools. *)
Agreement == Opened /\ RemovedOnce /\ RemovalIsAccepted

(* A REMOVE_POOL that the borrower takes is for a pool that is gone and to   *)
(* which nothing refers.                                                     *)
LEMMA RemovalTaken ==
  ASSUME Protocol, Agreement, bOpen, toBorrower # <<>>, toBorrower' = Tail(toBorrower),
         Head(toBorrower).op = "REMOVE_POOL", NEW p, Head(toBorrower).pool = p
  PROVE  /\ p \in Pools /\ poolState[p] = "removed" /\ p \notin lPools
         /\ \A s \in SlotsOf(p) : Outstanding(s) = 0
         /\ \A i \in DOMAIN toBorrower : i # 1 /\ toBorrower[i].op = "REMOVE_POOL"
                                          => toBorrower[i].pool # p
<1>1. /\ 1 \in DOMAIN toBorrower /\ toBorrower[1] = Head(toBorrower)
      /\ toBorrower[1] \in Msg
  BY TakenFirst DEF Protocol, TypeOK
<1>2. p \in Pools
  BY <1>1 DEF Msg
<1>3. poolState[p] = "removed" /\ \A s \in SlotsOf(p) : Outstanding(s) = 0
  BY <1>1 DEF Agreement, RemovedOnce, RemovalIsAccepted
<1>4. p \notin lPools
  BY <1>3 DEF Protocol, Registered
<1>5. \A i \in DOMAIN toBorrower : i # 1 /\ toBorrower[i].op = "REMOVE_POOL"
                                 => toBorrower[i].pool # p
  BY <1>1 DEF Agreement, RemovedOnce
<1> QED
  BY <1>2, <1>3, <1>4, <1>5

(* The inductive step of RemovedOnce. *)
LEMMA RemovedOnceStep ==
  ASSUME Protocol, RemovedOnce, [Next]_vars PROVE RemovedOnce'
<1>1. PICK d \in {0, 1} : \A i \in DOMAIN toBorrower' :
           /\ i \in Nat
           /\ \/ /\ i + d \in DOMAIN toBorrower
                 /\ toBorrower'[i].op = toBorrower[i + d].op
                 /\ toBorrower'[i].pool = toBorrower[i + d].pool
              \/ toBorrower'[i].op # "REMOVE_POOL"
              \/ /\ d = 0 /\ i = Len(toBorrower) + 1
                 /\ \E p \in lPools : /\ RemovePool(p) /\ WasEmpty(p)
                                      /\ toBorrower'[i].pool = p
  BY QueueStep
<1>2. \A i \in DOMAIN toBorrower : toBorrower[i] \in Msg
  BY DEF Protocol, TypeOK
<1>3. \A i \in DOMAIN toBorrower : toBorrower[i].op = "REMOVE_POOL" => toBorrower[i].pool \in Pools
  BY <1>2 DEF Msg
<1>4. ASSUME NEW p \in lPools, RemovePool(p) PROVE poolState'[p] = "removed" /\ poolState[p] = "live"
  BY <1>4 DEF RemovePool, Protocol, TypeOK
<1> SUFFICES ASSUME NEW i \in DOMAIN toBorrower', toBorrower'[i].op = "REMOVE_POOL",
                    NEW j \in DOMAIN toBorrower'
             PROVE  /\ poolState'[toBorrower'[i].pool] = "removed"
                    /\ toBorrower'[j].op = "REMOVE_POOL" /\ toBorrower'[j].pool = toBorrower'[i].pool
                         => j = i
  BY DEF RemovedOnce
<1> DEFINE Old(k) == /\ k + d \in DOMAIN toBorrower
                     /\ toBorrower'[k].op = toBorrower[k + d].op
                     /\ toBorrower'[k].pool = toBorrower[k + d].pool
           New(k) == /\ k = Len(toBorrower) + 1
                     /\ \E p \in lPools : RemovePool(p) /\ toBorrower'[k].pool = p
<1>5. (Old(i) \/ New(i)) /\ (toBorrower'[j].op = "REMOVE_POOL" => Old(j) \/ New(j))
  BY <1>1
<1>6. ASSUME Old(i) PROVE poolState[toBorrower'[i].pool] = "removed" /\ toBorrower'[i].pool \in Pools
  BY <1>3, <1>6 DEF RemovedOnce
<1>7. ASSUME Old(j), toBorrower'[j].op = "REMOVE_POOL" PROVE poolState[toBorrower'[j].pool] = "removed"
  BY <1>7 DEF RemovedOnce
<1>8. ASSUME New(i) PROVE poolState[toBorrower'[i].pool] = "live" /\ poolState'[toBorrower'[i].pool] = "removed"
  BY <1>4, <1>8
<1>9. ASSUME New(j) PROVE poolState[toBorrower'[j].pool] = "live"
  BY <1>4, <1>9
<1>10. poolState'[toBorrower'[i].pool] = "removed"
  <2> HIDE DEF Old, New
  <2> QED
    BY <1>5, <1>6, <1>8, RemovedStays
<1>11. ASSUME toBorrower'[j].op = "REMOVE_POOL", toBorrower'[j].pool = toBorrower'[i].pool PROVE j = i
  <2>1. CASE Old(i) /\ Old(j)
    <3>1. i + d = j + d
      BY <1>11, <2>1 DEF RemovedOnce
    <3> QED
      BY <1>1, <3>1
  <2>2. CASE New(i) /\ New(j)
    BY <2>2
  <2> HIDE DEF Old, New
  <2> QED
    BY <1>5, <1>6, <1>7, <1>8, <1>9, <1>11, <2>1, <2>2
<1> QED
  BY <1>10, <1>11

(* The inductive step of RemovalIsAccepted. *)
LEMMA RemovalIsAcceptedStep ==
  ASSUME Protocol, Pinned, Agreement, [Next]_vars PROVE RemovalIsAccepted'
<1>t. TypeOK
  BY DEF Protocol
<1> SUFFICES ASSUME NEW i \in DOMAIN toBorrower', toBorrower'[i].op = "REMOVE_POOL", bOpen'
             PROVE  /\ toBorrower'[i].pool \in bPools'
                    /\ \A s \in SlotsOf(toBorrower'[i].pool) : Outstanding(s)' = 0
  BY DEF RemovalIsAccepted, SlotsOf
<1>0. bOpen
  BY <1>t, BorrowerStep
<1>1. PICK d \in {0, 1} :
           /\ i \in Nat
           /\ \/ /\ i + d \in DOMAIN toBorrower
                 /\ toBorrower'[i].op = toBorrower[i + d].op
                 /\ toBorrower'[i].pool = toBorrower[i + d].pool
              \/ /\ d = 0 /\ i = Len(toBorrower) + 1
                 /\ \E p \in lPools : /\ RemovePool(p) /\ WasEmpty(p)
                                      /\ toBorrower'[i].pool = p
  BY QueueStep
<1>2. CASE \E p \in lPools : RemovePool(p) /\ WasEmpty(p) /\ toBorrower'[i].pool = p
  <2>1. PICK p \in lPools : RemovePool(p) /\ WasEmpty(p) /\ toBorrower'[i].pool = p
    BY <1>2
  <2>2. p \in Pools /\ p \notin dropped /\ p # NoPool /\ lOpen
    BY <1>t, ConstantsAssumption DEF Protocol, Registered, Requests, TypeOK
  <2>3. req = NoPool
    BY <2>1 DEF RemovePool, NotifierIdle
  <2>4. p \in bPools
    BY <1>0, <2>2, <2>3 DEF Agreement, Opened
  <2>5. bPools' = bPools /\ UNCHANGED <<handles, borrowed, returning, returns>>
    BY <2>1 DEF RemovePool, borrowerVars
  <2>6. ASSUME NEW s \in SlotsOf(p) PROVE Outstanding(s) = 0
    <3>1. s \in Slots /\ PoolOf[s] = p /\ pins[s] = 0
      BY <2>1, <2>6 DEF WasEmpty, SlotsOf
    <3>2. Outstanding(s) \in Nat
      BY <1>t, <3>1, RefsStep
    <3> QED
      BY <2>2, <3>1, <3>2 DEF Pinned
  <2> QED
    BY <2>1, <2>4, <2>5, <2>6 DEF Outstanding
<1>3. CASE /\ i + d \in DOMAIN toBorrower
           /\ toBorrower'[i].op = toBorrower[i + d].op
           /\ toBorrower'[i].pool = toBorrower[i + d].pool
  <2> DEFINE p == toBorrower[i + d].pool
  <2>1. toBorrower[i + d] \in Msg /\ toBorrower[i + d].op = "REMOVE_POOL"
    BY <1>t, <1>3 DEF TypeOK
  <2>2. p \in Pools
    BY <2>1 DEF Msg
  <2>3. /\ p \in bPools /\ poolState[p] = "removed" /\ p \notin lPools
        /\ \A s \in SlotsOf(p) : Outstanding(s) = 0
    BY <1>0, <1>3, <2>1 DEF Agreement, RemovalIsAccepted, RemovedOnce, Protocol, Registered
  <2>4. ASSUME NEW s \in SlotsOf(p) PROVE Outstanding(s)' = 0
    <3>1. s \in Slots /\ PoolOf[s] = p
      BY <2>4 DEF SlotsOf
    <3>2. ~LendObject(s)
      BY <2>3, <3>1 DEF LendObject
    <3> QED
      BY <1>t, <2>3, <3>1, <3>2, RefsStep
  <2>5. p \in bPools'
    <3> SUFFICES ASSUME p \notin bPools' PROVE FALSE
      OBVIOUS
    <3>1. /\ Head(toBorrower).op = "REMOVE_POOL" /\ Head(toBorrower).pool = p
          /\ toBorrower # <<>> /\ toBorrower' = Tail(toBorrower)
      BY <1>t, <2>3, BorrowerPoolsStep
    <3>2. \A k \in DOMAIN toBorrower : k # 1 /\ toBorrower[k].op = "REMOVE_POOL"
                                        => toBorrower[k].pool # p
      BY <1>0, <3>1, RemovalTaken
    <3>3. i \in Nat \ {0} /\ i + 1 \in DOMAIN toBorrower /\ toBorrower'[i] = toBorrower[i + 1]
      BY <1>t, <3>1, TakenFirst DEF TypeOK
    <3> QED
      BY <1>3, <3>2, <3>3
  <2> HIDE DEF p
  <2>6. \A s \in SlotsOf(p) : Outstanding(s)' = 0
    BY <2>4
  <2> QED
    BY <1>3, <2>5, <2>6 DEF p
<1> QED
  BY <1>1, <1>2, <1>3

(* The inductive step of Opened. *)
LEMMA OpenedStep ==
  ASSUME Protocol, Agreement, [Next]_vars PROVE Opened'
<1>t. TypeOK
  BY DEF Protocol
<1> SUFFICES ASSUME bOpen'
             PROVE  /\ \A p \in lPools' : p # req' => p \in bPools'
                    /\ reply' = "ok" /\ req' # NoPool => req' \in bPools'
  BY DEF Opened
<1> USE DEF Protocol
<1>0. bOpen
  BY <1>t, BorrowerStep
<1>o. /\ \A p \in lPools : p # req => p \in bPools
      /\ reply = "ok" /\ req # NoPool => req \in bPools
  BY <1>0 DEF Agreement, Opened
<1>k. \A p \in lPools : p \in bPools => p \in bPools'
  <2> SUFFICES ASSUME NEW p \in lPools, p \in bPools, p \notin bPools' PROVE FALSE
    OBVIOUS
  <2>1. /\ Head(toBorrower).op = "REMOVE_POOL" /\ Head(toBorrower).pool = p
        /\ toBorrower # <<>> /\ toBorrower' = Tail(toBorrower)
    BY <1>t, BorrowerPoolsStep
  <2> QED
    BY <1>0, <2>1, RemovalTaken
<1> DEFINE Goal == /\ \A p \in lPools' : p # req' => p \in bPools'
                   /\ reply' = "ok" /\ req' # NoPool => req' \in bPools'
<1> SUFFICES Goal
  OBVIOUS
<1>r. req # NoPool => req \in lPools
  BY DEF Requests
<1>1. ASSUME lPools' \subseteq lPools, req' = req, reply' \in {reply, "none"} PROVE Goal
  BY <1>1, <1>o, <1>k, <1>r
<1>2. ASSUME NEW p \in Pools, CreatePool(p) PROVE Goal
  BY <1>1, <1>2 DEF CreatePool, pinVars
<1>3. ASSUME NEW p \in Pools, LendShmPool(p) PROVE Goal
  <2>1. CASE lPools' = lPools \cup {p} /\ req' = p
    <3>1. reply' = "none"
      BY <1>3 DEF LendShmPool, Requests
    <3>2. req = NoPool
      BY <1>3 DEF LendShmPool
    <3>3. \A q \in lPools : q # NoPool
      BY <1>t, ConstantsAssumption DEF TypeOK
    <3> QED
      BY <1>o, <1>k, <2>1, <3>1, <3>2, <3>3
  <2>2. CASE lPools' = lPools /\ req' = req /\ reply' = reply
    BY <1>1, <2>2
  <2>3. reply' = reply
    BY <1>3 DEF LendShmPool
  <2>4. (lPools' = lPools \cup {p} /\ req' = p) \/ (lPools' = lPools /\ req' = req)
    BY <1>3 DEF LendShmPool, RegisterLenderPool
  <2> QED
    BY <2>1, <2>2, <2>3, <2>4
<1>4. ASSUME NEW p \in Pools, RemovePool(p) PROVE Goal
  BY <1>1, <1>4 DEF RemovePool, DeregisterLenderPool, requestVars
<1>5. ASSUME NEW s \in Slots,
             \/ Construct(s) \/ Release(s) \/ LendObject(s) \/ ReceiveObjectReturn(s)
             \/ BorrowObject(s) \/ BorrowObjectFails(s) \/ ReturnObject(s) \/ SendReturn(s)
      PROVE  Goal
  BY <1>1, <1>5 DEF Construct, Release, LendObject, ReceiveObjectReturn, BorrowObject,
                    BorrowObjectFails, ReturnObject, SendReturn, lenderVars, requestVars, pinVars
<1>6. CASE LendArena
  BY <1>1, <1>6 DEF LendArena, pinVars
<1>7. CASE LendArenaAccepted
  BY <1>1, <1>7 DEF LendArenaAccepted, pinVars
<1>8. CASE LendShmPoolAccepted
  <2>1. req \in lPools /\ reply = "ok" /\ req # NoPool /\ req' = NoPool /\ lPools' = lPools
    BY <1>8, ConstantsAssumption DEF LendShmPoolAccepted, Requests, pinVars
  <2> QED
    BY <1>o, <1>k, <2>1
<1>9. CASE RequestRefused \/ RequestFailed \/ RequestTimedOut
  <2>1. UndoRequest /\ reply' = "none"
    BY <1>9 DEF RequestRefused, RequestFailed, RequestTimedOut
  <2>2. CASE UNCHANGED <<poolState, req, pinVars>>
    BY <1>1, <2>1, <2>2 DEF pinVars
  <2>3. CASE lPools' = lPools \ {req} /\ req' = NoPool
    BY <1>o, <1>k, <2>1, <2>3
  <2> QED
    BY <2>1, <2>2, <2>3 DEF UndoRequest, DeregisterLenderPool
<1>10. CASE CloseLender
  BY <1>1, <1>10 DEF CloseLender
<1>11. CASE DisconnectLender \/ DisconnectBorrower \/ CloseBorrower \/ ReceiveShmPoolRemoval
  BY <1>1, <1>11 DEF DisconnectLender, DisconnectBorrower, CloseBorrower, ReceiveShmPoolRemoval,
                     lenderVars, requestVars, pinVars
<1>12. CASE ReceiveArena \/ ReceiveShmPool
  <2>1. UNCHANGED <<lPools, req, listener>> /\ toBorrower # <<>> /\ toBorrower' = Tail(toBorrower)
    BY <1>12 DEF ReceiveArena, ReceiveShmPool, NextMessage, pinVars
  <2>2. CASE reply' = reply
    BY <1>1, <2>1, <2>2
  <2>3. CASE reply' # reply
    <3>1. Head(toBorrower).awaited /\ ~hosed
      BY <1>12, <2>3 DEF ReceiveArena, ReceiveShmPool, Respond
    <3>2. 1 \in DOMAIN toBorrower /\ Head(toBorrower) = toBorrower[1] /\ toBorrower[1] \in Msg
      BY <1>t, <2>1, TakenFirst DEF TypeOK
    <3>3. CASE ReceiveArena
      <4>1. listener = "requested"
        BY <3>1, <3>2, <3>3 DEF Awaited, ReceiveArena, NextMessage
      <4>2. req = NoPool /\ lPools = {}
        BY <4>1 DEF Requests
      <4> QED
        BY <2>1, <4>2
    <3>4. CASE ReceiveShmPool
      <4>1. Head(toBorrower).pool = req
        BY <3>1, <3>2, <3>4 DEF Awaited, ReceiveShmPool, NextMessage
      <4>2. reply' = "ok" => req \in bPools'
        BY <3>1, <3>4, <4>1 DEF ReceiveShmPool, Respond, RegisterBorrowerPool
      <4> QED
        BY <1>o, <1>k, <2>1, <4>2
    <3> QED
      BY <1>12, <3>3, <3>4
  <2> QED
    BY <2>2, <2>3
<1>13. CASE Hose \/ PeerGone
  BY <1>1, <1>13 DEF Hose, PeerGone, LoseInFlight, pinVars
<1>14. CASE UNCHANGED vars
  BY <1>1, <1>14 DEF vars, lenderVars, requestVars, pinVars
<1>end. CASE EndStep
  BY <1>1, <1>end DEF EndStep, StopLender, StopBorrower, BorrowerNotifies, BorrowerAnswered, BorrowerTimedOut,
                    UnblockBorrower, arenaVars, lenderVars, requestVars, pinVars, travelVars, borrowerVars
<1> HIDE DEF Protocol, Goal
<1> QED
  BY <1>end, <1>2, <1>3, <1>4, <1>5, <1>6, <1>7, <1>8, <1>9, <1>10, <1>11, <1>12, <1>13,
     <1>14 DEF Next, EndStep

(* The lender and the borrower agree about pools in every state. *)
LEMMA AgreementAlways == Spec => []Agreement
<1>1. Init => Agreement
  BY DEF Init, Agreement, Opened, RemovedOnce, RemovalIsAccepted
<1>2. Protocol /\ Pinned /\ Agreement /\ [Next]_vars => Agreement'
  BY OpenedStep, RemovedOnceStep, RemovalIsAcceptedStep DEF Agreement
<1> QED
  BY <1>1, <1>2, ProtocolAlways, PinnedAlways, PTL DEF Spec

(* A REMOVE_POOL on its way finds the pool open in the borrower and nothing  *)
(* of it in use: receive_shm_pool_removal() never has to refuse it.          *)
THEOREM RemovalAlwaysAccepted == Spec => []RemovalIsAccepted
<1>1. Agreement => RemovalIsAccepted
  BY DEF Agreement
<1> QED
  BY <1>1, AgreementAlways, PTL

(* The return that ends an object's entry is the last reference to it.       *)
LEMMA LastReturn ==
  ASSUME Protocol, Pinned, NEW s \in Slots, ReceiveObjectReturn(s), pins[s] = 1
  PROVE  /\ handles[s] = 0 /\ borrowed[s] = 0 /\ returning[s] = 0 /\ returns[s] = 1
         /\ Outstanding(s)' = 0 /\ pins'[s] = 0
<1>t. TypeOK
  BY DEF Protocol
<1>n. handles[s] \in Nat /\ borrowed[s] \in Nat /\ returning[s] \in Nat /\ returns[s] \in Nat
  BY <1>t DEF TypeOK
<1>1. lOpen /\ returns[s] > 0
  BY DEF ReceiveObjectReturn
<1>2. PoolOf[s] \notin dropped
  BY DEF Protocol, Registered
<1>3. 1 >= Outstanding(s)
  BY <1>1, <1>2 DEF Pinned
<1>4. handles[s] = 0 /\ borrowed[s] = 0 /\ returning[s] = 0 /\ returns[s] = 1
  BY <1>n, <1>1, <1>3 DEF Outstanding
<1>5. UNCHANGED <<handles, borrowed, returning>> /\ returns'[s] = returns[s] - 1 /\ pins'[s] = 0
  BY <1>t DEF ReceiveObjectReturn, DeregisterLenderObject, TypeOK, borrowerVars
<1> QED
  BY <1>4, <1>5 DEF Outstanding

(* The inductive step of HandleIsBorrowable: a handle is made for a pool     *)
(* that the borrower has open, and REMOVE_POOL finds no handle.              *)
LEMMA HandleIsBorrowableStep ==
  ASSUME Protocol, Pinned, Agreement, HandleIsBorrowable, [Next]_vars PROVE HandleIsBorrowable'
<1>t. TypeOK
  BY DEF Protocol
<1> SUFFICES ASSUME NEW s \in Slots, bOpen', handles'[s] > 0, s \notin early'
             PROVE  PoolOf[s] \in bPools'
  BY DEF HandleIsBorrowable
<1>0. bOpen /\ (handles[s] > 0 \/ LendObject(s))
  BY <1>t, BorrowerStep
<1>1. bOpen /\ s \notin early /\ (handles[s] > 0 \/ LendObject(s))
  <2>1. ASSUME ReceiveObjectReturn(s), pins[s] = 1 PROVE FALSE
    <3>1. handles'[s] = handles[s]
      BY <2>1 DEF ReceiveObjectReturn
    <3>2. handles[s] = 0
      BY <2>1, LastReturn
    <3> QED
      BY <3>1, <3>2
  <2> QED
    BY <1>t, <1>0, <2>1, BorrowerStep
<1>2. CASE LendObject(s)
  <2>1. PoolOf[s] \in lPools /\ PoolOf[s] # req /\ bPools' = bPools
    BY <1>2 DEF LendObject, borrowerVars
  <2> QED
    BY <1>1, <2>1 DEF Agreement, Opened
<1>3. CASE handles[s] > 0
  <2>1. PoolOf[s] \in bPools
    BY <1>1, <1>3 DEF HandleIsBorrowable
  <2> SUFFICES ASSUME PoolOf[s] \notin bPools' PROVE FALSE
    OBVIOUS
  <2>2. /\ Head(toBorrower).op = "REMOVE_POOL" /\ Head(toBorrower).pool = PoolOf[s]
        /\ toBorrower # <<>> /\ toBorrower' = Tail(toBorrower)
    BY <1>t, <2>1, BorrowerPoolsStep
  <2>3. Outstanding(s) = 0
    BY <1>1, <2>2, RemovalTaken DEF SlotsOf
  <2> QED
    BY <1>t, <1>3, <2>3 DEF Outstanding, TypeOK
<1> QED
  BY <1>1, <1>2, <1>3

(* A handle the borrower has not used yet can be borrowed, unless it was     *)
(* lent before its LEND_POOL was answered.                                   *)
THEOREM HandleAlwaysBorrowable == Spec => []HandleIsBorrowable
<1>1. Init => HandleIsBorrowable
  BY DEF Init, HandleIsBorrowable
<1> QED
  BY <1>1, HandleIsBorrowableStep, ProtocolAlways, PinnedAlways, AgreementAlways, PTL DEF Spec

-----------------------------------------------------------------------------
(* Use counts are exact. *)

(* The inductive step of NoLeak: a step that ends a reference without the    *)
(* lender hearing of it needs a failed channel, a disconnected or closed     *)
(* session, or a handle for a pool the borrower has not opened.              *)
LEMMA NoLeakStep ==
  ASSUME Protocol, Pinned, HandleIsBorrowable, NoLeak, [Next]_vars PROVE NoLeak'
<1>t. TypeOK
  BY DEF Protocol
<1> SUFFICES ASSUME NEW s \in Slots, lLife' = "up", bConnected', bOpen', ~hosed',
                    PoolOf[s] \notin dropped', s \notin early'
             PROVE  pins'[s] = Outstanding(s)'
  BY DEF NoLeak
<1>l. CASE ReceiveObjectReturn(s) /\ pins[s] = 1
  BY <1>l, LastReturn
<1> SUFFICES ASSUME ~(ReceiveObjectReturn(s) /\ pins[s] = 1)
             PROVE  pins'[s] = Outstanding(s)'
  BY <1>l
<1>0. lLife = "up" /\ bOpen /\ PoolOf[s] \notin dropped /\ s \notin early
  BY <1>t, LeaseStep, BorrowerStep
<1>n. /\ pins[s] \in Nat /\ handles[s] \in Nat /\ borrowed[s] \in Nat
      /\ returning[s] \in Nat /\ returns[s] \in Nat
  BY <1>t, ConstantsAssumption DEF TypeOK
<1>m. /\ pins'[s] \in Nat /\ handles'[s] \in Nat /\ borrowed'[s] \in Nat
      /\ returning'[s] \in Nat /\ returns'[s] \in Nat
  BY <1>t, TypeStep, ConstantsAssumption DEF TypeOK
<1> DEFINE Same == pins'[s] = Outstanding(s)'
<1> SUFFICES Same
  OBVIOUS
<1>1. ASSUME bConnected' = bConnected, hosed' = hosed PROVE pins[s] = Outstanding(s)
  <2>1. bConnected /\ ~hosed
    BY <1>1
  <2> QED
    BY <1>0, <2>1 DEF NoLeak
<1>2. ASSUME bConnected' = bConnected, hosed' = hosed,
             UNCHANGED <<pins, handles, borrowed, returning, returns>>
      PROVE  Same
  BY <1>1, <1>2 DEF Outstanding
<1>d. ASSUME NEW p \in Pools, DeregisterLenderPool(p), bConnected' = bConnected, hosed' = hosed,
             UNCHANGED <<handles, borrowed, returning, returns>>
      PROVE  Same
  <2>1. pins'[s] = IF PoolOf[s] = p THEN 0 ELSE pins[s]
    BY <1>d DEF DeregisterLenderPool
  <2>2. PoolOf[s] = p => pins[s] = 0
    BY <1>d DEF DeregisterLenderPool, WasEmpty, SlotsOf
  <2> QED
    BY <1>1, <1>d, <2>1, <2>2 DEF Outstanding
<1>3. ASSUME NEW p \in Pools, CreatePool(p) \/ LendShmPool(p) PROVE Same
  BY <1>2, <1>3 DEF CreatePool, LendShmPool, pinVars, travelVars, borrowerVars
<1>4. ASSUME NEW p \in Pools, RemovePool(p) PROVE Same
  BY <1>4, <1>d DEF RemovePool, borrowerVars
<1>5. ASSUME NEW t \in Slots, Construct(t) \/ Release(t) PROVE Same
  BY <1>2, <1>5 DEF Construct, Release, lenderVars, pinVars, travelVars, borrowerVars
<1>6. ASSUME NEW t \in Slots, LendObject(t) PROVE Same
  <2>1. bConnected' = bConnected /\ hosed' = hosed /\ UNCHANGED <<borrowed, returning, returns>>
    BY <1>6 DEF LendObject, borrowerVars
  <2>2. \/ pins'[s] = pins[s] /\ handles'[s] = handles[s]
        \/ pins'[s] = pins[s] + 1 /\ handles'[s] = handles[s] + 1
    BY <1>6, <1>t DEF LendObject, RegisterLenderObject, TypeOK
  <2>5. pins[s] = handles[s] + borrowed[s] + returning[s] + returns[s]
    BY <1>1, <2>1 DEF Outstanding
  <2> QED
    BY <1>n, <1>m, <2>1, <2>2, <2>5 DEF Outstanding
<1>7. ASSUME NEW t \in Slots, ReceiveObjectReturn(t) PROVE Same
  <2>1. bConnected' = bConnected /\ hosed' = hosed /\ UNCHANGED <<handles, borrowed, returning>>
    BY <1>7 DEF ReceiveObjectReturn, borrowerVars
  <2>2. pins[s] = Outstanding(s)
    BY <1>1, <2>1
  <2>3. CASE t = s
    <3>1. returns[s] > 0 /\ returns'[s] = returns[s] - 1
      BY <1>7, <1>t, <2>3 DEF ReceiveObjectReturn, TypeOK
    <3>2. pins[s] > 0
      BY <1>n, <2>2, <3>1 DEF Outstanding
    <3>3. pins'[s] = pins[s] - 1
      BY <1>7, <1>t, <2>3, <3>2 DEF ReceiveObjectReturn, DeregisterLenderObject, TypeOK
    <3> QED
      BY <1>n, <2>1, <2>2, <3>1, <3>3 DEF Outstanding
  <2>4. CASE t # s
    <3>1. pins'[s] = pins[s] /\ returns'[s] = returns[s]
      BY <1>7, <1>t, <2>4 DEF ReceiveObjectReturn, DeregisterLenderObject, TypeOK
    <3> QED
      BY <2>1, <2>2, <3>1 DEF Outstanding
  <2> QED
    BY <2>3, <2>4
<1>8. ASSUME NEW t \in Slots, BorrowObject(t) PROVE Same
  <2>1. bConnected' = bConnected /\ hosed' = hosed /\ UNCHANGED <<pins, returning, returns>>
    BY <1>8 DEF BorrowObject, lenderVars, pinVars
  <2>2. handles'[s] + borrowed'[s] = handles[s] + borrowed[s]
    BY <1>8, <1>t, <1>n DEF BorrowObject, RegisterBorrowerObject, TypeOK
  <2>5. pins[s] = handles[s] + borrowed[s] + returning[s] + returns[s]
    BY <1>1, <2>1 DEF Outstanding
  <2> QED
    BY <1>n, <1>m, <2>1, <2>2, <2>5 DEF Outstanding
<1>9. ASSUME NEW t \in Slots, BorrowObjectFails(t) PROVE Same
  <2>1. /\ bConnected' = bConnected /\ hosed' = hosed
        /\ UNCHANGED <<pins, borrowed, returning, returns>>
    BY <1>9 DEF BorrowObjectFails, lenderVars, pinVars, borrowerVars
  <2>2. t # s
    BY <1>9, <1>0 DEF BorrowObjectFails, HandleIsBorrowable
  <2>3. handles'[s] = handles[s]
    BY <1>9, <1>t, <2>2 DEF BorrowObjectFails, TypeOK
  <2> QED
    BY <1>1, <2>1, <2>3 DEF Outstanding
<1>10. ASSUME NEW t \in Slots, ReturnObject(t) PROVE Same
  <2>1. bConnected' = bConnected /\ hosed' = hosed /\ UNCHANGED <<pins, handles, returns>>
    BY <1>10 DEF ReturnObject, lenderVars, pinVars, travelVars
  <2>2. \/ borrowed'[s] = borrowed[s] /\ returning'[s] = returning[s]
        \/ borrowed'[s] = borrowed[s] - 1 /\ returning'[s] = returning[s] + 1
    BY <1>10, <1>t DEF ReturnObject, DeregisterBorrowerObject, TypeOK
  <2>5. pins[s] = handles[s] + borrowed[s] + returning[s] + returns[s]
    BY <1>1, <2>1 DEF Outstanding
  <2> QED
    BY <1>n, <1>m, <2>1, <2>2, <2>5 DEF Outstanding
<1>11. ASSUME NEW t \in Slots, SendReturn(t) PROVE Same
  <2>1. bConnected' = bConnected /\ hosed' = hosed /\ UNCHANGED <<pins, handles, borrowed>>
    BY <1>11 DEF SendReturn, lenderVars, pinVars
  <2>2. bConnected /\ ~hosed
    BY <2>1
  <2>3. returning'[s] + returns'[s] = returning[s] + returns[s]
    BY <1>0, <1>11, <1>t, <1>n, <2>2 DEF SendReturn, TypeOK
  <2>5. pins[s] = handles[s] + borrowed[s] + returning[s] + returns[s]
    BY <1>1, <2>1 DEF Outstanding
  <2>6. pins'[s] = pins[s] /\ handles'[s] = handles[s] /\ borrowed'[s] = borrowed[s]
    BY <2>1
  <2>7. Outstanding(s)' = handles'[s] + borrowed'[s] + (returning'[s] + returns'[s])
    BY <1>m DEF Outstanding
  <2>8. pins[s] = handles[s] + borrowed[s] + (returning[s] + returns[s])
    BY <1>n, <2>5
  <2> QED
    BY <2>3, <2>6, <2>7, <2>8
<1>12. CASE LendArena \/ LendArenaAccepted \/ LendShmPoolAccepted
  BY <1>2, <1>12 DEF LendArena, LendArenaAccepted, LendShmPoolAccepted, pinVars, travelVars, borrowerVars
<1>13. CASE RequestRefused \/ RequestFailed \/ RequestTimedOut
  <2>1. /\ UndoRequest /\ bConnected' = bConnected /\ hosed' = hosed
        /\ UNCHANGED <<handles, borrowed, returning, returns>>
    BY <1>13 DEF RequestRefused, RequestFailed, RequestTimedOut, travelVars, borrowerVars
  <2> QED
    BY <1>2, <1>d, <2>1 DEF UndoRequest, pinVars
<1>14. CASE CloseLender \/ Hose \/ PeerGone
  BY <1>14 DEF CloseLender, Hose, PeerGone, LoseInFlight
<1>15. CASE DisconnectBorrower \/ CloseBorrower
  BY <1>15 DEF DisconnectBorrower, CloseBorrower
<1>16. CASE DisconnectLender
  BY <1>2, <1>16 DEF DisconnectLender, pinVars, travelVars, borrowerVars
<1>17. CASE ReceiveArena \/ ReceiveShmPool \/ ReceiveShmPoolRemoval
  BY <1>2, <1>17 DEF ReceiveArena, ReceiveShmPool, ReceiveShmPoolRemoval, lenderVars, pinVars
<1>18. CASE UNCHANGED vars
  BY <1>2, <1>18 DEF vars, lenderVars, pinVars, travelVars, borrowerVars
<1>end. CASE EndStep
  <2>1. CASE StopLender
    BY <2>1 DEF StopLender
  <2>2. CASE ~StopLender
    BY <1>2, <1>end, <2>2 DEF EndStep, StopLender, StopBorrower, BorrowerNotifies, BorrowerAnswered, BorrowerTimedOut,
                    UnblockBorrower, arenaVars, lenderVars, requestVars, pinVars, travelVars, borrowerVars
  <2> QED
    BY <2>1, <2>2
<1> HIDE DEF Same
<1> QED
  BY <1>end, <1>3, <1>4, <1>5, <1>6, <1>7, <1>8, <1>9, <1>10, <1>11, <1>12, <1>13, <1>14,
     <1>15, <1>16, <1>17, <1>18 DEF Next, EndStep

(* While both sessions are up and connected the lender's use counts exceed   *)
(* the references by nothing, but for objects lent too early.                *)
THEOREM NoLeakAlways == Spec => []NoLeak
<1>1. Init => NoLeak
  BY DEF Init, NoLeak, Outstanding
<1> QED
  BY <1>1, NoLeakStep, ProtocolAlways, PinnedAlways, HandleAlwaysBorrowable, PTL DEF Spec
-----------------------------------------------------------------------------
(* What undoing a registration may free. *)

(* Every pool the borrower has open is registered, dropped or removed; the   *)
(* one whose response is waited for is not open unless the response is       *)
(* positive; every LEND_POOL on its way is waited for; and the dropped pools *)
(* are not open, unless they were removed.                                   *)
Accounted == lOpen => \A p \in bPools : p \in lPools \cup dropped \/ poolState[p] = "removed"
Unanswered == req \in bPools => reply = "ok"
LendAwaited ==
  \A i \in DOMAIN toBorrower : toBorrower[i].op = "LEND_POOL" => toBorrower[i].awaited
DroppedClosed == \A p \in dropped \cap bPools : poolState[p] = "removed"

Undone == Accounted /\ Unanswered /\ LendAwaited /\ DroppedClosed

(* Errors and failures are for good. *)
Reported == lErr \/ hosed \/ Undone

(* A LEND_POOL that the borrower takes is for the pool the lender waits for. *)
LEMMA LendTaken ==
  ASSUME Protocol, LendAwaited, ~hosed, NextMessage("LEND_POOL")
  PROVE  /\ Head(toBorrower).awaited /\ Head(toBorrower).pool = req
         /\ req \in lPools /\ reply = "none"
<1>1. /\ 1 \in DOMAIN toBorrower /\ Head(toBorrower) = toBorrower[1]
  BY TakenFirst DEF NextMessage, Protocol, TypeOK
<1>2. toBorrower[1].op = "LEND_POOL" /\ toBorrower[1] \in Msg /\ toBorrower[1].awaited
  BY <1>1 DEF NextMessage, Protocol, TypeOK, LendAwaited
<1>3. reply = "none" /\ toBorrower[1].pool = req /\ req # NoPool
  BY <1>1, <1>2, ConstantsAssumption DEF Protocol, Awaited, Msg
<1> QED
  BY <1>1, <1>2, <1>3 DEF Protocol, Requests

(* The inductive step of Undone, while nothing is reported. *)
LEMMA UndoneStep ==
  ASSUME Protocol, Undone, ~lErr, ~hosed, [Next]_vars, ~lErr', ~hosed'
  PROVE  Undone'
<1>t. TypeOK
  BY DEF Protocol
<1>r. \A p \in Pools : poolState[p] = "removed" => poolState'[p] = "removed"
  BY RemovedStays
<1>b. bPools \subseteq Pools /\ dropped \subseteq Pools /\ lPools \subseteq Pools
  BY <1>t DEF TypeOK
<1>q. toBorrower \in Seq(Msg)
  BY <1>t DEF TypeOK
<1>i. Requests /\ Registered
  BY DEF Protocol
<1>a. Accounted /\ Unanswered /\ LendAwaited /\ DroppedClosed
  BY DEF Undone
<1>l. lOpen' => lOpen
  BY LeaseStep
<1>tail. ASSUME toBorrower # <<>>, toBorrower' = Tail(toBorrower) PROVE LendAwaited'
  BY <1>tail, <1>a, <1>q, TakenFirst DEF LendAwaited
<1>send. ASSUME NEW m, Send(m), m.op # "LEND_POOL" \/ m.awaited PROVE LendAwaited'
  BY <1>send, <1>a, <1>q, SentLast DEF LendAwaited
<1>same. ASSUME UNCHANGED <<lPools, dropped, bPools, req>>, reply' = reply \/ req \notin bPools
         PROVE  Accounted' /\ Unanswered' /\ DroppedClosed'
  BY <1>same, <1>a, <1>b, <1>r, <1>l DEF Accounted, Unanswered, DroppedClosed
<1>queue. ASSUME UNCHANGED toBorrower PROVE LendAwaited'
  BY <1>queue, <1>a DEF LendAwaited
<1>1. ASSUME UNCHANGED <<lPools, dropped, bPools, req, reply, toBorrower>> PROVE Undone'
  BY <1>1, <1>same, <1>queue DEF Undone
<1>2. ASSUME NEW p \in Pools, CreatePool(p) PROVE Undone'
  BY <1>1, <1>2 DEF CreatePool, pinVars, travelVars, borrowerVars
<1>3. ASSUME NEW p \in Pools, LendShmPool(p) PROVE Undone'
  <2>1. p \in todo /\ UNCHANGED <<dropped, bPools, reply>>
    BY <1>3 DEF LendShmPool, borrowerVars
  <2>2. CASE ~lConnected
    <3>1. UNCHANGED <<req, lPools, toBorrower>>
      BY <1>3, <2>2 DEF LendShmPool
    <3> QED
      BY <1>1, <2>1, <3>1
  <2>3. CASE lConnected
    <3>1. req' = p /\ lPools' = lPools \cup {p} /\ Send(Message("LEND_POOL", p))
      BY <1>3, <2>3 DEF LendShmPool, RegisterLenderPool
    <3>2. lOpen /\ p \notin dropped \cup lPools /\ poolState[p] # "removed"
      BY <1>i, <2>1 DEF Requests, Registered
    <3>3. p \notin bPools
      BY <1>a, <3>2 DEF Accounted
    <3>4. LendAwaited'
      BY <1>send, <3>1 DEF Message
    <3>5. Accounted' /\ Unanswered' /\ DroppedClosed'
      BY <1>a, <1>b, <1>r, <1>l, <2>1, <3>1, <3>3 DEF Accounted, Unanswered, DroppedClosed
    <3> QED
      BY <3>4, <3>5 DEF Undone
  <2> QED
    BY <2>2, <2>3
<1>4. ASSUME NEW p \in Pools, RemovePool(p) PROVE Undone'
  <2>1. /\ UNCHANGED <<bPools, req, reply>> /\ poolState'[p] = "removed"
        /\ lPools' = lPools \ {p} /\ dropped' \in {dropped, dropped \cup {p}}
    BY <1>4, <1>t DEF RemovePool, DeregisterLenderPool, TypeOK, requestVars, borrowerVars
  <2>2. toBorrower' = toBorrower \/ Send(Message("REMOVE_POOL", p))
    BY <1>4 DEF RemovePool
  <2>3. Message("REMOVE_POOL", p).op # "LEND_POOL"
    BY DEF Message
  <2>4. LendAwaited'
    BY <1>send, <1>queue, <2>2, <2>3
  <2>5. Accounted' /\ Unanswered' /\ DroppedClosed'
    BY <1>a, <1>b, <1>r, <1>l, <2>1 DEF Accounted, Unanswered, DroppedClosed
  <2> QED
    BY <2>4, <2>5 DEF Undone
<1>5. ASSUME NEW s \in Slots,
             \/ Construct(s) \/ Release(s) \/ LendObject(s) \/ ReceiveObjectReturn(s)
             \/ BorrowObject(s) \/ BorrowObjectFails(s) \/ ReturnObject(s) \/ SendReturn(s)
      PROVE  Undone'
  BY <1>1, <1>5 DEF Construct, Release, LendObject, ReceiveObjectReturn, BorrowObject,
                    BorrowObjectFails, ReturnObject, SendReturn, lenderVars, requestVars, pinVars,
                    travelVars, borrowerVars
<1>6. CASE LendArena
  <2>1. UNCHANGED <<lPools, dropped, bPools, req, reply>> /\ Send(Message("LEND_ARENA", NoPool))
    BY <1>6 DEF LendArena, pinVars, borrowerVars
  <2>2. Message("LEND_ARENA", NoPool).op # "LEND_POOL"
    BY DEF Message
  <2> QED
    BY <1>same, <1>send, <2>1, <2>2 DEF Undone
<1>7. CASE LendArenaAccepted
  <2>1. UNCHANGED <<lPools, dropped, bPools, req, toBorrower>> /\ req = NoPool
    BY <1>7 DEF LendArenaAccepted, NotifierIdle, pinVars, travelVars, borrowerVars
  <2>2. req \notin bPools
    BY <1>b, <2>1, ConstantsAssumption
  <2> QED
    BY <1>same, <1>queue, <2>1, <2>2 DEF Undone
<1>8. CASE LendShmPoolAccepted
  <2>1. UNCHANGED <<lPools, dropped, bPools, toBorrower>> /\ req' = NoPool
    BY <1>8 DEF LendShmPoolAccepted, pinVars, travelVars, borrowerVars
  <2>2. NoPool \notin bPools
    BY <1>b, ConstantsAssumption
  <2>3. Accounted' /\ Unanswered' /\ DroppedClosed'
    BY <1>a, <1>b, <1>r, <1>l, <2>1, <2>2 DEF Accounted, Unanswered, DroppedClosed
  <2> QED
    BY <1>queue, <2>1, <2>3 DEF Undone
<1>9. CASE RequestRefused
  <2>1. UNCHANGED <<bPools, toBorrower>> /\ UndoRequest /\ reply = "fail"
    BY <1>9 DEF RequestRefused, travelVars, borrowerVars
  <2>2. req \notin bPools
    BY <1>a, <2>1 DEF Unanswered
  <2>3. CASE UNCHANGED <<poolState, req, pinVars>>
    BY <1>same, <1>queue, <2>1, <2>2, <2>3 DEF pinVars, Undone
  <2>4. CASE req \in Pools /\ req' = NoPool /\ DeregisterLenderPool(req)
    <3>1. lPools' = lPools \ {req} /\ dropped' \in {dropped, dropped \cup {req}}
      BY <2>4 DEF DeregisterLenderPool
    <3>2. NoPool \notin bPools
      BY <1>b, ConstantsAssumption
    <3>3. Accounted' /\ Unanswered' /\ DroppedClosed'
      BY <1>a, <1>b, <1>r, <1>l, <2>1, <2>2, <2>4, <3>1, <3>2 DEF Accounted, Unanswered, DroppedClosed
    <3> QED
      BY <1>queue, <2>1, <3>3 DEF Undone
  <2> QED
    BY <2>1, <2>3, <2>4 DEF UndoRequest
<1>10. ~RequestFailed /\ ~RequestTimedOut /\ ~Hose /\ ~PeerGone
  BY DEF RequestFailed, RequestTimedOut, Hose, PeerGone, LoseInFlight
<1>11. CASE DisconnectLender \/ DisconnectBorrower
  BY <1>1, <1>11 DEF DisconnectLender, DisconnectBorrower, lenderVars, requestVars, pinVars,
                     travelVars, borrowerVars
<1>12. CASE CloseLender
  <2>1. ~lOpen' /\ UNCHANGED <<dropped, bPools, req, reply, toBorrower>>
    BY <1>12 DEF CloseLender, travelVars, borrowerVars
  <2> QED
    BY <1>a, <1>b, <1>r, <1>queue, <2>1 DEF Accounted, Unanswered, DroppedClosed, Undone
<1>13. CASE CloseBorrower
  <2>1. bPools' = {} /\ UNCHANGED toBorrower
    BY <1>13 DEF CloseBorrower, travelVars
  <2> QED
    BY <1>queue, <2>1 DEF Accounted, Unanswered, DroppedClosed, Undone
<1>14. CASE EndStep
  <2>1. /\ UNCHANGED <<lPools, dropped, bPools, req, reply>>
        /\ toBorrower' = toBorrower \/ toBorrower' = <<>>
    BY <1>14 DEF EndStep, StopLender, StopBorrower, BorrowerNotifies, BorrowerAnswered,
                 BorrowerTimedOut, UnblockBorrower, lenderVars, requestVars, pinVars, travelVars,
                 borrowerVars
  <2>2. LendAwaited'
    BY <1>queue, <2>1 DEF LendAwaited
  <2> QED
    BY <1>same, <2>1, <2>2 DEF Undone
<1>15. CASE ReceiveArena
  <2>1. /\ UNCHANGED <<lPools, dropped, bPools, req>>
        /\ toBorrower # <<>> /\ toBorrower' = Tail(toBorrower)
    BY <1>15 DEF ReceiveArena, NextMessage, pinVars
  <2>2. reply' = reply \/ req \notin bPools
    <3>1. CASE Head(toBorrower).awaited
      <4>1. /\ 1 \in DOMAIN toBorrower /\ Head(toBorrower) = toBorrower[1]
        BY <1>q, <2>1, TakenFirst
      <4>2. reply = "none"
        BY <3>1, <4>1 DEF Protocol, Awaited
      <4> QED
        BY <1>a, <4>2 DEF Unanswered
    <3>2. CASE ~Head(toBorrower).awaited
      BY <1>15, <3>2 DEF ReceiveArena, Respond
    <3> QED
      BY <3>1, <3>2
  <2> QED
    BY <1>same, <1>tail, <2>1, <2>2 DEF Undone
<1>16. CASE ReceiveShmPool
  <2>1. /\ UNCHANGED <<lPools, dropped, req>> /\ NextMessage("LEND_POOL")
        /\ toBorrower # <<>> /\ toBorrower' = Tail(toBorrower)
    BY <1>16 DEF ReceiveShmPool, NextMessage, pinVars
  <2>2. /\ Head(toBorrower).awaited /\ Head(toBorrower).pool = req /\ req \in lPools
        /\ reply = "none"
    BY <1>a, <2>1, LendTaken
  <2>3. \/ bPools' = bPools /\ reply' = "fail"
        \/ bPools' = bPools \cup {req} /\ reply' = "ok"
    BY <1>16, <2>2 DEF ReceiveShmPool, RegisterBorrowerPool, Respond
  <2>4. req \notin bPools /\ req \notin dropped
    BY <1>a, <1>i, <2>2 DEF Unanswered, Registered
  <2>5. Accounted' /\ Unanswered' /\ DroppedClosed'
    BY <1>a, <1>b, <1>r, <1>l, <2>1, <2>2, <2>3, <2>4 DEF Accounted, Unanswered, DroppedClosed
  <2> QED
    BY <1>tail, <2>1, <2>5 DEF Undone
<1>17. CASE ReceiveShmPoolRemoval
  <2>1. /\ UNCHANGED <<lPools, dropped, req, reply>> /\ bPools' \subseteq bPools
        /\ toBorrower # <<>> /\ toBorrower' = Tail(toBorrower)
    BY <1>17 DEF ReceiveShmPoolRemoval, DeregisterBorrowerPool, NextMessage, lenderVars, requestVars,
                 pinVars
  <2>2. Accounted' /\ Unanswered' /\ DroppedClosed'
    BY <1>a, <1>b, <1>r, <1>l, <2>1 DEF Accounted, Unanswered, DroppedClosed
  <2> QED
    BY <1>tail, <2>1, <2>2 DEF Undone
<1>18. CASE UNCHANGED vars
  BY <1>1, <1>18 DEF vars, lenderVars, requestVars, pinVars, travelVars, borrowerVars
<1> QED
  BY <1>2, <1>3, <1>4, <1>5, <1>6, <1>7, <1>8, <1>9, <1>10, <1>11, <1>12, <1>13,
     <1>14, <1>15, <1>16, <1>17, <1>18 DEF Next, EndStep

(* Errors stay reported, and a failed channel stays failed. *)
LEMMA ReportedStays == [Next]_vars => (lErr => lErr') /\ (hosed => hosed')
<1> SUFFICES ASSUME [Next]_vars PROVE (lErr => lErr') /\ (hosed => hosed')
  OBVIOUS
<1>1. CASE UNCHANGED <<lErr, hosed>>
  BY <1>1
<1>2. ASSUME NEW p \in Pools, CreatePool(p) \/ LendShmPool(p) \/ RemovePool(p)
      PROVE  UNCHANGED <<lErr, hosed>>
  BY <1>2 DEF CreatePool, LendShmPool, RemovePool, travelVars
<1>3. ASSUME NEW s \in Slots,
             \/ Construct(s) \/ Release(s) \/ LendObject(s) \/ ReceiveObjectReturn(s)
             \/ BorrowObject(s) \/ BorrowObjectFails(s) \/ ReturnObject(s) \/ SendReturn(s)
      PROVE  UNCHANGED <<lErr, hosed>>
  BY <1>3 DEF Construct, Release, LendObject, ReceiveObjectReturn, BorrowObject,
              BorrowObjectFails, ReturnObject, SendReturn, lenderVars, travelVars
<1>4. CASE LendArena \/ LendArenaAccepted \/ LendShmPoolAccepted \/ RequestRefused
  BY <1>4 DEF LendArena, LendArenaAccepted, LendShmPoolAccepted, RequestRefused, travelVars
<1>5. CASE RequestFailed \/ RequestTimedOut
  <2>1. lErr' = lErr \/ lErr' = TRUE
    BY <1>5 DEF RequestFailed, RequestTimedOut
  <2>2. hosed' = hosed
    BY <1>5 DEF RequestFailed, RequestTimedOut, travelVars
  <2> QED
    BY <2>1, <2>2
<1>6. CASE EndStep \/ DisconnectLender \/ CloseLender \/ DisconnectBorrower \/ CloseBorrower
  BY <1>6 DEF EndStep, StopLender, StopBorrower, BorrowerNotifies, BorrowerAnswered, BorrowerTimedOut,
              UnblockBorrower, DisconnectLender, CloseLender, DisconnectBorrower, CloseBorrower,
              lenderVars, travelVars
<1>7. CASE ReceiveArena \/ ReceiveShmPool \/ ReceiveShmPoolRemoval
  <2>1. CASE ReceiveArena \/ ReceiveShmPool
    BY <1>1, <2>1 DEF ReceiveArena, ReceiveShmPool
  <2>2. CASE ReceiveShmPoolRemoval
    BY <1>1, <2>2 DEF ReceiveShmPoolRemoval, lenderVars
  <2> QED
    BY <1>7, <2>1, <2>2
<1>8. CASE Hose \/ PeerGone
  BY <1>8 DEF Hose, PeerGone, LoseInFlight
<1>9. CASE UNCHANGED vars
  BY <1>9 DEF vars, lenderVars, travelVars
<1> QED
  BY <1>1, <1>2, <1>3, <1>4, <1>5, <1>6, <1>7, <1>8, <1>9 DEF Next, EndStep

(* lend_shm_pool() that undoes its registration frees nothing the borrower   *)
(* uses, unless an error was reported, the channel failed, or the pool was   *)
(* removed with objects lent.                                                *)
THEOREM DroppedAlwaysReported == Spec => []DroppedIsReported
<1>1. Init => Reported
  BY ConstantsAssumption DEF Init, Reported, Undone, Accounted, Unanswered, LendAwaited, DroppedClosed
<1>2. Protocol /\ Reported /\ [Next]_vars => Reported'
  BY ReportedStays, UndoneStep DEF Reported
<1>3. BorrowedIsOpen /\ Reported => DroppedIsReported
  BY DEF Reported, Undone, DroppedClosed, BorrowedIsOpen, DroppedIsReported
<1> QED
  BY <1>1, <1>2, <1>3, ProtocolAlways, BorrowedAlwaysOpen, PTL DEF Spec
=============================================================================
