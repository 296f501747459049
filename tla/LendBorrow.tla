------------------------------ MODULE LendBorrow ------------------------------
(***************************************************************************)
(* One direction of one SHM-jemalloc session: a lender process that owns   *)
(* an arena (Ipc_arena) and a borrower process, each with its Shm_session. *)
(* The lender announces the arena and its pools over the SHM channel       *)
(* (LEND_ARENA, LEND_POOL: synchronous requests; REMOVE_POOL: one way),    *)
(* registers every object it lends, and passes the handle to the borrower  *)
(* by any channel of the user's.  The borrower answers a release with      *)
(* RETURN_OBJECT.  An object lives while the lender's application or the   *)
(* lender's session holds a shared_ptr to it.                              *)
(*                                                                         *)
(* The arena has one collection, so collection ids are left out.  A slot   *)
(* is a (pool, offset) pair where an object can be allocated.              *)
(***************************************************************************)
EXTENDS Naturals, Sequences

CONSTANTS
  Pools,         \* the SHM pools the arena may create, each at most once
  Slots,         \* the (pool, offset) pairs at which objects are allocated
  PoolOf,        \* the pool of a slot
  NoPool,        \* not a pool
  MaxUse,        \* bound: references to one slot outstanding at a time
  Relent,        \* bound: slots lent again while they are lent
  MaxAttempts,   \* bound: calls of lend_arena
  CanTimeOut,    \* sync_request was given a finite timeout
  CanRefuse,     \* opening a pool may fail in the borrower
  CanHose,       \* the SHM channel may fail
  CanForce       \* a pool may be removed while objects are lent from it

ASSUME ConstantsAssumption ==
  /\ NoPool \notin Pools
  /\ PoolOf \in [Slots -> Pools]
  /\ MaxUse \in Nat \ {0}
  /\ Relent \in SUBSET Slots
  /\ MaxAttempts \in Nat \ {0}
  /\ CanTimeOut \in BOOLEAN /\ CanRefuse \in BOOLEAN /\ CanHose \in BOOLEAN
  /\ CanForce \in BOOLEAN

VARIABLES
  \* The lender's arena and application.
  poolState,   \* "absent", "creating" (in the allocation hook), "live", "removed"
  held,        \* slots whose object the application holds a shared_ptr to
  \* The lender's Shm_session.
  listener,    \* "none", "requested" (LEND_ARENA sent), "added" to the arena
  attempts,    \* calls of lend_arena so far
  todo,        \* pools the notifying thread has still to lend
  req,         \* pool whose LEND_POOL the notifying thread waits for
  reply,       \* response to the request waited for: "none", "ok", "fail"
  lPools,      \* Lender_collection: registered pools
  pins,        \* Lender_collection: m_use_count of every slot, 0 if no entry
  lConnected,  \* m_connected
  lErr,        \* m_shm_channel_error_handler has been called
  lLife,       \* its end: "up", "ending" (both task loops stopped), "gone"
  dropped,     \* history: pools deregistered with objects still lent
  early,       \* history: slots lent while their LEND_POOL was not answered,
               \* until they are returned
  \* What travels.
  hosed,       \* the SHM channel has failed
  toBorrower,  \* LEND and REMOVE messages, in the channel or the serial loop
  handles,     \* handles of every slot lent and not yet borrowed
  returns,     \* RETURN_OBJECTs, in the channel or in the parallel loop
  \* The borrower's Shm_session.
  bArena,      \* the collection is registered
  bPools,      \* Borrower_collection: registered (opened and mapped) pools
  borrowed,    \* Borrower_collection: use count of every slot
  returning,   \* releases deregistered, RETURN_OBJECT not sent yet
  bConnected,  \* m_connected
  bLife        \* its end: "up"; "ending" (both task loops stopped); "blocked"
               \* (ending, while a thread of the process notifies the lender
               \* of a pool of its own arena, whose mutex it holds); "gone"

arenaVars    == <<poolState, held>>
requestVars  == <<listener, attempts, todo, req, reply>>
pinVars      == <<lPools, pins, dropped, early>>
lenderVars   == <<requestVars, pinVars, lConnected, lErr, lLife>>
travelVars   == <<hosed, toBorrower, handles, returns>>
borrowerVars == <<bArena, bPools, borrowed, returning, bConnected, bLife>>
vars         == <<arenaVars, lenderVars, travelVars, borrowerVars>>

-----------------------------------------------------------------------------

(* The session objects exist, though their destructors may have begun. *)
lOpen == lLife # "gone"
bOpen == bLife # "gone"

(* awaited: a thread of the lender waits for the response. *)
Msg == [op : {"LEND_ARENA"}, pool : {NoPool}, awaited : BOOLEAN]
       \cup [op : {"LEND_POOL", "REMOVE_POOL"}, pool : Pools, awaited : BOOLEAN]

Message(op, p) == [op |-> op, pool |-> p, awaited |-> op # "REMOVE_POOL"]

SlotsOf(p) == {s \in Slots : PoolOf[s] = p}

(* References to a slot that the lender does not hold itself. *)
Outstanding(s) == handles[s] + borrowed[s] + returning[s] + returns[s]

(* The object in a slot exists: shared_ptr semantics. *)
Alive(s) == s \in held \/ pins[s] > 0

(* Ipc_arena::m_shm_pools. *)
ArenaPools == {p \in Pools : poolState[p] \in {"creating", "live"}}

(* No thread holds Ipc_arena::m_shm_pools_and_listeners_mutex, which a       *)
(* thread keeps while it notifies the session, requests included.            *)
NotifierIdle == todo = {} /\ req = NoPool

(* Channel::send(): a message is queued unless the channel is hosed or the   *)
(* receiver, whose destructor has begun, expects no more messages.           *)
Send(m) ==
  toBorrower' = IF hosed \/ bLife # "up" THEN toBorrower ELSE Append(toBorrower, m)

Init ==
  /\ poolState = [p \in Pools |-> "absent"]
  /\ held = {}
  /\ listener = "none" /\ attempts = 0
  /\ todo = {} /\ req = NoPool /\ reply = "none"
  /\ lPools = {} /\ pins = [s \in Slots |-> 0]
  /\ dropped = {} /\ early = {}
  /\ lConnected = TRUE /\ lErr = FALSE /\ lLife = "up"
  /\ hosed = FALSE
  /\ toBorrower = <<>>
  /\ handles = [s \in Slots |-> 0]
  /\ returns = [s \in Slots |-> 0]
  /\ bArena = FALSE /\ bPools = {}
  /\ borrowed = [s \in Slots |-> 0]
  /\ returning = [s \in Slots |-> 0]
  /\ bConnected = TRUE /\ bLife = "up"

-----------------------------------------------------------------------------
(* The lender's arena. *)

(* The allocation hook made a pool: Ipc_arena records it and, when the       *)
(* session listens, starts to lend it; until that is over the allocation     *)
(* that wanted the pool has not returned, so nothing is allocated in it.     *)
CreatePool(p) ==
  /\ poolState[p] = "absent"
  /\ NotifierIdle
  /\ poolState' = [poolState EXCEPT
                     ![p] = IF listener = "added" THEN "creating" ELSE "live"]
  /\ todo' = IF listener = "added" THEN {p} ELSE {}
  /\ UNCHANGED <<held, listener, attempts, req, reply, pinVars, lConnected,
                 lErr, lLife, travelVars, borrowerVars>>

(* The application constructs an object in a free slot. *)
Construct(s) ==
  /\ poolState[PoolOf[s]] = "live"
  /\ ~Alive(s)
  /\ held' = held \cup {s}
  /\ UNCHANGED <<poolState, lenderVars, travelVars, borrowerVars>>

(* The application lets its last shared_ptr to the object go. *)
Release(s) ==
  /\ s \in held
  /\ held' = held \ {s}
  /\ UNCHANGED <<poolState, lenderVars, travelVars, borrowerVars>>

-----------------------------------------------------------------------------
(* The lender's session. *)

(* Mutant: deregister_shm_pool() always says that the pool was empty. *)
WasEmptyAlways(p) == TRUE

(* deregister_shm_pool()'s was_empty: no object of the pool is lent. *)
WasEmpty(p) == \A s \in SlotsOf(p) : pins[s] = 0

RegisterLenderPool(p) == lPools' = lPools \cup {p}

(* Lender_collection::deregister_shm_pool(): the entry goes, and with it     *)
(* every shared_ptr to an object that is still lent.                         *)
DeregisterLenderPool(p) ==
  /\ lPools' = lPools \ {p}
  /\ pins' = [s \in Slots |-> IF PoolOf[s] = p THEN 0 ELSE pins[s]]
  /\ dropped' = IF WasEmpty(p) THEN dropped ELSE dropped \cup {p}
  /\ UNCHANGED early

(* Mutant: an object that is registered already is not counted again. *)
RegisterLenderObjectOnce(s) == pins' = [pins EXCEPT ![s] = 1]

(* Mutant: the session keeps no shared_ptr to what it lends. *)
RegisterLenderObjectWeakly(s) == UNCHANGED pins

(* Lender_collection::register_object(): a new entry, or one more use. *)
RegisterLenderObject(s) == pins' = [pins EXCEPT ![s] = @ + 1]

(* Mutant: an object without an entry is counted down, too. *)
DeregisterLenderObjectUnchecked(s) == pins' = [pins EXCEPT ![s] = @ - 1]

(* Mutant: the entry outlives its last use. *)
DeregisterLenderObjectKept(s) ==
  pins' = IF pins[s] > 1 THEN [pins EXCEPT ![s] = @ - 1] ELSE pins

(* Lender_collection::deregister_object(): one use less, the last takes the  *)
(* entry along.  An object without an entry (its pool was deregistered) is   *)
(* left alone.                                                               *)
DeregisterLenderObject(s) ==
  pins' = IF pins[s] > 0 THEN [pins EXCEPT ![s] = @ - 1] ELSE pins

(* lend_arena() up to the wait for the response to LEND_ARENA. *)
LendArena ==
  /\ lLife = "up" /\ lConnected
  /\ listener = "none"
  /\ attempts < MaxAttempts
  /\ attempts' = attempts + 1
  /\ listener' = "requested"
  /\ Send(Message("LEND_ARENA", NoPool))
  /\ UNCHANGED <<arenaVars, todo, req, reply, pinVars, lConnected, lErr,
                 lLife, hosed, handles, returns, borrowerVars>>

(* lend_arena() after a positive response: the listener is added to the      *)
(* arena, which has the session lend the initial pools.                      *)
LendArenaAccepted ==
  /\ listener = "requested" /\ reply = "ok"
  /\ NotifierIdle
  /\ listener' = "added"
  /\ reply' = "none"
  /\ todo' = ArenaPools
  /\ UNCHANGED <<arenaVars, attempts, req, pinVars, lConnected, lErr, lLife,
                 travelVars, borrowerVars>>

(* lend_shm_pool() up to the wait: the pool is registered before the         *)
(* borrower hears of it.                                                     *)
LendShmPool(p) ==
  /\ p \in todo /\ req = NoPool
  /\ todo' = todo \ {p}
  /\ \/ /\ ~lConnected
        /\ poolState' = [poolState EXCEPT ![p] = "live"]
        /\ UNCHANGED <<req, lPools, toBorrower>>
     \/ /\ lConnected
        /\ req' = p
        /\ RegisterLenderPool(p)
        /\ Send(Message("LEND_POOL", p))
        /\ UNCHANGED poolState
  /\ UNCHANGED <<held, listener, attempts, reply, pins, dropped, early,
                 lConnected, lErr, lLife, hosed, handles, returns, borrowerVars>>

(* lend_shm_pool() after a positive response. *)
LendShmPoolAccepted ==
  /\ req \in Pools /\ reply = "ok"
  /\ req' = NoPool
  /\ reply' = "none"
  /\ poolState' = [poolState EXCEPT ![req] = "live"]
  /\ UNCHANGED <<held, listener, attempts, todo, pinVars, lConnected, lErr,
                 lLife, travelVars, borrowerVars>>

(* lend_arena() or lend_shm_pool() undoes its registration.                  *)
UndoRequest ==
  \/ /\ listener = "requested"
     /\ listener' = "none"
     /\ UNCHANGED <<poolState, req, pinVars>>
  \/ /\ req \in Pools
     /\ req' = NoPool
     /\ DeregisterLenderPool(req)
     /\ poolState' = [poolState EXCEPT ![req] = "live"]
     /\ UNCHANGED listener

(* The borrower refused: no error is reported to anybody. *)
RequestRefused ==
  /\ reply = "fail"
  /\ reply' = "none"
  /\ UndoRequest
  /\ UNCHANGED <<held, attempts, todo, lConnected, lErr, lLife, travelVars,
                 borrowerVars>>

(* sync_request() failed on the channel; the error handler runs unless the   *)
(* channel was hosed before the call.                                        *)
RequestFailed ==
  /\ hosed /\ reply = "none"
  /\ lErr' \in {lErr, TRUE}
  /\ UndoRequest
  /\ UNCHANGED <<held, attempts, todo, reply, lConnected, lLife, travelVars,
                 borrowerVars>>

(* Mutant: a timeout is handled like a refusal, and reported to nobody. *)
RequestTimedOutQuietly ==
  /\ CanTimeOut
  /\ ~hosed
  /\ reply' = "none"
  /\ UndoRequest
  /\ toBorrower' = [i \in DOMAIN toBorrower |->
                      [toBorrower[i] EXCEPT !.awaited = FALSE]]
  /\ UNCHANGED <<held, attempts, todo, lConnected, lErr, lLife, hosed, handles,
                 returns, borrowerVars>>

(* sync_request() gave up waiting; the request itself may still be on its    *)
(* way, and a late response is dropped by the channel.                       *)
RequestTimedOut ==
  /\ CanTimeOut
  /\ ~hosed
  /\ lErr' = TRUE
  /\ reply' = "none"
  /\ UndoRequest
  /\ toBorrower' = [i \in DOMAIN toBorrower |->
                      [toBorrower[i] EXCEPT !.awaited = FALSE]]
  /\ UNCHANGED <<held, attempts, todo, lConnected, lLife, hosed, handles,
                 returns, borrowerVars>>

(* handle_removed_shm_pool() and remove_lender_shm_pool(): by then the pool  *)
(* is unmapped and unlinked.  The arena's contract is that no object is in   *)
(* it; CanForce stands for the "degenerate case" the code provides for.      *)
RemovePool(p) ==
  /\ poolState[p] = "live"
  /\ NotifierIdle
  /\ CanForce \/ \A s \in SlotsOf(p) : ~Alive(s)
  /\ poolState' = [poolState EXCEPT ![p] = "removed"]
  /\ held' = held \ SlotsOf(p)
  /\ DeregisterLenderPool(p)
  /\ IF p \in lPools /\ lConnected /\ WasEmpty(p)
       THEN Send(Message("REMOVE_POOL", p))
       ELSE UNCHANGED toBorrower
  /\ UNCHANGED <<requestVars, lConnected, lErr, lLife, hosed, handles,
                 returns, borrowerVars>>

(* lend_object(): fails, changing nothing, when disconnected or when the     *)
(* pool is not registered.  The channel is not looked at.                    *)
LendObject(s) ==
  /\ s \in held
  /\ lLife = "up" /\ lConnected
  /\ PoolOf[s] \in lPools
  /\ pins[s] < MaxUse /\ (pins[s] = 0 \/ s \in Relent)
  /\ RegisterLenderObject(s)
  /\ early' = IF PoolOf[s] = req THEN early \cup {s} ELSE early
  /\ handles' = [handles EXCEPT ![s] = @ + 1]
  /\ UNCHANGED <<arenaVars, requestVars, lPools, dropped, lConnected, lErr,
                 lLife, hosed, toBorrower, returns, borrowerVars>>

(* receive_object_return(), in a thread of the parallel loop.                *)
ReceiveObjectReturn(s) ==
  /\ lLife = "up"
  /\ returns[s] > 0
  /\ returns' = [returns EXCEPT ![s] = @ - 1]
  /\ DeregisterLenderObject(s)
  /\ early' = IF pins[s] = 1 THEN early \ {s} ELSE early
  /\ UNCHANGED <<arenaVars, requestVars, lPools, dropped, lConnected, lErr,
                 lLife, hosed, toBorrower, handles, borrowerVars>>

(* The lender's set_disconnected(). *)
DisconnectLender ==
  /\ lLife = "up" /\ lConnected
  /\ lConnected' = FALSE
  /\ UNCHANGED <<arenaVars, requestVars, pinVars, lErr, lLife, travelVars,
                 borrowerVars>>

(* A thread is in lend_arena(): it waits for the response, or lends the      *)
(* initial pools, which are live.                                            *)
LendingArena ==
  \/ listener = "requested"
  \/ \E p \in Pools \cap (todo \cup {req}) : poolState[p] = "live"

(* The lender's ~Shm_session() begins: both task loops are stopped, each     *)
(* after the task it is in.  A thread in lend_arena() has a reference.       *)
StopLender ==
  /\ lLife = "up" /\ ~LendingArena
  /\ lLife' = "ending"
  /\ returns' = [s \in Slots |-> 0]
  /\ UNCHANGED <<arenaVars, requestVars, pinVars, lConnected, lErr, hosed,
                 toBorrower, handles, borrowerVars>>

(* ~Shm_session() goes on: it waits for the arena's mutex to remove the      *)
(* listener; the session data goes, and with it every shared_ptr it holds.   *)
CloseLender ==
  /\ lLife = "ending"
  /\ NotifierIdle
  /\ lLife' = "gone"
  /\ lConnected' = FALSE
  /\ listener' = "none"
  /\ lPools' = {}
  /\ pins' = [s \in Slots |-> 0]
  /\ UNCHANGED <<arenaVars, attempts, todo, req, reply, dropped, early, lErr,
                 travelVars, borrowerVars>>

-----------------------------------------------------------------------------
(* The borrower's session. *)

(* Mutant: the borrower reports success whatever happened. *)
RespondSuccess(m, success) == reply' = IF m.awaited /\ ~hosed THEN "ok" ELSE reply

(* Mutant: a request that fails is not answered. *)
RespondOnlySuccess(m, success) ==
  reply' = IF m.awaited /\ ~hosed /\ success THEN "ok" ELSE reply

(* send_response(): lost if the channel is hosed, ignored if nobody waits. *)
Respond(m, success) ==
  reply' = IF m.awaited /\ ~hosed THEN IF success THEN "ok" ELSE "fail"
                                  ELSE reply

(* The serial loop takes its next message. *)
NextMessage(op) ==
  /\ bLife = "up"
  /\ toBorrower # <<>>
  /\ Head(toBorrower).op = op
  /\ toBorrower' = Tail(toBorrower)

(* receive_arena(): a collection that is already registered is refused. *)
ReceiveArena ==
  /\ NextMessage("LEND_ARENA")
  /\ bArena' = TRUE
  /\ Respond(Head(toBorrower), ~bArena)
  /\ UNCHANGED <<arenaVars, listener, attempts, todo, req, pinVars,
                 lConnected, lErr, lLife, hosed, handles, returns, bPools,
                 borrowed, returning, bConnected, bLife>>

RegisterBorrowerPool(p) == bPools' = bPools \cup {p}

(* Borrower_collection::deregister_shm_pool(): refused while an object of    *)
(* the pool is borrowed.                                                     *)
DeregisterBorrowerPool(p) ==
  bPools' = IF \A s \in SlotsOf(p) : borrowed[s] = 0 THEN bPools \ {p} ELSE bPools

RegisterBorrowerObject(s) == borrowed' = [borrowed EXCEPT ![s] = @ + 1]

DeregisterBorrowerObject(s) == borrowed' = [borrowed EXCEPT ![s] = @ - 1]

(* receive_shm_pool(): opening the pool needs its collection, and its name,  *)
(* which the lender has unlinked once the pool is removed.                   *)
ReceiveShmPool ==
  LET m == Head(toBorrower) IN
  /\ NextMessage("LEND_POOL")
  /\ \E opened \in IF bArena /\ poolState[m.pool] # "removed"
                   THEN {TRUE, ~CanRefuse} ELSE {FALSE} :
       /\ IF opened THEN RegisterBorrowerPool(m.pool) ELSE UNCHANGED bPools
       /\ Respond(m, opened)
  /\ UNCHANGED <<arenaVars, listener, attempts, todo, req, pinVars,
                 lConnected, lErr, lLife, hosed, handles, returns, bArena,
                 borrowed, returning, bConnected, bLife>>

(* receive_shm_pool_removal(). *)
ReceiveShmPoolRemoval ==
  /\ NextMessage("REMOVE_POOL")
  /\ DeregisterBorrowerPool(Head(toBorrower).pool)
  /\ UNCHANGED <<arenaVars, lenderVars, hosed, handles, returns, bArena,
                 borrowed, returning, bConnected, bLife>>

(* borrow_object() of a handle that reached the borrower. *)
BorrowObject(s) ==
  /\ bLife = "up"
  /\ handles[s] > 0
  /\ PoolOf[s] \in bPools
  /\ handles' = [handles EXCEPT ![s] = @ - 1]
  /\ RegisterBorrowerObject(s)
  /\ UNCHANGED <<arenaVars, lenderVars, hosed, toBorrower, returns, bArena,
                 bPools, returning, bConnected, bLife>>

(* borrow_object() returns null, and the handle is of no more use. *)
BorrowObjectFails(s) ==
  /\ bLife = "up"
  /\ handles[s] > 0
  /\ PoolOf[s] \notin bPools
  /\ handles' = [handles EXCEPT ![s] = @ - 1]
  /\ UNCHANGED <<arenaVars, lenderVars, hosed, toBorrower, returns,
                 borrowerVars>>

(* The last copy of a borrowed shared_ptr goes: return_object() deregisters  *)
(* the object ...                                                            *)
ReturnObject(s) ==
  /\ borrowed[s] > 0
  /\ DeregisterBorrowerObject(s)
  /\ returning' = [returning EXCEPT ![s] = @ + 1]
  /\ UNCHANGED <<arenaVars, lenderVars, travelVars, bArena, bPools,
                 bConnected, bLife>>

(* ... and then tells the lender, if it still can. *)
SendReturn(s) ==
  /\ returning[s] > 0
  /\ returning' = [returning EXCEPT ![s] = @ - 1]
  /\ returns' = IF bConnected /\ ~hosed /\ lLife = "up"
                THEN [returns EXCEPT ![s] = @ + 1] ELSE returns
  /\ UNCHANGED <<arenaVars, lenderVars, hosed, toBorrower, handles, bArena,
                 bPools, borrowed, bConnected, bLife>>

(* The borrower's set_disconnected(). *)
DisconnectBorrower ==
  /\ bLife = "up" /\ bConnected
  /\ bConnected' = FALSE
  /\ UNCHANGED <<arenaVars, lenderVars, travelVars, bArena, bPools, borrowed,
                 returning, bLife>>

(* The borrower's ~Shm_session() begins: every borrowed object keeps the     *)
(* session alive through its release callback, so none is left.  Both task   *)
(* loops are stopped; what they have not run yet they never will.  The other *)
(* direction of the session may be in the middle of a notification.          *)
StopBorrower ==
  /\ bLife = "up"
  /\ \A s \in Slots : borrowed[s] = 0 /\ returning[s] = 0
  /\ bLife' \in {"ending", "blocked"}
  /\ toBorrower' = <<>>
  /\ UNCHANGED <<arenaVars, lenderVars, hosed, handles, returns, bArena,
                 bPools, borrowed, returning, bConnected>>

(* The session still listens to its own arena: a thread that makes a pool    *)
(* there locks the mutex and asks the lender.                                *)
BorrowerNotifies ==
  /\ bLife = "ending" /\ bConnected /\ ~hosed
  /\ bLife' = "blocked"
  /\ UNCHANGED <<arenaVars, lenderVars, travelVars, bArena, bPools, borrowed,
                 returning, bConnected>>

UnblockBorrower ==
  /\ bLife = "blocked"
  /\ bLife' = "ending"
  /\ UNCHANGED <<arenaVars, lenderVars, travelVars, bArena, bPools, borrowed,
                 returning, bConnected>>

(* That thread goes on when the lender's loops answer or the channel fails,  *)
BorrowerAnswered == (lLife = "up" \/ hosed) /\ UnblockBorrower

(* ... or when it has waited long enough.                                    *)
BorrowerTimedOut == CanTimeOut /\ UnblockBorrower

(* ~Shm_session() goes on: it waits for the mutex of its own arena to remove *)
(* the listener; then it deregisters what it has from the repository.        *)
CloseBorrower ==
  /\ bLife = "ending"
  /\ bLife' = "gone"
  /\ bConnected' = FALSE
  /\ bArena' = FALSE
  /\ bPools' = {}
  /\ UNCHANGED <<arenaVars, lenderVars, travelVars, borrowed, returning>>

-----------------------------------------------------------------------------

(* The channel fails: what has not reached a task loop yet is lost. *)
LoseInFlight ==
  /\ ~hosed
  /\ hosed' = TRUE
  /\ \E k \in 0 .. Len(toBorrower) : toBorrower' = SubSeq(toBorrower, 1, k)
  /\ returns' \in [Slots -> 0 .. MaxUse]
  /\ \A s \in Slots : returns'[s] <= returns[s]
  /\ reply' \in {reply, "none"}
  /\ UNCHANGED <<arenaVars, listener, attempts, todo, req, pinVars,
                 lConnected, lErr, lLife, handles, borrowerVars>>

(* The channel fails at any time. *)
Hose == CanHose /\ LoseInFlight

(* The channel is destroyed right after the session of either side. *)
PeerGone == ~(lOpen /\ bOpen) /\ LoseInFlight

Next ==
  \/ \E p \in Pools : CreatePool(p) \/ LendShmPool(p) \/ RemovePool(p)
  \/ \E s \in Slots : \/ Construct(s) \/ Release(s) \/ LendObject(s)
                      \/ ReceiveObjectReturn(s) \/ BorrowObject(s)
                      \/ BorrowObjectFails(s) \/ ReturnObject(s)
                      \/ SendReturn(s)
  \/ LendArena \/ LendArenaAccepted \/ LendShmPoolAccepted
  \/ RequestRefused \/ RequestFailed \/ RequestTimedOut
  \/ DisconnectLender \/ StopLender \/ CloseLender
  \/ ReceiveArena \/ ReceiveShmPool \/ ReceiveShmPoolRemoval
  \/ DisconnectBorrower \/ StopBorrower \/ BorrowerNotifies
  \/ BorrowerAnswered \/ BorrowerTimedOut \/ CloseBorrower
  \/ Hose \/ PeerGone

Spec == Init /\ [][Next]_vars

(* The serial loop runs what is posted to it, as do the threads of the       *)
(* parallel one; a started release runs to its end; a thread that was        *)
(* answered goes on; the channel of a session that is gone is closed.  A     *)
(* mutex that is free again and again is obtained.  Applications owe         *)
(* nothing, and no timeout is counted on.                                    *)
Fairness ==
  /\ WF_vars(ReceiveArena \/ ReceiveShmPool \/ ReceiveShmPoolRemoval)
  /\ \A s \in Slots : WF_vars(ReceiveObjectReturn(s)) /\ WF_vars(SendReturn(s))
  /\ WF_vars(\/ LendArenaAccepted \/ LendShmPoolAccepted \/ RequestRefused
             \/ RequestFailed \/ \E p \in Pools : LendShmPool(p))
  /\ WF_vars(BorrowerAnswered) /\ SF_vars(CloseBorrower)
  /\ WF_vars(PeerGone)

FairSpec == Spec /\ Fairness

-----------------------------------------------------------------------------
(* Properties. *)

(* Every variable keeps its type. *)
TypeOK ==
  /\ poolState \in [Pools -> {"absent", "creating", "live", "removed"}]
  /\ held \in SUBSET Slots
  /\ listener \in {"none", "requested", "added"}
  /\ attempts \in 0 .. MaxAttempts
  /\ todo \in SUBSET Pools
  /\ req \in Pools \cup {NoPool}
  /\ reply \in {"none", "ok", "fail"}
  /\ lPools \in SUBSET Pools
  /\ pins \in [Slots -> 0 .. MaxUse]
  /\ dropped \in SUBSET Pools /\ early \in SUBSET Slots
  /\ lConnected \in BOOLEAN /\ lErr \in BOOLEAN
  /\ hosed \in BOOLEAN
  /\ bArena \in BOOLEAN /\ bConnected \in BOOLEAN
  /\ lLife \in {"up", "ending", "gone"}
  /\ bLife \in {"up", "ending", "blocked", "gone"}
  /\ toBorrower \in Seq(Msg)
  /\ handles \in [Slots -> Nat]
  /\ returns \in [Slots -> Nat]
  /\ bPools \in SUBSET Pools
  /\ borrowed \in [Slots -> Nat]
  /\ returning \in [Slots -> Nat]

(* Lender_collection's use counts cover every reference that is in a handle, *)
(* borrowed or on its way back, whatever the channel loses: an object the    *)
(* borrower may still use is not freed, nor its slot reused, unless the      *)
(* session was closed or its pool deregistered with objects lent.            *)
Pinned ==
  \A s \in Slots : lOpen /\ PoolOf[s] \notin dropped => pins[s] >= Outstanding(s)

(* ... and while both sessions are up and connected the use counts exceed    *)
(* the references by nothing: every lent object can be freed again.  Not so  *)
(* for an object that lend_object() of another thread lent before the        *)
(* borrower answered LEND_POOL: a borrower that cannot find the pool yet     *)
(* gives up on the handle, and the lender never hears of it.                 *)
NoLeak ==
  \A s \in Slots :
    /\ lLife = "up" /\ bConnected /\ bOpen /\ ~hosed
    /\ PoolOf[s] \notin dropped /\ s \notin early
    => pins[s] = Outstanding(s)

(* A handle the borrower has not used yet can be borrowed: its pool is open, *)
(* whatever timed out, was refused or removed in between, unless it was lent *)
(* before its LEND_POOL was answered.                                        *)
HandleIsBorrowable ==
  \A s \in Slots : bOpen /\ handles[s] > 0 /\ s \notin early => PoolOf[s] \in bPools

(* lend_shm_pool() undoes a registration that failed and frees what another  *)
(* thread lent from the pool in the meantime.  The borrower has none of it   *)
(* in use, unless the session's owner hears of an error or the channel is    *)
(* gone, or the pool itself was removed with objects lent (CanForce).        *)
DroppedIsReported ==
  \A s \in Slots :
    borrowed[s] > 0 /\ PoolOf[s] \in dropped
      => lErr \/ hosed \/ poolState[PoolOf[s]] = "removed"

(* A REMOVE_POOL on its way finds the pool open and nothing of it in use, so *)
(* the borrower never refuses it (receive_shm_pool_removal() has no way to   *)
(* tell the lender).                                                         *)
RemovalIsAccepted ==
  \A i \in DOMAIN toBorrower :
    toBorrower[i].op = "REMOVE_POOL" /\ bOpen =>
      /\ toBorrower[i].pool \in bPools
      /\ \A s \in SlotsOf(toBorrower[i].pool) : Outstanding(s) = 0

(* A lent object that the application and the borrower have let go is freed  *)
(* by the lender's session, as long as both sessions live and are connected  *)
(* (and unless it was lent too early, see NoLeak).                           *)
ReturnedIsFreed ==
  \A s \in Slots :
    handles[s] = 0 /\ borrowed[s] = 0 /\ s \notin early
      ~> \/ handles[s] > 0 \/ borrowed[s] > 0 \/ pins[s] = 0
         \/ hosed \/ ~bConnected \/ lLife # "up" \/ ~bOpen

(* Both destructors have stopped their loops, and the borrower's cannot go   *)
(* on: a thread of its process waits for the lender with the mutex it needs. *)
EndsMeet == lLife = "ending" /\ bLife = "blocked"

(* A thread that notifies the session, and holds the arena's mutex for it,   *)
(* gets through: it is answered, or the borrower's destructor gets past its  *)
(* own arena's mutex and the channel closes.  Not so if the two destructors  *)
(* meet while both sides notify (SessionTeardown follows that deadlock to    *)
(* its end; only a timeout resolves it).                                     *)
NotifierFinishes == ~NotifierIdle ~> NotifierIdle \/ EndsMeet

(* The promise that lending makes (ObjectLease): seen from outside, objects  *)
(* are only constructed in slots nobody refers to and only freed when nobody *)
(* refers to them, except in pools dropped with objects lent and after       *)
(* ~Shm_session() of the lender.                                             *)
Lease == INSTANCE ObjectLease WITH
           live <- {s \in Slots : Alive(s)},
           refs <- [s \in Slots |-> Outstanding(s)],
           abandoned <- {s \in Slots : PoolOf[s] \in dropped \/ ~lOpen}

KeepsLease == Lease!Spec

(* shm_session.hpp on lend_object(): an empty blob "indicates session is     *)
(* hosed".  Stated here: once lend_arena() is done, an object of the arena   *)
(* can be lent unless the session is disconnected or an error was reported.  *)
EmptyBlobMeansHosed ==
  \A s \in held :
    /\ listener = "added" /\ NotifierIdle /\ lOpen
    /\ lConnected /\ ~lErr /\ ~hosed
    => PoolOf[s] \in lPools
=============================================================================
