-------------------------- MODULE BorrowerRepository --------------------------
(***************************************************************************)
(* The borrower process's Borrower_shm_pool_collection_repository, which   *)
(* all its sessions share, so that a pool lent through several sessions is *)
(* opened once.  Sessions come, receive collections and pools from their   *)
(* owner process, and are destroyed, each at its own pace: every call of   *)
(* the repository is atomic (m_owner_data_map_mutex), a handler of the     *)
(* serial loop touches its own session only, and ~Shm_session() makes one  *)
(* repository call after the other.                                        *)
(***************************************************************************)
EXTENDS Naturals, FiniteSets

CONSTANTS
  Sessions,      \* the Shm_sessions of this process
  Owners,        \* processes that lend
  Collections,   \* their collections
  Pools,         \* their SHM pools
  OwnerOf,       \* the owner at the other end of a session
  CreatorOf,     \* the owner of a collection
  CollectionOf,  \* the collection of a pool
  MaxRepeats     \* bound: repeated LEND_ARENA or LEND_POOL requests

ASSUME ConstantsAssumption ==
  /\ IsFiniteSet(Sessions)
  /\ OwnerOf \in [Sessions -> Owners]
  /\ CreatorOf \in [Collections -> Owners]
  /\ CollectionOf \in [Pools -> Collections]
  /\ MaxRepeats \in Nat

VARIABLES
  state,        \* of a session: "none", "up", "closing" (in its destructor), "gone"
  collections,  \* Shm_session_data: collections registered with a session
  pools,        \* Shm_session_data: pools registered with a session
  repeats,      \* repeated requests so far
  ownerUse,     \* m_owner_data_map: use count of an owner, 0 without an entry
  collUse,      \* Owner_data: use count of a collection, 0 without an entry
  collPools,    \* Collection_data: ids of the pools open in a collection
  poolUse,      \* Borrower_shm_pool_repository: use count of a pool
  open          \* pools that are opened and mapped

sessionVars == <<state, collections, pools, repeats>>
repoVars    == <<ownerUse, collUse, collPools, poolUse, open>>
vars        == <<sessionVars, repoVars>>

Init ==
  /\ state = [s \in Sessions |-> "none"]
  /\ collections = [s \in Sessions |-> {}]
  /\ pools = [s \in Sessions |-> {}]
  /\ repeats = 0
  /\ ownerUse = [o \in Owners |-> 0]
  /\ collUse = [c \in Collections |-> 0]
  /\ collPools = [c \in Collections |-> {}]
  /\ poolUse = [p \in Pools |-> 0]
  /\ open = {}

-----------------------------------------------------------------------------
(* The repository's operations. *)

RegisterOwner(o) == ownerUse' = [ownerUse EXCEPT ![o] = @ + 1]

(* Mutant: the owner's collections stay. *)
DeregisterOwnerOnly(o) ==
  /\ ownerUse' = [ownerUse EXCEPT ![o] = IF @ = 0 THEN 0 ELSE @ - 1]
  /\ UNCHANGED <<collUse, collPools, poolUse, open>>

(* The last use takes the owner's collections along. *)
DeregisterOwner(o) ==
  /\ ownerUse' = [ownerUse EXCEPT ![o] = IF @ = 0 THEN 0 ELSE @ - 1]
  /\ LET lost == {c \in Collections : CreatorOf[c] = o /\ ownerUse[o] <= 1}
     IN  /\ collUse' = [c \in Collections |-> IF c \in lost THEN 0 ELSE collUse[c]]
         /\ collPools' = [c \in Collections |-> IF c \in lost THEN {} ELSE collPools[c]]
  /\ UNCHANGED <<poolUse, open>>

RegisterCollection(c) ==
  collUse' = [collUse EXCEPT ![c] = IF ownerUse[CreatorOf[c]] = 0 THEN @ ELSE @ + 1]

DeregisterCollection(c) ==
  /\ collUse' = [collUse EXCEPT ![c] = IF @ = 0 THEN 0 ELSE @ - 1]
  /\ collPools' = [collPools EXCEPT ![c] = IF collUse[c] <= 1 THEN {} ELSE @]
  /\ UNCHANGED <<ownerUse, poolUse, open>>

(* Mutant: any use closes the pool. *)
DeregisteredAtOnce(p, ids, use, mapped) ==
  IF collUse[CollectionOf[p]] = 0 \/ p \notin ids \/ use = 0
    THEN <<ids, use, mapped>> ELSE <<ids \ {p}, 0, mapped \ {p}>>

(* What deregister_shm_pool(), with erase_or_decrement_use(), makes of       *)
(* <<collPools[c], poolUse[p], open>>: the last use closes the pool.         *)
Deregistered(p, ids, use, mapped) ==
  IF collUse[CollectionOf[p]] = 0 \/ p \notin ids \/ use = 0
    THEN <<ids, use, mapped>>
  ELSE IF use = 1 THEN <<ids \ {p}, 0, mapped \ {p}>>
  ELSE <<ids, use - 1, mapped>>

(* Mutant: a pool that is open is not counted. *)
RegisteredUncounted(p, ids, use, mapped, opens) ==
  IF collUse[CollectionOf[p]] = 0 THEN <<>>
  ELSE IF p \in ids THEN <<ids, use, mapped>>
  ELSE IF opens THEN <<ids \cup {p}, 1, mapped \cup {p}>> ELSE <<>>

(* What register_shm_pool() makes of them, or <<>> when it returns null:     *)
(* a pool some session uses is counted, another one is opened.               *)
Registered(p, ids, use, mapped, opens) ==
  IF collUse[CollectionOf[p]] = 0 THEN <<>>
  ELSE IF p \in ids
    THEN IF use = 0 THEN <<>> ELSE <<ids, use + 1, mapped>>
  ELSE IF opens THEN <<ids \cup {p}, 1, mapped \cup {p}>> ELSE <<>>

(* The pool tables become `tables`. *)
SetPool(p, tables) ==
  /\ collPools' = [collPools EXCEPT ![CollectionOf[p]] = tables[1]]
  /\ poolUse' = [poolUse EXCEPT ![p] = tables[2]]
  /\ open' = tables[3]
  /\ UNCHANGED <<ownerUse, collUse>>

DeregisterShmPool(p) ==
  SetPool(p, Deregistered(p, collPools[CollectionOf[p]], poolUse[p], open))

-----------------------------------------------------------------------------
(* The sessions. *)

(* Shm_session's constructor. *)
Start(s) ==
  /\ state[s] = "none"
  /\ state' = [state EXCEPT ![s] = "up"]
  /\ RegisterOwner(OwnerOf[s])
  /\ UNCHANGED <<collections, pools, repeats, collUse, collPools, poolUse, open>>

(* A request for something the session has is a repetition. *)
Repeats(known) == repeats' = IF known THEN repeats + 1 ELSE repeats

(* receive_arena(): the repository counts the collection also when the       *)
(* session has it already and the request is refused.                        *)
ReceiveArena(s, c) ==
  /\ state[s] = "up" /\ CreatorOf[c] = OwnerOf[s]
  /\ repeats < MaxRepeats \/ c \notin collections[s]
  /\ Repeats(c \in collections[s])
  /\ RegisterCollection(c)
  /\ collections' = [collections EXCEPT ![s] = @ \cup {c}]
  /\ UNCHANGED <<state, pools, ownerUse, collPools, poolUse, open>>

(* receive_shm_pool(): undone in the repository when the session has the     *)
(* pool already.  LEND_ARENA was answered before the lender sends this.      *)
ReceiveShmPool(s, p) ==
  LET c == CollectionOf[p] IN
  /\ state[s] = "up" /\ c \in collections[s]
  /\ repeats < MaxRepeats \/ p \notin pools[s]
  /\ Repeats(p \in pools[s])
  /\ \E opens \in BOOLEAN :
       LET t == Registered(p, collPools[c], poolUse[p], open, opens) IN
       IF t = <<>>
         THEN UNCHANGED <<pools, repoVars>>
       ELSE IF p \in pools[s]
         THEN SetPool(p, Deregistered(p, t[1], t[2], t[3])) /\ UNCHANGED pools
       ELSE SetPool(p, t) /\ pools' = [pools EXCEPT ![s] = @ \cup {p}]
  /\ UNCHANGED <<state, collections>>

(* receive_shm_pool_removal(). *)
ReceiveShmPoolRemoval(s, p) ==
  /\ state[s] = "up" /\ p \in pools[s]
  /\ pools' = [pools EXCEPT ![s] = @ \ {p}]
  /\ DeregisterShmPool(p)
  /\ UNCHANGED <<state, collections, repeats>>

(* ~Shm_session() stops the task loops; from here on it works through the    *)
(* session's pools and collections.                                          *)
BeginClose(s) ==
  /\ state[s] = "up"
  /\ state' = [state EXCEPT ![s] = "closing"]
  /\ UNCHANGED <<collections, pools, repeats, repoVars>>

ClosePool(s, p) ==
  /\ state[s] = "closing" /\ p \in pools[s]
  /\ pools' = [pools EXCEPT ![s] = @ \ {p}]
  /\ DeregisterShmPool(p)
  /\ UNCHANGED <<state, collections, repeats>>

CloseCollection(s, c) ==
  /\ state[s] = "closing" /\ c \in collections[s]
  /\ \A p \in pools[s] : CollectionOf[p] # c
  /\ collections' = [collections EXCEPT ![s] = @ \ {c}]
  /\ DeregisterCollection(c)
  /\ UNCHANGED <<state, pools, repeats>>

FinishClose(s) ==
  /\ state[s] = "closing" /\ collections[s] = {}
  /\ state' = [state EXCEPT ![s] = "gone"]
  /\ DeregisterOwner(OwnerOf[s])
  /\ UNCHANGED <<collections, pools, repeats>>

Next ==
  \E s \in Sessions :
    \/ Start(s) \/ BeginClose(s) \/ FinishClose(s)
    \/ \E c \in Collections : ReceiveArena(s, c) \/ CloseCollection(s, c)
    \/ \E p \in Pools : \/ ReceiveShmPool(s, p) \/ ReceiveShmPoolRemoval(s, p)
                        \/ ClosePool(s, p)

Spec == Init /\ [][Next]_vars

-----------------------------------------------------------------------------
(* Properties. *)

Active(s) == state[s] \in {"up", "closing"}

(* A pool stays open while any session has it, whatever the destructors of   *)
(* the others are in the middle of.                                          *)
OpenWhileUsed == \A s \in Sessions : pools[s] \subseteq open

(* A pool's use count is the number of sessions that have it: neither a      *)
(* repeated request nor a refused one shifts it.                             *)
PoolsCounted ==
  \A p \in Pools : poolUse[p] = Cardinality({s \in Sessions : p \in pools[s]})

(* When the last session with an owner is gone, nothing of that owner is     *)
(* left: no entry, no use count, no open pool.  Repeated requests leave a    *)
(* collection's use count too high, and only the owner's entry, going with   *)
(* its last session, clears that.                                            *)
NothingLeft ==
  \A o \in Owners :
    (\A s \in Sessions : OwnerOf[s] = o => ~Active(s)) =>
      /\ ownerUse[o] = 0
      /\ \A c \in Collections : CreatorOf[c] = o => collUse[c] = 0 /\ collPools[c] = {}
      /\ \A p \in open : CreatorOf[CollectionOf[p]] # o
=============================================================================
