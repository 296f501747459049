---------------------- MODULE BorrowerRepository_proofs ----------------------
(* Theorems about BorrowerRepository, for any finite set of sessions and any *)
(* owners, collections and pools.                                            *)
EXTENDS BorrowerRepository, TLAPS, FiniteSetTheorems

(* The tables' types. *)
Typed ==
  /\ DOMAIN state = Sessions
  /\ collections \in [Sessions -> SUBSET Collections]
  /\ pools \in [Sessions -> SUBSET Pools]
  /\ ownerUse \in [Owners -> Nat]
  /\ collUse \in [Collections -> Nat]
  /\ collPools \in [Collections -> SUBSET Pools]
  /\ poolUse \in [Pools -> Nat]

(* The sessions that account for a use count. *)
Users(p) == {s \in Sessions : p \in pools[s]}
Takers(c) == {s \in Sessions : c \in collections[s]}
Clients(o) == {s \in Sessions : OwnerOf[s] = o /\ Active(s)}

(* What a session has belongs together: a pool with its collection, a        *)
(* collection with the owner at the other end, all while the session lives.  *)
SessionsOK ==
  \A s \in Sessions :
    /\ \A p \in pools[s] : CollectionOf[p] \in collections[s]
    /\ \A c \in collections[s] : Active(s) /\ CreatorOf[c] = OwnerOf[s]

(* Use counts: exact for owners and pools; a collection's may be too high,   *)
(* but not without its owner's entry.                                        *)
CountsOK ==
  /\ \A o \in Owners : ownerUse[o] = Cardinality(Clients(o))
  /\ \A c \in Collections : collUse[c] >= Cardinality(Takers(c))
  /\ \A c \in Collections : collUse[c] > 0 => ownerUse[CreatorOf[c]] > 0
  /\ \A p \in Pools : poolUse[p] = Cardinality(Users(p))

(* The pool tables agree: a pool with a use is open and listed with its      *)
(* collection, and no other is.                                              *)
PoolsOK ==
  /\ open \subseteq Pools
  /\ \A p \in Pools : poolUse[p] > 0 <=> p \in open
  /\ \A p \in Pools, c \in Collections :
       p \in collPools[c] <=> c = CollectionOf[p] /\ poolUse[p] > 0

(* The inductive invariant. *)
RepoInv == Typed /\ SessionsOK /\ CountsOK /\ PoolsOK

(* A set of sessions has a size, and what one session more or less makes of  *)
(* it.                                                                       *)
LEMMA SessionCount ==
  ASSUME NEW S \in SUBSET Sessions
  PROVE  /\ IsFiniteSet(S) /\ Cardinality(S) \in Nat
         /\ Cardinality(S) = 0 <=> S = {}
         /\ \A s \in S : Cardinality(S \ {s}) = Cardinality(S) - 1
         /\ \A s \in Sessions \ S : Cardinality(S \cup {s}) = Cardinality(S) + 1
<1>1. IsFiniteSet(S)
  BY ConstantsAssumption, FS_Subset
<1>2. Cardinality(S) \in Nat
  BY <1>1, FS_CardinalityType
<1>3. Cardinality(S) = 0 <=> S = {}
  BY <1>1, FS_EmptySet
<1>4. \A s \in S : Cardinality(S \ {s}) = Cardinality(S) - 1
  BY <1>1, FS_RemoveElement
<1>5. \A s \in Sessions \ S : Cardinality(S \cup {s}) = Cardinality(S) + 1
  BY <1>1, FS_AddElement
<1> QED
  BY <1>1, <1>2, <1>3, <1>4, <1>5

(* A session that is the only one left to be counted. *)
LEMMA LastSession ==
  ASSUME NEW S \in SUBSET Sessions, NEW s \in S, Cardinality(S) <= 1
  PROVE  S = {s}
<1>1. Cardinality(S) \in Nat /\ (Cardinality(S) = 0 <=> S = {})
  BY SessionCount
<1>2. Cardinality(S) = 1 /\ IsFiniteSet(S)
  BY <1>1, SessionCount
<1>3. \E x : S = {x}
  BY <1>2, FS_Singleton
<1> QED
  BY <1>3

(* A pool that a session has is counted, open and listed, and so are its     *)
(* collection and owner.                                                     *)
LEMMA HasPool ==
  ASSUME RepoInv, NEW s \in Sessions, NEW p \in pools[s]
  PROVE  /\ p \in Pools /\ poolUse[p] > 0 /\ p \in open
         /\ p \in collPools[CollectionOf[p]] /\ collUse[CollectionOf[p]] > 0
<1>1. p \in Pools /\ CollectionOf[p] \in Collections /\ CollectionOf[p] \in collections[s]
  BY ConstantsAssumption DEF RepoInv, Typed, SessionsOK
<1>2. poolUse[p] > 0
  <2>1. Users(p) \in SUBSET Sessions /\ s \in Users(p)
    BY DEF Users
  <2>2. Cardinality(Users(p)) \in Nat /\ Cardinality(Users(p)) # 0
    BY <2>1, SessionCount
  <2> QED
    BY <1>1, <2>2 DEF RepoInv, CountsOK
<1>3. collUse[CollectionOf[p]] > 0
  <2>1. Takers(CollectionOf[p]) \in SUBSET Sessions /\ s \in Takers(CollectionOf[p])
    BY <1>1 DEF Takers
  <2>2. Cardinality(Takers(CollectionOf[p])) \in Nat /\ Cardinality(Takers(CollectionOf[p])) # 0
    BY <2>1, SessionCount
  <2>3. collUse[CollectionOf[p]] \in Nat
    BY <1>1 DEF RepoInv, Typed
  <2> QED
    BY <1>1, <2>2, <2>3 DEF RepoInv, CountsOK
<1> QED
  BY <1>1, <1>2, <1>3 DEF RepoInv, PoolsOK

(* deregister_shm_pool() of a pool that a session has: one use less, and the *)
(* last one closes it.                                                       *)
LEMMA DeregisterEffect ==
  ASSUME RepoInv, NEW s \in Sessions, NEW p \in pools[s], DeregisterShmPool(p)
  PROVE  /\ UNCHANGED <<ownerUse, collUse>>
         /\ poolUse' = [poolUse EXCEPT ![p] = @ - 1]
         /\ poolUse[p] = 1 => /\ open' = open \ {p}
                              /\ collPools' = [collPools EXCEPT ![CollectionOf[p]] = @ \ {p}]
         /\ poolUse[p] # 1 => UNCHANGED <<open, collPools>>
<1> DEFINE c == CollectionOf[p]
           ids == collPools[c]
           t == Deregistered(p, ids, poolUse[p], open)
<1>1. /\ p \in Pools /\ poolUse[p] > 0 /\ p \in ids /\ collUse[c] > 0
  BY HasPool
<1>2. c \in Collections /\ poolUse[p] \in Nat /\ collUse[c] \in Nat
  BY <1>1, ConstantsAssumption DEF RepoInv, Typed
<1>3. t = IF poolUse[p] = 1 THEN <<ids \ {p}, 0, open \ {p}>> ELSE <<ids, poolUse[p] - 1, open>>
  BY <1>1, <1>2 DEF Deregistered
<1>4. /\ UNCHANGED <<ownerUse, collUse>>
      /\ collPools' = [collPools EXCEPT ![c] = t[1]]
      /\ poolUse' = [poolUse EXCEPT ![p] = t[2]]
      /\ open' = t[3]
  BY DEF DeregisterShmPool, SetPool
<1>5. CASE poolUse[p] = 1
  <2>1. t[1] = ids \ {p} /\ t[2] = poolUse[p] - 1 /\ t[3] = open \ {p}
    BY <1>3, <1>5
  <2> HIDE DEF t
  <2> QED
    BY <1>4, <1>5, <2>1
<1>6. CASE poolUse[p] # 1
  <2>1. t[1] = ids /\ t[2] = poolUse[p] - 1 /\ t[3] = open
    BY <1>3, <1>6
  <2> HIDE DEF t
  <2>2. collPools' = collPools
    BY <1>2, <1>4, <2>1 DEF RepoInv, Typed
  <2> QED
    BY <1>4, <1>6, <2>1, <2>2
<1> QED
  BY <1>5, <1>6

(* A session gives up a pool. *)
LEMMA GiveUpPool ==
  ASSUME RepoInv, NEW s \in Sessions, NEW p \in pools[s], DeregisterShmPool(p),
         pools' = [pools EXCEPT ![s] = @ \ {p}], UNCHANGED <<state, collections>>
  PROVE  RepoInv'
<1>1. /\ p \in Pools /\ poolUse[p] > 0 /\ CollectionOf[p] \in Collections
      /\ poolUse[p] \in Nat
  BY HasPool, ConstantsAssumption DEF RepoInv, Typed
<1>2. /\ UNCHANGED <<ownerUse, collUse>>
      /\ poolUse' = [poolUse EXCEPT ![p] = @ - 1]
      /\ poolUse[p] = 1 => /\ open' = open \ {p}
                           /\ collPools' = [collPools EXCEPT ![CollectionOf[p]] = @ \ {p}]
      /\ poolUse[p] # 1 => UNCHANGED <<open, collPools>>
  BY DeregisterEffect
<1>3. \A t \in Sessions : pools'[t] = IF t = s THEN pools[t] \ {p} ELSE pools[t]
  BY DEF RepoInv, Typed
<1>4. /\ \A q \in Pools : q # p => poolUse'[q] = poolUse[q]
      /\ poolUse'[p] = poolUse[p] - 1
  BY <1>1, <1>2 DEF RepoInv, Typed
<1>5. Typed'
  <2>1. poolUse' \in [Pools -> Nat]
    BY <1>1, <1>2 DEF RepoInv, Typed
  <2>2. collPools' \in [Collections -> SUBSET Pools]
    BY <1>1, <1>2 DEF RepoInv, Typed
  <2>3. pools' \in [Sessions -> SUBSET Pools]
    BY DEF RepoInv, Typed
  <2> QED
    BY <1>2, <2>1, <2>2, <2>3 DEF RepoInv, Typed
<1>6. SessionsOK'
  BY <1>3 DEF RepoInv, SessionsOK, Active
<1>7. CountsOK'
  <2>1. ASSUME NEW q \in Pools PROVE poolUse'[q] = Cardinality(Users(q)')
    <3>1. CASE q = p
      <4>1. Users(p)' = Users(p) \ {s} /\ s \in Users(p) /\ Users(p) \in SUBSET Sessions
        BY <1>3 DEF Users
      <4>2. Cardinality(Users(p)') = Cardinality(Users(p)) - 1
        BY <4>1, SessionCount
      <4> QED
        BY <1>1, <1>4, <3>1, <4>2 DEF RepoInv, CountsOK
    <3>2. CASE q # p
      <4>1. Users(q)' = Users(q)
        BY <1>3, <3>2 DEF Users
      <4> QED
        BY <1>4, <3>2, <4>1 DEF RepoInv, CountsOK
    <3> QED
      BY <3>1, <3>2
  <2>2. /\ \A o \in Owners : Clients(o)' = Clients(o)
        /\ \A c \in Collections : Takers(c)' = Takers(c)
    BY DEF Clients, Takers, Active
  <2> QED
    BY <1>2, <2>1, <2>2 DEF RepoInv, CountsOK
<1>8. PoolsOK'
  <2>1. CASE poolUse[p] = 1
    <3>1. /\ \A q \in Pools : poolUse'[q] > 0 <=> poolUse[q] > 0 /\ q # p
      BY <1>4, <2>1
    <3>2. \A q \in Pools, c \in Collections :
            q \in collPools'[c] <=> q \in collPools[c] /\ ~(q = p /\ c = CollectionOf[p])
      BY <1>1, <1>2, <2>1 DEF RepoInv, Typed
    <3> QED
      BY <1>2, <2>1, <3>1, <3>2 DEF RepoInv, PoolsOK
  <2>2. CASE poolUse[p] # 1
    <3>1. \A q \in Pools : poolUse'[q] > 0 <=> poolUse[q] > 0
      BY <1>1, <1>4, <2>2
    <3> QED
      BY <1>2, <2>2, <3>1 DEF RepoInv, PoolsOK
  <2> QED
    BY <2>1, <2>2
<1> QED
  BY <1>5, <1>6, <1>7, <1>8 DEF RepoInv

(* A session starts, or begins to end. *)
LEMMA StartStep ==
  ASSUME RepoInv, NEW s \in Sessions, Start(s) \/ BeginClose(s)
  PROVE  RepoInv'
<1>1. UNCHANGED <<collections, pools, collUse, collPools, poolUse, open>>
  BY DEF Start, BeginClose, repoVars
<1>2. /\ DOMAIN state' = Sessions /\ state'[s] \in {"up", "closing"}
      /\ \A t \in Sessions : t # s => state'[t] = state[t]
  BY DEF Start, BeginClose, RepoInv, Typed
<1>3. \A t \in Sessions : Active(t)' <=> Active(t) \/ t = s
  BY <1>2 DEF Active
<1>4. /\ OwnerOf[s] \in Owners
      /\ \A o \in Owners : ownerUse[o] \in Nat /\ ownerUse[o] = Cardinality(Clients(o))
  BY ConstantsAssumption DEF RepoInv, Typed, CountsOK
<1>5. ownerUse' \in [Owners -> Nat]
  BY <1>4 DEF Start, BeginClose, RegisterOwner, repoVars, RepoInv, Typed
<1>6. Typed'
  BY <1>1, <1>2, <1>5 DEF RepoInv, Typed
<1>7. SessionsOK'
  BY <1>1, <1>3 DEF RepoInv, SessionsOK
<1>8. ASSUME NEW o \in Owners PROVE ownerUse'[o] = Cardinality(Clients(o)') /\ ownerUse'[o] >= ownerUse[o]
  <2>1. CASE Start(s) /\ OwnerOf[s] = o
    <3>1. Clients(o)' = Clients(o) \cup {s} /\ s \notin Clients(o) /\ Clients(o) \in SUBSET Sessions
      BY <1>3, <2>1 DEF Clients, Start, Active
    <3>2. Cardinality(Clients(o)') = Cardinality(Clients(o)) + 1
      BY <3>1, SessionCount
    <3>3. ownerUse'[o] = ownerUse[o] + 1
      BY <2>1 DEF Start, RegisterOwner, RepoInv, Typed
    <3> QED
      BY <1>4, <3>2, <3>3
  <2>2. CASE Start(s) /\ OwnerOf[s] # o
    <3>1. Clients(o)' = Clients(o)
      BY <1>3, <2>2 DEF Clients
    <3>2. ownerUse'[o] = ownerUse[o]
      BY <2>2 DEF Start, RegisterOwner, RepoInv, Typed
    <3> QED
      BY <1>4, <3>1, <3>2
  <2>3. CASE BeginClose(s)
    <3>1. Active(s) /\ ownerUse' = ownerUse
      BY <2>3 DEF BeginClose, Active, repoVars
    <3>2. Clients(o)' = Clients(o)
      BY <1>3, <3>1 DEF Clients
    <3> QED
      BY <1>4, <3>1, <3>2
  <2> QED
    BY <2>1, <2>2, <2>3
<1>9. CountsOK'
  <2>1. /\ \A c \in Collections : Takers(c)' = Takers(c)
        /\ \A p \in Pools : Users(p)' = Users(p)
    BY <1>1 DEF Takers, Users
  <2>2. \A c \in Collections : CreatorOf[c] \in Owners
    BY ConstantsAssumption
  <2>3. \A o \in Owners : ownerUse[o] > 0 => ownerUse'[o] > 0
    BY <1>4, <1>5, <1>8
  <2> QED
    BY <1>1, <1>8, <2>1, <2>2, <2>3 DEF RepoInv, CountsOK
<1>10. PoolsOK'
  BY <1>1 DEF RepoInv, PoolsOK
<1> QED
  BY <1>6, <1>7, <1>9, <1>10 DEF RepoInv

(* receive_arena(): the collection is counted, perhaps once too often. *)
LEMMA ReceiveArenaStep ==
  ASSUME RepoInv, NEW s \in Sessions, NEW c \in Collections, ReceiveArena(s, c)
  PROVE  RepoInv'
<1>1. /\ state[s] = "up" /\ CreatorOf[c] = OwnerOf[s]
      /\ collUse' = [collUse EXCEPT ![c] = IF ownerUse[CreatorOf[c]] = 0 THEN @ ELSE @ + 1]
      /\ collections' = [collections EXCEPT ![s] = @ \cup {c}]
      /\ UNCHANGED <<state, pools, ownerUse, collPools, poolUse, open>>
  BY DEF ReceiveArena, RegisterCollection
<1>2. CreatorOf[c] \in Owners /\ Active(s)
  BY <1>1, ConstantsAssumption DEF Active
<1>3. ownerUse[CreatorOf[c]] > 0
  <2>1. s \in Clients(CreatorOf[c]) /\ Clients(CreatorOf[c]) \in SUBSET Sessions
    BY <1>1, <1>2 DEF Clients
  <2>2. Cardinality(Clients(CreatorOf[c])) \in Nat /\ Cardinality(Clients(CreatorOf[c])) # 0
    BY <2>1, SessionCount
  <2> QED
    BY <1>2, <2>2 DEF RepoInv, CountsOK
<1>4. /\ collUse'[c] = collUse[c] + 1 /\ collUse[c] \in Nat
      /\ \A d \in Collections : d # c => collUse'[d] = collUse[d]
      /\ collUse' \in [Collections -> Nat]
  BY <1>1, <1>3 DEF RepoInv, Typed
<1>5. \A t \in Sessions : collections'[t] = IF t = s THEN collections[t] \cup {c} ELSE collections[t]
  BY <1>1 DEF RepoInv, Typed
<1>6. Typed'
  BY <1>1, <1>4 DEF RepoInv, Typed
<1>7. SessionsOK'
  BY <1>1, <1>2, <1>5 DEF RepoInv, SessionsOK, Active
<1>8. CountsOK'
  <2>1. ASSUME NEW d \in Collections PROVE collUse'[d] >= Cardinality(Takers(d)')
    <3>1. CASE d # c
      <4>1. Takers(d)' = Takers(d)
        BY <1>5, <3>1 DEF Takers
      <4> QED
        BY <1>4, <3>1, <4>1 DEF RepoInv, CountsOK
    <3>2. CASE d = c
      <4>1. Takers(c)' = Takers(c) \cup {s} /\ Takers(c) \in SUBSET Sessions
        BY <1>5 DEF Takers
      <4>2. Cardinality(Takers(c)) \in Nat /\ Cardinality(Takers(c)') \in {Cardinality(Takers(c)), Cardinality(Takers(c)) + 1}
        <5>1. CASE s \in Takers(c)
          <6>1. Takers(c)' = Takers(c)
            BY <4>1, <5>1
          <6> QED
            BY <4>1, <6>1, SessionCount
        <5>2. CASE s \notin Takers(c)
          BY <4>1, <5>2, SessionCount
        <5> QED
          BY <5>1, <5>2
      <4> QED
        BY <1>4, <3>2, <4>2 DEF RepoInv, CountsOK
    <3> QED
      BY <3>1, <3>2
  <2>2. /\ \A o \in Owners : Clients(o)' = Clients(o)
        /\ \A p \in Pools : Users(p)' = Users(p)
    BY <1>1 DEF Clients, Users, Active
  <2> QED
    BY <1>1, <1>3, <1>4, <2>1, <2>2 DEF RepoInv, CountsOK
<1>9. PoolsOK'
  BY <1>1 DEF RepoInv, PoolsOK
<1> QED
  BY <1>6, <1>7, <1>8, <1>9 DEF RepoInv

(* receive_shm_pool() of a pool that is new to the session. *)
LEMMA NewPool ==
  ASSUME RepoInv, NEW s \in Sessions, NEW p \in Pools, p \notin pools[s],
         CollectionOf[p] \in collections[s],
         pools' = [pools EXCEPT ![s] = @ \cup {p}],
         UNCHANGED <<state, collections, ownerUse, collUse>>,
         poolUse' = [poolUse EXCEPT ![p] = @ + 1],
         open' = open \cup {p},
         collPools' = [collPools EXCEPT ![CollectionOf[p]] = @ \cup {p}]
  PROVE  RepoInv'
<1>1. CollectionOf[p] \in Collections /\ poolUse[p] \in Nat
  BY ConstantsAssumption DEF RepoInv, Typed
<1>2. \A t \in Sessions : pools'[t] = IF t = s THEN pools[t] \cup {p} ELSE pools[t]
  BY DEF RepoInv, Typed
<1>3. /\ \A q \in Pools : q # p => poolUse'[q] = poolUse[q]
      /\ poolUse'[p] = poolUse[p] + 1
  BY DEF RepoInv, Typed
<1>4. Typed'
  <2>1. poolUse' \in [Pools -> Nat]
    BY <1>1 DEF RepoInv, Typed
  <2>2. collPools' \in [Collections -> SUBSET Pools]
    BY <1>1 DEF RepoInv, Typed
  <2>3. pools' \in [Sessions -> SUBSET Pools]
    BY DEF RepoInv, Typed
  <2> QED
    BY <2>1, <2>2, <2>3 DEF RepoInv, Typed
<1>5. SessionsOK'
  BY <1>2 DEF RepoInv, SessionsOK, Active
<1>6. CountsOK'
  <2>1. ASSUME NEW q \in Pools PROVE poolUse'[q] = Cardinality(Users(q)')
    <3>1. CASE q = p
      <4>1. Users(p)' = Users(p) \cup {s} /\ s \in Sessions \ Users(p) /\ Users(p) \in SUBSET Sessions
        BY <1>2 DEF Users
      <4>2. Cardinality(Users(p)') = Cardinality(Users(p)) + 1
        BY <4>1, SessionCount
      <4> QED
        BY <1>3, <3>1, <4>2 DEF RepoInv, CountsOK
    <3>2. CASE q # p
      <4>1. Users(q)' = Users(q)
        BY <1>2, <3>2 DEF Users
      <4> QED
        BY <1>3, <3>2, <4>1 DEF RepoInv, CountsOK
    <3> QED
      BY <3>1, <3>2
  <2>2. /\ \A o \in Owners : Clients(o)' = Clients(o)
        /\ \A c \in Collections : Takers(c)' = Takers(c)
    BY DEF Clients, Takers, Active
  <2> QED
    BY <2>1, <2>2 DEF RepoInv, CountsOK
<1>7. PoolsOK'
  <2>1. \A q \in Pools : poolUse'[q] > 0 <=> poolUse[q] > 0 \/ q = p
    BY <1>1, <1>3
  <2>2. \A q \in Pools, c \in Collections :
          q \in collPools'[c] <=> q \in collPools[c] \/ (q = p /\ c = CollectionOf[p])
    BY <1>1 DEF RepoInv, Typed
  <2> QED
    BY <2>1, <2>2 DEF RepoInv, PoolsOK
<1> QED
  BY <1>4, <1>5, <1>6, <1>7 DEF RepoInv

(* receive_shm_pool(): what the repository did is undone exactly when the    *)
(* session has the pool already.                                             *)
LEMMA ReceiveShmPoolStep ==
  ASSUME RepoInv, NEW s \in Sessions, NEW p \in Pools, ReceiveShmPool(s, p)
  PROVE  RepoInv'
<1> DEFINE c == CollectionOf[p]
           ids == collPools[c]
           use == poolUse[p]
<1>1. c \in collections[s] /\ UNCHANGED <<state, collections>>
  BY DEF ReceiveShmPool
<1>2. c \in Collections /\ use \in Nat /\ collUse[c] \in Nat
  BY ConstantsAssumption DEF RepoInv, Typed
<1>3. collUse[c] # 0
  <2>1. s \in Takers(c) /\ Takers(c) \in SUBSET Sessions
    BY <1>1 DEF Takers
  <2>2. Cardinality(Takers(c)) \in Nat /\ Cardinality(Takers(c)) # 0
    BY <2>1, SessionCount
  <2> QED
    BY <1>2, <2>2 DEF RepoInv, CountsOK
<1>4. p \in ids <=> use > 0
  BY <1>2 DEF RepoInv, PoolsOK
<1>5. p \in ids <=> p \in open
  BY <1>2, <1>4 DEF RepoInv, PoolsOK
<1>6. PICK opens \in BOOLEAN :
        LET t == Registered(p, ids, use, open, opens) IN
        IF t = <<>> THEN UNCHANGED <<pools, repoVars>>
        ELSE IF p \in pools[s]
          THEN SetPool(p, Deregistered(p, t[1], t[2], t[3])) /\ UNCHANGED pools
        ELSE SetPool(p, t) /\ pools' = [pools EXCEPT ![s] = @ \cup {p}]
  BY DEF ReceiveShmPool
<1> DEFINE t == Registered(p, ids, use, open, opens)
<1>7. \/ t = <<>> /\ p \notin ids
      \/ t = <<ids, use + 1, open>> /\ p \in ids
      \/ t = <<ids \cup {p}, 1, open \cup {p}>> /\ p \notin ids
  BY <1>2, <1>3, <1>4 DEF Registered
<1>8. ASSUME UNCHANGED <<pools, repoVars>> PROVE RepoInv'
  BY <1>1, <1>8 DEF repoVars, RepoInv, Typed, SessionsOK, CountsOK, PoolsOK, Users, Takers, Clients, Active
<1>9. CASE t = <<>>
  BY <1>6, <1>8, <1>9
<1>10. CASE t # <<>> /\ p \in pools[s]
  <2>1. p \in ids
    BY <1>10, HasPool
  <2>2. t = <<ids, use + 1, open>>
    BY <1>7, <1>10, <2>1
  <2>3. Deregistered(p, t[1], t[2], t[3]) = <<ids, use, open>>
    BY <1>2, <1>3, <1>4, <2>1, <2>2 DEF Deregistered
  <2>4. SetPool(p, <<ids, use, open>>) /\ UNCHANGED pools
    BY <1>6, <1>10, <2>3
  <2>5. UNCHANGED repoVars
    BY <1>2, <2>4 DEF SetPool, repoVars, RepoInv, Typed
  <2> QED
    BY <1>8, <2>4, <2>5
<1>11. CASE t # <<>> /\ p \notin pools[s]
  <2>1. SetPool(p, t) /\ pools' = [pools EXCEPT ![s] = @ \cup {p}]
    BY <1>6, <1>11
  <2>2. t = <<ids \cup {p}, use + 1, open \cup {p}>>
    <3>1. CASE p \in ids
      <4>1. ids = ids \cup {p} /\ open = open \cup {p}
        BY <1>5, <3>1
      <4> QED
        BY <1>7, <1>11, <3>1, <4>1
    <3>2. CASE p \notin ids
      <4>1. use = 0
        BY <1>2, <1>4, <3>2
      <4> QED
        BY <1>7, <1>11, <3>2, <4>1
    <3> QED
      BY <3>1, <3>2
  <2> HIDE DEF t
  <2>3. /\ collPools' = [collPools EXCEPT ![c] = @ \cup {p}]
        /\ poolUse' = [poolUse EXCEPT ![p] = @ + 1]
        /\ open' = open \cup {p}
        /\ UNCHANGED <<ownerUse, collUse>>
    BY <2>1, <2>2 DEF SetPool
  <2> QED
    BY <1>1, <1>11, <2>1, <2>3, NewPool
<1> QED
  BY <1>9, <1>10, <1>11

(* A pool with a use is some session's. *)
LEMMA UsedPool ==
  ASSUME RepoInv, NEW p \in Pools, poolUse[p] > 0
  PROVE  \E t \in Sessions : p \in pools[t] /\ CollectionOf[p] \in collections[t]
<1>1. Users(p) \in SUBSET Sessions /\ Cardinality(Users(p)) # 0
  BY DEF RepoInv, CountsOK, Users
<1>2. Users(p) # {}
  BY <1>1, SessionCount
<1> QED
  BY <1>2 DEF Users, RepoInv, SessionsOK

(* The use count that DeregisterCollection() looks at is no less than the    *)
(* number of sessions with the collection: an entry that goes lists no pool. *)
LEMMA CloseCollectionStep ==
  ASSUME RepoInv, NEW s \in Sessions, NEW c \in Collections, CloseCollection(s, c)
  PROVE  RepoInv'
<1>1. /\ c \in collections[s] /\ \A p \in pools[s] : CollectionOf[p] # c
      /\ collections' = [collections EXCEPT ![s] = @ \ {c}]
      /\ collUse' = [collUse EXCEPT ![c] = IF @ = 0 THEN 0 ELSE @ - 1]
      /\ collPools' = [collPools EXCEPT ![c] = IF collUse[c] <= 1 THEN {} ELSE @]
      /\ UNCHANGED <<state, pools, ownerUse, poolUse, open>>
  BY DEF CloseCollection, DeregisterCollection
<1>2. /\ s \in Takers(c) /\ Takers(c) \in SUBSET Sessions /\ collUse[c] \in Nat
      /\ collUse[c] >= Cardinality(Takers(c))
  BY <1>1 DEF Takers, RepoInv, CountsOK, Typed
<1>3. Cardinality(Takers(c)) \in Nat /\ Cardinality(Takers(c)) # 0
  BY <1>2, SessionCount
<1>4. collPools' = collPools
  <2>1. ASSUME collUse[c] <= 1 PROVE collPools[c] = {}
    <3>1. Takers(c) = {s}
      BY <1>2, <1>3, <2>1, LastSession
    <3>2. ASSUME NEW p \in collPools[c] PROVE FALSE
      <4>1. p \in Pools /\ c = CollectionOf[p] /\ poolUse[p] > 0
        BY <3>2 DEF RepoInv, Typed, PoolsOK
      <4>2. PICK t \in Sessions : p \in pools[t] /\ c \in collections[t]
        BY <4>1, UsedPool
      <4>3. t = s
        BY <3>1, <4>2 DEF Takers
      <4> QED
        BY <1>1, <4>1, <4>2, <4>3
    <3> QED
      BY <3>2
  <2> QED
    BY <1>1, <2>1 DEF RepoInv, Typed
<1>5. /\ collUse'[c] = collUse[c] - 1 /\ collUse[c] > 0
      /\ \A d \in Collections : d # c => collUse'[d] = collUse[d]
      /\ collUse' \in [Collections -> Nat]
  BY <1>1, <1>2, <1>3 DEF RepoInv, Typed
<1>6. \A t \in Sessions : collections'[t] = IF t = s THEN collections[t] \ {c} ELSE collections[t]
  BY <1>1 DEF RepoInv, Typed
<1>7. Typed'
  BY <1>1, <1>4, <1>5 DEF RepoInv, Typed
<1>8. SessionsOK'
  BY <1>1, <1>6 DEF RepoInv, SessionsOK, Active
<1>9. CountsOK'
  <2>1. ASSUME NEW d \in Collections PROVE collUse'[d] >= Cardinality(Takers(d)')
    <3>1. CASE d # c
      <4>1. Takers(d)' = Takers(d)
        BY <1>6, <3>1 DEF Takers
      <4> QED
        BY <1>5, <3>1, <4>1 DEF RepoInv, CountsOK
    <3>2. CASE d = c
      <4>1. Takers(c)' = Takers(c) \ {s}
        BY <1>6 DEF Takers
      <4>2. Cardinality(Takers(c)') = Cardinality(Takers(c)) - 1
        BY <1>2, <4>1, SessionCount
      <4> QED
        BY <1>2, <1>3, <1>5, <3>2, <4>2
    <3> QED
      BY <3>1, <3>2
  <2>2. /\ \A o \in Owners : Clients(o)' = Clients(o)
        /\ \A p \in Pools : Users(p)' = Users(p)
    BY <1>1 DEF Clients, Users, Active
  <2>3. \A d \in Collections : collUse'[d] > 0 => collUse[d] > 0
    BY <1>5
  <2> QED
    BY <1>1, <2>1, <2>2, <2>3 DEF RepoInv, CountsOK
<1>10. PoolsOK'
  BY <1>1, <1>4 DEF RepoInv, PoolsOK
<1> QED
  BY <1>7, <1>8, <1>9, <1>10 DEF RepoInv

(* The last session of an owner takes the owner's collections along; by then *)
(* none of them lists a pool.                                                *)
LEMMA FinishCloseStep ==
  ASSUME RepoInv, NEW s \in Sessions, FinishClose(s)
  PROVE  RepoInv'
<1> DEFINE o == OwnerOf[s]
           lost == {c \in Collections : CreatorOf[c] = o /\ ownerUse[o] <= 1}
<1>1. /\ state[s] = "closing" /\ collections[s] = {}
      /\ state' = [state EXCEPT ![s] = "gone"]
      /\ ownerUse' = [ownerUse EXCEPT ![o] = IF @ = 0 THEN 0 ELSE @ - 1]
      /\ collUse' = [c \in Collections |-> IF c \in lost THEN 0 ELSE collUse[c]]
      /\ collPools' = [c \in Collections |-> IF c \in lost THEN {} ELSE collPools[c]]
      /\ UNCHANGED <<collections, pools, poolUse, open>>
  BY DEF FinishClose, DeregisterOwner
<1>2. /\ o \in Owners /\ ownerUse[o] \in Nat
      /\ s \in Clients(o) /\ Clients(o) \in SUBSET Sessions /\ ownerUse[o] = Cardinality(Clients(o))
  BY <1>1, ConstantsAssumption DEF RepoInv, Typed, CountsOK, Clients, Active
<1>3. Cardinality(Clients(o)) # 0
  BY <1>2, SessionCount
<1>4. ASSUME NEW c \in lost PROVE Takers(c) = {} /\ collPools[c] = {}
  <2>1. Clients(o) = {s}
    BY <1>2, <1>4, LastSession
  <2>2. ASSUME NEW t \in Sessions, c \in collections[t] PROVE FALSE
    <3>1. Active(t) /\ OwnerOf[t] = o
      BY <1>4, <2>2 DEF RepoInv, SessionsOK
    <3>2. t = s
      BY <2>1, <3>1 DEF Clients
    <3> QED
      BY <1>1, <2>2, <3>2
  <2>3. ASSUME NEW p \in collPools[c] PROVE FALSE
    <3>1. p \in Pools /\ c = CollectionOf[p] /\ poolUse[p] > 0
      BY <2>3 DEF RepoInv, Typed, PoolsOK
    <3>2. PICK t \in Sessions : c \in collections[t]
      BY <3>1, UsedPool
    <3> QED
      BY <2>2, <3>2
  <2> QED
    BY <2>2, <2>3 DEF Takers
<1> HIDE DEF lost
<1>5. collPools' = collPools
  BY <1>1, <1>4 DEF RepoInv, Typed
<1>6. /\ DOMAIN state' = Sessions /\ ~Active(s)' /\ Active(s)
      /\ \A t \in Sessions : t # s => state'[t] = state[t]
  BY <1>1 DEF RepoInv, Typed, Active
<1>7. \A t \in Sessions : t # s => (Active(t)' <=> Active(t))
  BY <1>6 DEF Active
<1>8. /\ ownerUse'[o] = ownerUse[o] - 1
      /\ \A x \in Owners : x # o => ownerUse'[x] = ownerUse[x]
      /\ ownerUse' \in [Owners -> Nat]
  BY <1>1, <1>2, <1>3 DEF RepoInv, Typed
<1>9. /\ \A c \in Collections : collUse'[c] = IF c \in lost THEN 0 ELSE collUse[c]
      /\ collUse' \in [Collections -> Nat]
  BY <1>1 DEF RepoInv, Typed
<1>10. Typed'
  BY <1>1, <1>5, <1>6, <1>8, <1>9 DEF RepoInv, Typed
<1>11. SessionsOK'
  BY <1>1, <1>7 DEF RepoInv, SessionsOK
<1>12. CountsOK'
  <2>1. ASSUME NEW x \in Owners PROVE ownerUse'[x] = Cardinality(Clients(x)')
    <3>1. CASE x = o
      <4>1. Clients(o)' = Clients(o) \ {s}
        BY <1>6, <1>7 DEF Clients
      <4>2. Cardinality(Clients(o)') = Cardinality(Clients(o)) - 1
        BY <1>2, <4>1, SessionCount
      <4> QED
        BY <1>2, <1>8, <3>1, <4>2
    <3>2. CASE x # o
      <4>1. Clients(x)' = Clients(x)
        BY <1>7, <3>2 DEF Clients
      <4> QED
        BY <1>8, <3>2, <4>1 DEF RepoInv, CountsOK
    <3> QED
      BY <3>1, <3>2
  <2>2. ASSUME NEW c \in Collections PROVE collUse'[c] >= Cardinality(Takers(c)')
    <3>1. Takers(c)' = Takers(c)
      BY <1>1 DEF Takers
    <3>2. CASE c \in lost
      <4>1. Cardinality(Takers(c)) = 0
        BY <1>4, <3>2, FS_EmptySet
      <4> QED
        BY <1>9, <3>1, <3>2, <4>1
    <3>3. CASE c \notin lost
      BY <1>9, <3>1, <3>3 DEF RepoInv, CountsOK
    <3> QED
      BY <3>2, <3>3
  <2>3. ASSUME NEW c \in Collections, collUse'[c] > 0 PROVE ownerUse'[CreatorOf[c]] > 0
    <3>1. c \notin lost /\ collUse[c] > 0
      BY <1>9, <2>3
    <3>2. CreatorOf[c] \in Owners /\ ownerUse[CreatorOf[c]] > 0
      BY <3>1, ConstantsAssumption DEF RepoInv, CountsOK
    <3>3. CASE CreatorOf[c] = o
      BY <1>2, <1>8, <3>1, <3>3 DEF lost
    <3>4. CASE CreatorOf[c] # o
      BY <1>8, <3>2, <3>4
    <3> QED
      BY <3>3, <3>4
  <2>4. \A p \in Pools : Users(p)' = Users(p)
    BY <1>1 DEF Users
  <2> QED
    BY <1>1, <2>1, <2>2, <2>3, <2>4 DEF RepoInv, CountsOK
<1>13. PoolsOK'
  BY <1>1, <1>5 DEF RepoInv, PoolsOK
<1> QED
  BY <1>10, <1>11, <1>12, <1>13 DEF RepoInv

(* The inductive invariant holds in every state. *)
LEMMA RepoInvAlways == Spec => []RepoInv
<1>1. Init => RepoInv
  <2> SUFFICES ASSUME Init PROVE RepoInv
    OBVIOUS
  <2>1. Typed /\ SessionsOK /\ PoolsOK
    BY DEF Init, Typed, SessionsOK, PoolsOK
  <2>2. /\ \A o \in Owners : Clients(o) = {}
        /\ \A c \in Collections : Takers(c) = {}
        /\ \A p \in Pools : Users(p) = {}
    BY DEF Init, Clients, Takers, Users, Active
  <2>3. CountsOK
    <3>1. Cardinality({}) = 0
      BY FS_EmptySet
    <3>2. \A o \in Owners : ownerUse[o] = 0
      BY DEF Init
    <3>3. \A c \in Collections : collUse[c] = 0
      BY DEF Init
    <3>4. \A p \in Pools : poolUse[p] = 0
      BY DEF Init
    <3>5. \A o \in Owners : ownerUse[o] = Cardinality(Clients(o))
      BY <2>2, <3>1, <3>2
    <3>6. \A c \in Collections : collUse[c] >= Cardinality(Takers(c))
      BY <2>2, <3>1, <3>3
    <3>7. \A p \in Pools : poolUse[p] = Cardinality(Users(p))
      BY <2>2, <3>1, <3>4
    <3> QED
      BY <3>3, <3>5, <3>6, <3>7 DEF CountsOK
  <2> QED
    BY <2>1, <2>3 DEF RepoInv
<1>2. RepoInv /\ [Next]_vars => RepoInv'
  <2> SUFFICES ASSUME RepoInv, [Next]_vars PROVE RepoInv'
    OBVIOUS
  <2>1. ASSUME NEW s \in Sessions, NEW p \in Pools, ReceiveShmPoolRemoval(s, p) \/ ClosePool(s, p)
        PROVE  RepoInv'
    BY <2>1, GiveUpPool DEF ReceiveShmPoolRemoval, ClosePool
  <2>2. CASE UNCHANGED vars
    BY <2>2 DEF vars, sessionVars, repoVars, RepoInv, Typed, SessionsOK, CountsOK, PoolsOK,
                Users, Takers, Clients, Active
  <2> QED
    BY <2>1, <2>2, StartStep, FinishCloseStep, ReceiveArenaStep, CloseCollectionStep,
       ReceiveShmPoolStep DEF Next
<1> QED
  BY <1>1, <1>2, PTL DEF Spec

(* A pool stays open while any session has it, whatever the destructors of   *)
(* the others are in the middle of.                                          *)
THEOREM AlwaysOpenWhileUsed == Spec => []OpenWhileUsed
<1>1. RepoInv => OpenWhileUsed
  BY HasPool DEF OpenWhileUsed
<1> QED
  BY <1>1, RepoInvAlways, PTL

(* A pool's use count is the number of sessions that have it: repeated and   *)
(* refused requests do not shift it.                                         *)
THEOREM PoolsAlwaysCounted == Spec => []PoolsCounted
<1>1. RepoInv => PoolsCounted
  BY DEF RepoInv, CountsOK, PoolsCounted, Users
<1> QED
  BY <1>1, RepoInvAlways, PTL

(* When the last session with an owner is gone nothing of that owner is      *)
(* left, although repeated requests leave use counts that are too high.      *)
THEOREM NothingIsLeft == Spec => []NothingLeft
<1>1. RepoInv => NothingLeft
  <2> SUFFICES ASSUME RepoInv, NEW o \in Owners, \A s \in Sessions : OwnerOf[s] = o => ~Active(s)
               PROVE  /\ ownerUse[o] = 0
                      /\ \A c \in Collections : CreatorOf[c] = o => collUse[c] = 0 /\ collPools[c] = {}
                      /\ \A p \in open : CreatorOf[CollectionOf[p]] # o
    BY DEF NothingLeft
  <2>1. ownerUse[o] = 0
    <3>1. Clients(o) = {}
      BY DEF Clients
    <3> QED
      BY <3>1, FS_EmptySet DEF RepoInv, CountsOK
  <2>2. ASSUME NEW p \in Pools, poolUse[p] > 0 PROVE CreatorOf[CollectionOf[p]] # o
    BY <2>2, UsedPool DEF RepoInv, SessionsOK
  <2>3. ASSUME NEW c \in Collections, CreatorOf[c] = o PROVE collUse[c] = 0 /\ collPools[c] = {}
    <3>1. collUse[c] = 0
      BY <2>1, <2>3 DEF RepoInv, CountsOK, Typed
    <3>2. ASSUME NEW p \in collPools[c] PROVE FALSE
      <4>1. p \in Pools /\ c = CollectionOf[p] /\ poolUse[p] > 0
        BY <3>2 DEF RepoInv, Typed, PoolsOK
      <4> QED
        BY <2>2, <2>3, <4>1
    <3> QED
      BY <3>1, <3>2
  <2>4. \A p \in open : CreatorOf[CollectionOf[p]] # o
    BY <2>2 DEF RepoInv, PoolsOK
  <2> QED
    BY <2>1, <2>3, <2>4
<1> QED
  BY <1>1, RepoInvAlways, PTL
====
