---------------------------- MODULE ThreadCache ----------------------------
(***************************************************************************)
(* Thread caches of Shm_pool_collection: which references keep a cache and *)
(* its collection alive, and which memory comes out of it.                 *)
(*                                                                         *)
(* A thread has a map from arena ids to Thread_cache objects, each with a  *)
(* jemalloc cache of its own.  The objects refer to their collection, and  *)
(* the handles of constructed objects refer to them, so caches outlive the *)
(* thread and the application's reference to the collection.  jemalloc     *)
(* gives the ids of destroyed arenas and caches out again.                 *)
(***************************************************************************)
EXTENDS Naturals, FiniteSets

CONSTANTS
  Collections,  \* Shm_pool_collection objects (each is created once)
  Threads,
  Blocks,       \* pieces of memory that jemalloc hands out
  MaxArenas,    \* bound: jemalloc's arena ids
  MaxCaches,    \* bound: jemalloc's cache ids; Thread_cache objects have their names
  ArenasPer,    \* argument of start()
  CanOverlap,   \* whether threads release handles while a cache is in use
  None

ArenaIds == 1..MaxArenas
CacheIds == 1..MaxCaches

ASSUME ConstantsAssumption ==
  /\ MaxArenas \in Nat /\ MaxCaches \in Nat
  /\ ArenasPer \in Nat \ {0}
  /\ CanOverlap \in BOOLEAN
  /\ None \notin Collections \cup CacheIds \cup ArenaIds

NoBlock == [st |-> "free", home |-> None, owner |-> None, by |-> None]
Used(h, c, k) == [st |-> "used", home |-> h, owner |-> c, by |-> k]
Cached(h, k) == [st |-> "cached", home |-> h, owner |-> None, by |-> k]
Lost(h) == [st |-> "lost", home |-> h, owner |-> None, by |-> None]

NoCache == [owner |-> None, arena |-> None]

Idle == [op |-> "idle", owner |-> None, arena |-> None, by |-> None, block |-> None]

VARIABLES
  state,    \* collection -> "none", "starting", "live", "dead"
  arenas,   \* collection -> m_arenas, the ones that are not destroyed yet
  held,     \* collections the application has a shared_ptr to
  alive,    \* threads that run
  map,      \* thread -> arena id -> m_thread_cache_map
  cache,    \* Thread_cache objects, named by their jemalloc cache
  jemalloc, \* jemalloc's explicit caches
  block,    \* what each block is used for; by: the Thread_cache of its handle
  pc        \* thread -> the operation it is in

vars == <<state, arenas, held, alive, map, cache, jemalloc, block, pc>>

Init ==
  /\ state = [c \in Collections |-> "none"]
  /\ arenas = [c \in Collections |-> {}]
  /\ held = {}
  /\ alive = Threads
  /\ map = [t \in Threads |-> [a \in ArenaIds |-> None]]
  /\ cache = [k \in CacheIds |-> NoCache]
  /\ jemalloc = {}
  /\ block = [b \in Blocks |-> NoBlock]
  /\ pc = [t \in Threads |-> Idle]

-----------------------------------------------------------------------------
(* shared_ptr. *)

(* Thread_cache objects that a thread's map, a handle or a local variable of *)
(* construct_in_arena() refers to.                                           *)
CacheReferenced(k, m, bl, p) ==
  \/ \E t \in Threads, a \in ArenaIds : m[t][a] = k
  \/ \E b \in Blocks : bl[b].st = "used" /\ bl[b].by = k
  \/ \E t \in Threads : p[t].by = k

ReferencedWeakly(c) ==   \* mutant: Thread_cache does not keep its owner
  \/ c \in held
  \/ \E b \in Blocks : block[b].owner = c
  \/ \E t \in Threads : pc[t].owner = c

Referenced(c) ==
  \/ c \in held
  \/ \E k \in CacheIds : cache[k].owner = c
  \/ \E b \in Blocks : block[b].owner = c
  \/ \E t \in Threads : pc[t].owner = c

(* mutant: ~Thread_cache() leaves jemalloc's cache alone *)
ReleaseOnly(m, bl, p) ==
  LET gone == {k \in CacheIds : cache[k] # NoCache /\ ~CacheReferenced(k, m, bl, p)}
  IN  /\ map' = m /\ pc' = p /\ block' = bl
      /\ cache' = [k \in CacheIds |-> IF k \in gone THEN NoCache ELSE cache[k]]
      /\ UNCHANGED jemalloc

(* References to Thread_cache objects go: those without any are destroyed, *)
(* their jemalloc caches first, which returns what is in them to its arena, *)
(* then the reference to the collection.                                   *)
Release(m, bl, p) ==
  LET gone == {k \in CacheIds : cache[k] # NoCache /\ ~CacheReferenced(k, m, bl, p)}
  IN  /\ map' = m /\ pc' = p
      /\ cache' = [k \in CacheIds |-> IF k \in gone THEN NoCache ELSE cache[k]]
      /\ jemalloc' = jemalloc \ gone
      /\ block' = [b \in Blocks |-> IF bl[b].st = "cached" /\ bl[b].by \in gone THEN NoBlock ELSE bl[b]]

-----------------------------------------------------------------------------
(* Collections. *)

Create(c) ==
  /\ state[c] = "none"
  /\ state' = [state EXCEPT ![c] = "starting"]
  /\ held' = held \cup {c}
  /\ UNCHANGED <<arenas, alive, map, cache, jemalloc, block, pc>>

(* jemalloc recycles ids: a new one is drawn when none is free. *)
Lowest(S) == {x \in S : \A y \in S : x <= y}

FreeArenaIds == ArenaIds \ UNION {arenas[c] : c \in Collections}

(* One turn of the loop of start(). *)
CreateArena(c, a) ==
  /\ state[c] = "starting"
  /\ a \in Lowest(FreeArenaIds)
  /\ arenas' = [arenas EXCEPT ![c] = @ \cup {a}]
  /\ state' = [state EXCEPT ![c] = IF Cardinality(arenas'[c]) = ArenasPer THEN "live" ELSE "starting"]
  /\ UNCHANGED <<held, alive, map, cache, jemalloc, block, pc>>

(* create_arena() throws, and the caller lets go of the collection. *)
CreateArenaFails(c) ==
  /\ state[c] = "starting"
  /\ state' = [state EXCEPT ![c] = "live"]
  /\ held' = held \ {c}
  /\ UNCHANGED <<arenas, alive, map, cache, jemalloc, block, pc>>

(* The application's last shared_ptr; nobody is inside a call of it. *)
Drop(c) ==
  /\ c \in held /\ state[c] = "live"
  /\ held' = held \ {c}
  /\ UNCHANGED <<state, arenas, alive, map, cache, jemalloc, block, pc>>

(* ~Shm_pool_collection(), in whichever thread let go of it last: arenas go *)
(* one by one, with the memory that nobody can return any more.             *)
DestroyArena(c, a) ==
  /\ state[c] = "live" /\ ~Referenced(c)
  /\ a \in arenas[c]
  /\ arenas' = [arenas EXCEPT ![c] = @ \ {a}]
  /\ block' = [b \in Blocks |-> IF block[b] = Lost(<<c, a>>) THEN NoBlock ELSE block[b]]
  /\ UNCHANGED <<state, held, alive, map, cache, jemalloc, pc>>

EndDestroy(c) ==
  /\ state[c] = "live" /\ ~Referenced(c) /\ arenas[c] = {}
  /\ state' = [state EXCEPT ![c] = "dead"]
  /\ UNCHANGED <<arenas, held, alive, map, cache, jemalloc, block, pc>>

-----------------------------------------------------------------------------
(* Allocation. *)

(* jemalloc's explicit caches are not synchronised. *)
Available(k) == CanOverlap \/ \A t \in Threads : pc[t].op = "idle" \/ pc[t].by # k

Calls(t, c, a) == t \in alive /\ pc[t] = Idle /\ c \in held /\ state[c] = "live" /\ a \in arenas[c]

Begin(t, op, c, a, k, b) ==
  [pc EXCEPT ![t] = [op |-> op, owner |-> c, arena |-> a, by |-> k, block |-> b]]

CacheForAny(t, a) ==     \* mutant: one cache per thread, whatever the arena
  IF \E x \in ArenaIds : map[t][x] # None THEN map[t][CHOOSE x \in ArenaIds : map[t][x] # None] ELSE None

(* Thread_local_data::get_cache() *)
CacheFor(t, a) == map[t][a]

(* construct_in_arena() with a cache that the thread has already. *)
FindCache(t, c, a) ==
  /\ Calls(t, c, a)
  /\ CacheFor(t, a) # None
  /\ Available(CacheFor(t, a))
  /\ pc' = Begin(t, "construct", c, a, CacheFor(t, a), None)
  /\ UNCHANGED <<state, arenas, held, alive, map, cache, jemalloc, block>>

(* get_or_create_thread_cache() makes one and inserts it. *)
CreateCache(t, c, a, k) ==
  /\ Calls(t, c, a)
  /\ CacheFor(t, a) = None
  /\ k \in Lowest(CacheIds \ jemalloc)
  /\ jemalloc' = jemalloc \cup {k}
  /\ cache' = [cache EXCEPT ![k] = [owner |-> c, arena |-> a]]
  /\ map' = [map EXCEPT ![t][a] = k]
  /\ pc' = Begin(t, "construct", c, a, k, None)
  /\ UNCHANGED <<state, arenas, held, alive, block>>

ConstructUncached(t, c, a) ==
  /\ Calls(t, c, a)
  /\ pc' = Begin(t, "construct", c, a, None, None)
  /\ UNCHANGED <<state, arenas, held, alive, map, cache, jemalloc, block>>

(* mallocx(): a block that is in the cache, whatever arena it is from, or a *)
(* new one of the arena with that id.                                       *)
Allocated(t, b) ==
  \/ pc[t].by # None /\ block[b].st = "cached" /\ block[b].by = pc[t].by
  \/ block[b] = NoBlock

HomeOf(t, b) ==
  IF block[b] # NoBlock THEN block[b].home
  ELSE <<CHOOSE c \in Collections : pc[t].arena \in arenas[c], pc[t].arena>>

(* construct_helper() makes the handle, whose deleter has the cache, or *)
(* without one the collection.                                          *)
Construct(t, b) ==
  /\ pc[t].op = "construct"
  /\ Allocated(t, b)
  /\ block' = [block EXCEPT ![b] = Used(HomeOf(t, b), IF pc[t].by = None THEN pc[t].owner ELSE None, pc[t].by)]
  /\ pc' = [pc EXCEPT ![t] = Idle]
  /\ UNCHANGED <<state, arenas, held, alive, map, cache, jemalloc>>

(* The constructor of the object throws: nobody frees the block. *)
ConstructThrows(t, b) ==
  /\ pc[t].op = "construct"
  /\ Allocated(t, b)
  /\ Release(map, [block EXCEPT ![b] = Lost(HomeOf(t, b))], [pc EXCEPT ![t] = Idle])
  /\ UNCHANGED <<state, arenas, held, alive>>

(* mallocx() returns null, and so does construct_helper(). *)
ConstructFails(t) ==
  /\ pc[t].op = "construct"
  /\ Release(map, block, [pc EXCEPT ![t] = Idle])
  /\ UNCHANGED <<state, arenas, held, alive>>

(* The last handle of an object goes, in any thread: the deleter frees the *)
(* block through the cache it was allocated with.                          *)
Delete(t, b) ==
  /\ t \in alive /\ pc[t] = Idle
  /\ block[b].st = "used"
  /\ block[b].by = None \/ Available(block[b].by)
  /\ \A u \in Threads : pc[u].block # b
  /\ pc' = Begin(t, "delete", block[b].owner, None, block[b].by, b)
  /\ UNCHANGED <<state, arenas, held, alive, map, cache, jemalloc, block>>

(* dallocx() leaves the block in the cache, or, when the cache is full and *)
(* without one, gives it back to the arena it is from.                     *)
Deallocated(t) ==
  LET b == pc[t].block
      freed == [block EXCEPT ![b] = NoBlock]
      kept == [block EXCEPT ![b] = Cached(block[b].home, pc[t].by)]
  IN  IF pc[t].by = None THEN {freed} ELSE {freed, kept}

DeleteDone(t) ==
  /\ pc[t].op = "delete"
  /\ \E bl \in Deallocated(t) : Release(map, bl, [pc EXCEPT ![t] = Idle])
  /\ UNCHANGED <<state, arenas, held, alive>>

-----------------------------------------------------------------------------
(* The thread's own caches. *)

CachesOf(t) == {map[t][a] : a \in ArenaIds} \ {None}

FlushAllCaches(t) ==
  /\ t \in alive /\ pc[t] = Idle
  /\ CachesOf(t) # {} /\ \A k \in CachesOf(t) : Available(k)
  /\ block' = [b \in Blocks |-> IF block[b].st = "cached" /\ block[b].by \in CachesOf(t) THEN NoBlock ELSE block[b]]
  /\ UNCHANGED <<state, arenas, held, alive, map, cache, jemalloc, pc>>

(* remove_current_thread_cache(); the entries go one by one, all of them *)
(* with the same owner, to which the caller has a reference.             *)
RemoveCachesByOwner(t, c) ==
  LET mine == {a \in ArenaIds : map[t][a] # None /\ cache[map[t][a]].owner = c}
  IN  /\ t \in alive /\ pc[t] = Idle /\ c \in held
      /\ mine # {}
      /\ Release([map EXCEPT ![t] = [a \in ArenaIds |-> IF a \in mine THEN None ELSE map[t][a]]], block, pc)
      /\ UNCHANGED <<state, arenas, held, alive>>

(* The thread ends, and its thread_local map with it. *)
Exit(t) ==
  /\ t \in alive /\ pc[t] = Idle
  /\ alive' = alive \ {t}
  /\ Release([map EXCEPT ![t] = [a \in ArenaIds |-> None]], block, pc)
  /\ UNCHANGED <<state, arenas, held>>

Spawn(t) ==
  /\ t \notin alive
  /\ alive' = alive \cup {t}
  /\ UNCHANGED <<state, arenas, held, map, cache, jemalloc, block, pc>>

Next ==
  \/ \E c \in Collections : Create(c) \/ CreateArenaFails(c) \/ Drop(c) \/ EndDestroy(c)
  \/ \E c \in Collections, a \in ArenaIds : CreateArena(c, a) \/ DestroyArena(c, a)
  \/ \E t \in Threads, c \in Collections, a \in ArenaIds :
       FindCache(t, c, a) \/ ConstructUncached(t, c, a) \/ \E k \in CacheIds : CreateCache(t, c, a, k)
  \/ \E t \in Threads, b \in Blocks : Construct(t, b) \/ ConstructThrows(t, b) \/ Delete(t, b)
  \/ \E t \in Threads : ConstructFails(t) \/ DeleteDone(t) \/ FlushAllCaches(t) \/ Exit(t) \/ Spawn(t)
  \/ \E t \in Threads, c \in Collections : RemoveCachesByOwner(t, c)

Spec == Init /\ [][Next]_vars

-----------------------------------------------------------------------------
(* Properties. *)

(* memory_manager.hpp:152: an arena is destroyed only when no cache of any *)
(* thread holds memory of it any more, and no object lies in it, whoever   *)
(* dropped the last reference and in whichever order threads, handles and  *)
(* the collection went.                                                    *)
FlushedBeforeDestroyed ==
  \A b \in Blocks : block[b].st \in {"used", "cached"} => block[b].home[2] \in arenas[block[b].home[1]]

OwnerOf(b) == IF block[b].by = None THEN block[b].owner ELSE cache[block[b].by].owner

(* An object lies in memory of the collection that constructed it (and not *)
(* of the one whose cache the thread used before, or whose arena id is     *)
(* used again), and its handle frees it there.                             *)
ObjectsInOwnArena ==
  \A b \in Blocks : block[b].st = "used" => OwnerOf(b) = block[b].home[1]

(* jemalloc's caches are the ones of the Thread_cache objects, and those are *)
(* the ones somebody refers to: none ends twice, none piles up, and none     *)
(* keeps a collection alive whose handles are gone and whose threads ended.  *)
CachesAreReferenced ==
  /\ jemalloc = {k \in CacheIds : cache[k] # NoCache}
  /\ \A k \in jemalloc : CacheReferenced(k, map, block, pc)

(* "Keeping this memory in a cache allows allocations without locking"      *)
(* (shm_pool_collection.hpp:257), so no two threads may be in one cache.    *)
CacheUsedByOneThread ==
  \A t, u \in Threads : t # u /\ pc[t].by # None => pc[u].by # pc[t].by

=============================================================================
