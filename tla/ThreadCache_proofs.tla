------------------------- MODULE ThreadCache_proofs -------------------------
(* Theorems about ThreadCache, for any number of collections, threads,      *)
(* blocks, arena ids and cache ids.                                         *)
EXTENDS ThreadCache, TLAPS

(* The tables of a state, with those that change together as parameters: m   *)
(* the thread maps, ca the Thread_cache objects, bl the blocks, p the        *)
(* threads' operations.                                                      *)
Typed ==
  /\ arenas \in [Collections -> SUBSET ArenaIds]
  /\ map \in [Threads -> [ArenaIds -> CacheIds \cup {None}]]
  /\ cache \in [CacheIds -> [owner : Collections \cup {None}, arena : ArenaIds \cup {None}]]
  /\ jemalloc = {k \in CacheIds : cache[k] # NoCache}
  /\ DOMAIN block = Blocks
  /\ DOMAIN pc = Threads

(* An arena id in use belongs to one collection. *)
OneOwner == \A c, d \in Collections : arenas[c] \cap arenas[d] # {} => c = d

(* A Thread_cache is for an existing arena of its owner. *)
CachesOK(ca) ==
  \A k \in CacheIds : ca[k] # NoCache =>
    ca[k].owner \in Collections /\ ca[k].arena \in arenas[ca[k].owner]

(* A thread finds under an arena id only the cache made for that arena. *)
MapOK(m, ca) ==
  \A t \in Threads, a \in ArenaIds :
    m[t][a] # None => ca[m[t][a]] # NoCache /\ ca[m[t][a]].arena = a

(* Memory in use or in a cache is of an existing arena, of the collection    *)
(* that owns the handle or the cache.                                        *)
BlocksOK(bl, ca) ==
  \A b \in Blocks : bl[b].st \in {"used", "cached"} =>
    /\ bl[b].home[1] \in Collections /\ bl[b].home[2] \in arenas[bl[b].home[1]]
    /\ \/ bl[b].st = "used" /\ bl[b].by = None /\ bl[b].owner = bl[b].home[1]
       \/ bl[b].by \in CacheIds /\ ca[bl[b].by] # NoCache /\ ca[bl[b].by].owner = bl[b].home[1]

(* A thread in an operation uses an existing cache of the collection; the    *)
(* block it frees is nobody else's.                                          *)
ThreadsOK(p, bl, ca) ==
  \A t \in Threads :
    /\ p[t].by = None \/ (p[t].by \in CacheIds /\ ca[p[t].by] # NoCache)
    /\ p[t].op = "construct" =>
         /\ p[t].owner \in Collections /\ p[t].arena \in arenas[p[t].owner]
         /\ p[t].by # None => ca[p[t].by].owner = p[t].owner
    /\ p[t].op = "delete" =>
         /\ p[t].block \in Blocks /\ bl[p[t].block].st = "used" /\ bl[p[t].block].by = p[t].by
         /\ \A u \in Threads : u # t => p[u].op # "delete" \/ p[u].block # p[t].block

(* The inductive invariant. *)
CacheInv ==
  /\ Typed /\ OneOwner
  /\ CachesOK(cache) /\ MapOK(map, cache) /\ BlocksOK(block, cache) /\ ThreadsOK(pc, block, cache)
  /\ \A k \in jemalloc : CacheReferenced(k, map, block, pc)

(* The ids are not None. *)
LEMMA Ids == None \notin Collections /\ None \notin CacheIds /\ None \notin ArenaIds
  BY ConstantsAssumption

(* References to caches that existed before Release() exist after it: only   *)
(* caches without a reference go, and what is cached in them goes first.     *)
LEMMA ReleaseKeeps ==
  ASSUME Typed, OneOwner, CachesOK(cache), UNCHANGED arenas,
         NEW m \in [Threads -> [ArenaIds -> CacheIds \cup {None}]],
         NEW bl, DOMAIN bl = Blocks, NEW p, DOMAIN p = Threads,
         MapOK(m, cache), BlocksOK(bl, cache), ThreadsOK(p, bl, cache), Release(m, bl, p)
  PROVE  CacheInv'
<1> DEFINE gone == {k \in CacheIds : cache[k] # NoCache /\ ~CacheReferenced(k, m, bl, p)}
<1>1. /\ map' = m /\ pc' = p
      /\ cache' = [k \in CacheIds |-> IF k \in gone THEN NoCache ELSE cache[k]]
      /\ jemalloc' = jemalloc \ gone
      /\ block' = [b \in Blocks |-> IF bl[b].st = "cached" /\ bl[b].by \in gone THEN NoBlock ELSE bl[b]]
  BY DEF Release
<1>2. \A k \in CacheIds : cache'[k] = IF k \in gone THEN NoCache ELSE cache[k]
  BY <1>1
<1>3. \A b \in Blocks : \/ block'[b] = bl[b] /\ ~(bl[b].st = "cached" /\ bl[b].by \in gone)
                        \/ block'[b] = NoBlock /\ bl[b].st = "cached"
  BY <1>1
<1>4. NoBlock.st = "free"
  BY DEF NoBlock
<1>5. \A b \in Blocks : block'[b].st = "used" <=> bl[b].st = "used"
  BY <1>3, <1>4
<1>6. \A b \in Blocks : bl[b].st = "used" => block'[b] = bl[b]
  BY <1>3
<1>7. \A k \in CacheIds : CacheReferenced(k, m, bl, p) => k \notin gone
  OBVIOUS
<1>8. Typed'
  <2>1. cache' \in [CacheIds -> [owner : Collections \cup {None}, arena : ArenaIds \cup {None}]]
    BY <1>1 DEF Typed, NoCache
  <2>2. jemalloc' = {k \in CacheIds : cache'[k] # NoCache}
    BY <1>1, <1>2 DEF Typed
  <2>3. DOMAIN block' = Blocks
    BY <1>1
  <2> QED
    BY <1>1, <2>1, <2>2, <2>3 DEF Typed
<1>9. OneOwner'
  BY DEF OneOwner
<1> HIDE DEF gone
<1>10. CachesOK(cache)'
  BY <1>2 DEF CachesOK
<1>11. MapOK(map, cache)'
  <2> SUFFICES ASSUME NEW t \in Threads, NEW a \in ArenaIds, m[t][a] # None
               PROVE  cache'[m[t][a]] # NoCache /\ cache'[m[t][a]].arena = a
    BY <1>1 DEF MapOK
  <2>1. m[t][a] \in CacheIds /\ CacheReferenced(m[t][a], m, bl, p)
    BY DEF CacheReferenced
  <2> QED
    BY <1>2, <1>7, <2>1 DEF MapOK
<1>12. BlocksOK(block, cache)'
  <2> SUFFICES ASSUME NEW b \in Blocks, block'[b].st \in {"used", "cached"}
               PROVE  /\ block'[b].home[1] \in Collections
                      /\ block'[b].home[2] \in arenas[block'[b].home[1]]
                      /\ \/ block'[b].st = "used" /\ block'[b].by = None /\ block'[b].owner = block'[b].home[1]
                         \/ /\ block'[b].by \in CacheIds /\ cache'[block'[b].by] # NoCache
                            /\ cache'[block'[b].by].owner = block'[b].home[1]
    BY DEF BlocksOK
  <2>1. block'[b] = bl[b] /\ ~(bl[b].st = "cached" /\ bl[b].by \in gone)
    BY <1>3, <1>4
  <2>2. bl[b].st = "used" => CacheReferenced(bl[b].by, m, bl, p)
    BY DEF CacheReferenced
  <2>3. bl[b].by \in CacheIds => bl[b].by \notin gone
    BY <1>7, <2>1, <2>2
  <2> QED
    BY <1>2, <2>1, <2>3 DEF BlocksOK
<1>13. ThreadsOK(pc, block, cache)'
  <2>1. \A t \in Threads : p[t].by \in CacheIds => p[t].by \notin gone
    BY <1>7 DEF CacheReferenced
  <2> SUFFICES ASSUME NEW t \in Threads
               PROVE  /\ p[t].by = None \/ (p[t].by \in CacheIds /\ cache'[p[t].by] # NoCache)
                      /\ p[t].op = "construct" =>
                           /\ p[t].owner \in Collections /\ p[t].arena \in arenas[p[t].owner]
                           /\ p[t].by # None => cache'[p[t].by].owner = p[t].owner
                      /\ p[t].op = "delete" =>
                           /\ p[t].block \in Blocks /\ block'[p[t].block].st = "used"
                           /\ block'[p[t].block].by = p[t].by
                           /\ \A u \in Threads : u # t => p[u].op # "delete" \/ p[u].block # p[t].block
    BY <1>1 DEF ThreadsOK
  <2> QED
    BY <1>2, <1>6, <2>1 DEF ThreadsOK
<1>14. \A k \in jemalloc' : CacheReferenced(k, map', block', pc')
  <2> SUFFICES ASSUME NEW k \in jemalloc' PROVE CacheReferenced(k, m, block', p)
    BY <1>1
  <2>1. CacheReferenced(k, m, bl, p)
    BY <1>1 DEF Typed, gone
  <2> QED
    BY <1>5, <1>6, <2>1 DEF CacheReferenced
<1> QED
  BY <1>8, <1>9, <1>10, <1>11, <1>12, <1>13, <1>14 DEF CacheInv

(* Collections come and go around tables that stay as they are. *)
LEMMA CollectionStep ==
  ASSUME CacheInv, NEW c \in Collections,
         Create(c) \/ CreateArenaFails(c) \/ Drop(c) \/ EndDestroy(c)
  PROVE  CacheInv'
<1>1. UNCHANGED <<arenas, map, cache, jemalloc, block, pc>>
  BY DEF Create, CreateArenaFails, Drop, EndDestroy
<1> QED
  BY <1>1 DEF CacheInv, Typed, OneOwner, CachesOK, MapOK, BlocksOK, ThreadsOK, CacheReferenced

(* A new arena has an id that no collection has. *)
LEMMA CreateArenaStep ==
  ASSUME CacheInv, NEW c \in Collections, NEW a \in ArenaIds, CreateArena(c, a)
  PROVE  CacheInv'
<1>1. /\ arenas' = [arenas EXCEPT ![c] = @ \cup {a}]
      /\ UNCHANGED <<map, cache, jemalloc, block, pc>>
  BY DEF CreateArena
<1>2. \A d \in Collections : a \notin arenas[d]
  BY DEF CreateArena, Lowest, FreeArenaIds
<1>3. \A d \in Collections : arenas[d] \subseteq arenas'[d] /\ (d # c => arenas'[d] = arenas[d])
  BY <1>1 DEF CacheInv, Typed
<1>4. Typed' /\ OneOwner'
  BY <1>1, <1>2 DEF CacheInv, Typed, OneOwner
<1>5. CachesOK(cache)' /\ MapOK(map, cache)'
  BY <1>1, <1>3 DEF CacheInv, CachesOK, MapOK
<1>6. BlocksOK(block, cache)'
  BY <1>1, <1>3 DEF CacheInv, BlocksOK
<1>7. ThreadsOK(pc, block, cache)'
  BY <1>1, <1>3 DEF CacheInv, ThreadsOK
<1>8. \A k \in jemalloc' : CacheReferenced(k, map', block', pc')
  BY <1>1 DEF CacheInv, CacheReferenced
<1> QED
  BY <1>4, <1>5, <1>6, <1>7, <1>8 DEF CacheInv

(* An arena goes when no cache, handle or running call has its collection.   *)
LEMMA DestroyArenaStep ==
  ASSUME CacheInv, NEW c \in Collections, NEW a \in ArenaIds, DestroyArena(c, a)
  PROVE  CacheInv'
<1>1. /\ arenas' = [arenas EXCEPT ![c] = @ \ {a}] /\ ~Referenced(c)
      /\ block' = [b \in Blocks |-> IF block[b] = Lost(<<c, a>>) THEN NoBlock ELSE block[b]]
      /\ UNCHANGED <<map, cache, jemalloc, pc>>
  BY DEF DestroyArena
<1>2. /\ \A k \in CacheIds : cache[k].owner # c
      /\ \A b \in Blocks : block[b].owner # c
      /\ \A t \in Threads : pc[t].owner # c
  BY <1>1 DEF Referenced
<1>3. \A d \in Collections : arenas'[d] \subseteq arenas[d] /\ (d # c => arenas'[d] = arenas[d])
  BY <1>1 DEF CacheInv, Typed
<1>4. \A b \in Blocks : block'[b] = block[b] \/ (block[b].st = "lost" /\ block'[b].st = "free")
  BY <1>1 DEF Lost, NoBlock
<1>5. Typed' /\ OneOwner'
  BY <1>1, <1>3 DEF CacheInv, Typed, OneOwner
<1>6. CachesOK(cache)' /\ MapOK(map, cache)'
  BY <1>1, <1>2, <1>3 DEF CacheInv, CachesOK, MapOK
<1>7. BlocksOK(block, cache)'
  BY <1>1, <1>2, <1>3, <1>4 DEF CacheInv, BlocksOK
<1>8. ThreadsOK(pc, block, cache)'
  BY <1>1, <1>2, <1>3, <1>4 DEF CacheInv, ThreadsOK
<1>9. \A k \in jemalloc' : CacheReferenced(k, map', block', pc')
  BY <1>1, <1>4 DEF CacheInv, CacheReferenced
<1> QED
  BY <1>5, <1>6, <1>7, <1>8, <1>9 DEF CacheInv

(* The operation that a thread starts. *)
LEMMA BeginPc ==
  ASSUME CacheInv, NEW t \in Threads, NEW op, NEW c, NEW a, NEW k, NEW b,
         pc' = Begin(t, op, c, a, k, b)
  PROVE  /\ DOMAIN pc' = Threads
         /\ \A u \in Threads : u # t => pc'[u] = pc[u]
         /\ pc'[t].op = op /\ pc'[t].owner = c /\ pc'[t].arena = a /\ pc'[t].by = k /\ pc'[t].block = b
  BY DEF CacheInv, Typed, Begin

(* A thread that was idle starts to construct with a cache of the            *)
(* collection, or without.                                                   *)
LEMMA StartConstruct ==
  ASSUME CacheInv, NEW t \in Threads, NEW c \in Collections, NEW a \in arenas[c],
         NEW k \in CacheIds \cup {None}, k # None => cache[k] # NoCache /\ cache[k].owner = c,
         pc[t] = Idle, pc' = Begin(t, "construct", c, a, k, None),
         UNCHANGED <<arenas, map, cache, jemalloc, block>>
  PROVE  CacheInv'
<1>1. /\ DOMAIN pc' = Threads
      /\ \A u \in Threads : u # t => pc'[u] = pc[u]
      /\ pc'[t].op = "construct" /\ pc'[t].owner = c /\ pc'[t].arena = a /\ pc'[t].by = k
  BY BeginPc
<1>2. Typed' /\ OneOwner' /\ CachesOK(cache)' /\ MapOK(map, cache)' /\ BlocksOK(block, cache)'
  BY <1>1 DEF CacheInv, Typed, OneOwner, CachesOK, MapOK, BlocksOK
<1>3. ThreadsOK(pc, block, cache)'
  BY <1>1 DEF CacheInv, ThreadsOK
<1>4. pc[t].by = None
  BY DEF Idle
<1>5. \A j \in jemalloc' : CacheReferenced(j, map', block', pc')
  <2> SUFFICES ASSUME NEW j \in jemalloc PROVE CacheReferenced(j, map, block, pc')
    OBVIOUS
  <2>1. CacheReferenced(j, map, block, pc) /\ j # None
    BY Ids DEF CacheInv, Typed
  <2> QED
    BY <1>1, <1>4, <2>1 DEF CacheReferenced
<1> QED
  BY <1>2, <1>3, <1>5 DEF CacheInv

(* get_cache(): the cache that a thread finds is the collection's own. *)
LEMMA FindCacheStep ==
  ASSUME CacheInv, NEW t \in Threads, NEW c \in Collections, NEW a \in ArenaIds,
         FindCache(t, c, a) \/ ConstructUncached(t, c, a)
  PROVE  CacheInv'
<1>1. a \in arenas[c] /\ pc[t] = Idle /\ UNCHANGED <<arenas, map, cache, jemalloc, block>>
  BY DEF FindCache, ConstructUncached, Calls
<1>2. CASE ConstructUncached(t, c, a)
  BY <1>1, <1>2, StartConstruct DEF ConstructUncached
<1>3. CASE FindCache(t, c, a)
  <2> DEFINE k == map[t][a]
  <2>1. k # None /\ pc' = Begin(t, "construct", c, a, k, None)
    BY <1>3 DEF FindCache, CacheFor
  <2>2. k \in CacheIds
    BY <2>1 DEF CacheInv, Typed
  <2>3. /\ cache[k] # NoCache /\ cache[k].arena = a
        /\ cache[k].owner \in Collections /\ a \in arenas[cache[k].owner]
    BY <2>1, <2>2 DEF CacheInv, MapOK, CachesOK
  <2>4. cache[k].owner = c
    BY <1>1, <2>3 DEF CacheInv, OneOwner
  <2> HIDE DEF k
  <2> QED
    BY <1>1, <2>1, <2>2, <2>3, <2>4, StartConstruct
<1> QED
  BY <1>2, <1>3

(* get_or_create_thread_cache(): nothing refers to the id that jemalloc      *)
(* gives out.                                                                *)
LEMMA CreateCacheStep ==
  ASSUME CacheInv, NEW t \in Threads, NEW c \in Collections, NEW a \in ArenaIds,
         NEW k \in CacheIds, CreateCache(t, c, a, k)
  PROVE  CacheInv'
<1>1. /\ a \in arenas[c] /\ pc[t] = Idle /\ map[t][a] = None
      /\ UNCHANGED <<arenas, block>>
      /\ jemalloc' = jemalloc \cup {k}
      /\ cache' = [cache EXCEPT ![k] = [owner |-> c, arena |-> a]]
      /\ map' = [map EXCEPT ![t][a] = k]
      /\ pc' = Begin(t, "construct", c, a, k, None)
  BY DEF CreateCache, Calls, CacheFor
<1>2. cache[k] = NoCache
  BY DEF CreateCache, Lowest, CacheInv, Typed
<1>3. /\ \A j \in CacheIds : j # k => cache'[j] = cache[j]
      /\ cache'[k] = [owner |-> c, arena |-> a]
      /\ cache' \in [CacheIds -> [owner : Collections \cup {None}, arena : ArenaIds \cup {None}]]
  BY <1>1 DEF CacheInv, Typed
<1>4. cache'[k] # NoCache /\ cache'[k].owner = c /\ cache'[k].arena = a
  BY <1>3, Ids DEF NoCache
<1>5. /\ map' \in [Threads -> [ArenaIds -> CacheIds \cup {None}]]
      /\ map'[t][a] = k
      /\ \A u \in Threads, x \in ArenaIds : u # t \/ x # a => map'[u][x] = map[u][x]
  BY <1>1 DEF CacheInv, Typed
<1>6. /\ DOMAIN pc' = Threads
      /\ \A u \in Threads : u # t => pc'[u] = pc[u]
      /\ pc'[t].op = "construct" /\ pc'[t].owner = c /\ pc'[t].arena = a /\ pc'[t].by = k
  BY <1>1, BeginPc
<1>7. Typed' /\ OneOwner'
  <2>1. jemalloc' = {j \in CacheIds : cache'[j] # NoCache}
    BY <1>1, <1>3, <1>4 DEF CacheInv, Typed
  <2> QED
    BY <1>1, <1>3, <1>5, <1>6, <2>1 DEF CacheInv, Typed, OneOwner
<1>8. CachesOK(cache)'
  BY <1>1, <1>3, <1>4 DEF CacheInv, CachesOK
<1>9. MapOK(map, cache)'
  <2> SUFFICES ASSUME NEW u \in Threads, NEW x \in ArenaIds, map'[u][x] # None
               PROVE  cache'[map'[u][x]] # NoCache /\ cache'[map'[u][x]].arena = x
    BY DEF MapOK
  <2>1. CASE u = t /\ x = a
    BY <1>4, <1>5, <2>1
  <2>2. CASE u # t \/ x # a
    <3>1. /\ map'[u][x] = map[u][x] /\ map[u][x] \in CacheIds
          /\ cache[map[u][x]] # NoCache /\ cache[map[u][x]].arena = x
      BY <1>5, <2>2 DEF CacheInv, Typed, MapOK
    <3> QED
      BY <1>2, <1>3, <3>1
  <2> QED
    BY <2>1, <2>2
<1>10. BlocksOK(block, cache)'
  BY <1>1, <1>2, <1>3 DEF CacheInv, BlocksOK
<1>11. ThreadsOK(pc, block, cache)'
  <2> SUFFICES ASSUME NEW u \in Threads
               PROVE  /\ pc'[u].by = None \/ (pc'[u].by \in CacheIds /\ cache'[pc'[u].by] # NoCache)
                      /\ pc'[u].op = "construct" =>
                           /\ pc'[u].owner \in Collections /\ pc'[u].arena \in arenas[pc'[u].owner]
                           /\ pc'[u].by # None => cache'[pc'[u].by].owner = pc'[u].owner
                      /\ pc'[u].op = "delete" =>
                           /\ pc'[u].block \in Blocks /\ block[pc'[u].block].st = "used"
                           /\ block[pc'[u].block].by = pc'[u].by
                           /\ \A v \in Threads : v # u => pc'[v].op # "delete" \/ pc'[v].block # pc'[u].block
    BY <1>1 DEF ThreadsOK
  <2>1. CASE u = t
    BY <1>1, <1>4, <1>6, <2>1
  <2>2. CASE u # t
    BY <1>2, <1>3, <1>6, <2>2 DEF CacheInv, ThreadsOK
  <2> QED
    BY <2>1, <2>2
<1>12. \A j \in jemalloc' : CacheReferenced(j, map', block', pc')
  <2>1. CacheReferenced(k, map', block', pc')
    BY <1>6 DEF CacheReferenced
  <2>2. ASSUME NEW j \in jemalloc PROVE CacheReferenced(j, map', block', pc')
    <3>1. CacheReferenced(j, map, block, pc) /\ j # None
      BY Ids DEF CacheInv, Typed
    <3>2. pc[t].by = None
      BY <1>1 DEF Idle
    <3>3. CASE \E u \in Threads, x \in ArenaIds : map[u][x] = j
      BY <1>1, <1>5, <3>1, <3>3 DEF CacheReferenced
    <3>4. CASE \E b \in Blocks : block[b].st = "used" /\ block[b].by = j
      BY <1>1, <3>4 DEF CacheReferenced
    <3>5. CASE \E u \in Threads : pc[u].by = j
      BY <1>6, <3>1, <3>2, <3>5 DEF CacheReferenced
    <3> QED
      BY <3>1, <3>3, <3>4, <3>5 DEF CacheReferenced
  <2> QED
    BY <1>1, <2>1, <2>2
<1> QED
  BY <1>7, <1>8, <1>9, <1>10, <1>11, <1>12 DEF CacheInv

(* mallocx(): memory out of the cache or of the arena id is memory of the    *)
(* collection that constructs.                                               *)
LEMMA AllocatedHome ==
  ASSUME CacheInv, NEW t \in Threads, NEW b \in Blocks, pc[t].op = "construct", Allocated(t, b)
  PROVE  /\ HomeOf(t, b)[1] = pc[t].owner /\ pc[t].owner \in Collections
         /\ HomeOf(t, b)[2] \in arenas[pc[t].owner]
         /\ block[b].st # "used"
<1>1. /\ pc[t].owner \in Collections /\ pc[t].arena \in arenas[pc[t].owner]
      /\ pc[t].by # None => cache[pc[t].by].owner = pc[t].owner
  BY DEF CacheInv, ThreadsOK
<1>2. CASE block[b] = NoBlock
  <2>1. \A c \in Collections : pc[t].arena \in arenas[c] => c = pc[t].owner
    BY <1>1 DEF CacheInv, OneOwner
  <2>2. (CHOOSE c \in Collections : pc[t].arena \in arenas[c]) = pc[t].owner
    BY <1>1, <2>1
  <2>3. HomeOf(t, b) = <<pc[t].owner, pc[t].arena>>
    BY <1>2, <2>2 DEF HomeOf
  <2> QED
    BY <1>1, <1>2, <2>3 DEF NoBlock
<1>3. CASE pc[t].by # None /\ block[b].st = "cached" /\ block[b].by = pc[t].by
  <2>1. /\ block[b].home[1] \in Collections /\ block[b].home[2] \in arenas[block[b].home[1]]
        /\ cache[pc[t].by].owner = block[b].home[1]
    BY <1>3 DEF CacheInv, BlocksOK
  <2>2. block[b] # NoBlock
    BY <1>3 DEF NoBlock
  <2> QED
    BY <1>1, <1>3, <2>1, <2>2 DEF HomeOf
<1> QED
  BY <1>2, <1>3 DEF Allocated

(* A thread that ends its operation refers to nothing any more. *)
LEMMA EndPc ==
  ASSUME CacheInv, NEW t \in Threads, NEW p, p = [pc EXCEPT ![t] = Idle]
  PROVE  /\ DOMAIN p = Threads
         /\ \A u \in Threads : u # t => p[u] = pc[u]
         /\ p[t].op = "idle" /\ p[t].by = None
  BY DEF CacheInv, Typed, Idle

(* construct_helper(): the handle takes over the thread's reference. *)
LEMMA ConstructStep ==
  ASSUME CacheInv, NEW t \in Threads, NEW b \in Blocks, Construct(t, b)
  PROVE  CacheInv'
<1> DEFINE h == HomeOf(t, b)
           k == pc[t].by
           c == pc[t].owner
<1>1. /\ pc[t].op = "construct" /\ Allocated(t, b)
      /\ block' = [block EXCEPT ![b] = Used(h, IF k = None THEN c ELSE None, k)]
      /\ pc' = [pc EXCEPT ![t] = Idle]
      /\ UNCHANGED <<arenas, map, cache, jemalloc>>
  BY DEF Construct
<1>2. h[1] = c /\ c \in Collections /\ h[2] \in arenas[c] /\ block[b].st # "used"
  BY <1>1, AllocatedHome
<1>3. /\ k = None \/ (k \in CacheIds /\ cache[k] # NoCache)
      /\ k # None => cache[k].owner = c
  BY <1>1 DEF CacheInv, ThreadsOK
<1> HIDE DEF h, k, c
<1>4. /\ DOMAIN block' = Blocks
      /\ \A x \in Blocks : x # b => block'[x] = block[x]
      /\ block'[b].st = "used" /\ block'[b].home = h /\ block'[b].by = k
      /\ k = None => block'[b].owner = c
  BY <1>1 DEF CacheInv, Typed, Used
<1>5. /\ DOMAIN pc' = Threads
      /\ \A u \in Threads : u # t => pc'[u] = pc[u]
      /\ pc'[t].op = "idle" /\ pc'[t].by = None
  BY <1>1, EndPc
<1>6. Typed' /\ OneOwner' /\ CachesOK(cache)' /\ MapOK(map, cache)'
  BY <1>1, <1>4, <1>5 DEF CacheInv, Typed, OneOwner, CachesOK, MapOK
<1>7. BlocksOK(block, cache)'
  <2> SUFFICES ASSUME NEW x \in Blocks, block'[x].st \in {"used", "cached"}
               PROVE  /\ block'[x].home[1] \in Collections
                      /\ block'[x].home[2] \in arenas[block'[x].home[1]]
                      /\ \/ block'[x].st = "used" /\ block'[x].by = None /\ block'[x].owner = block'[x].home[1]
                         \/ /\ block'[x].by \in CacheIds /\ cache[block'[x].by] # NoCache
                            /\ cache[block'[x].by].owner = block'[x].home[1]
    BY <1>1 DEF BlocksOK
  <2>1. CASE x = b
    BY <1>2, <1>3, <1>4, <2>1
  <2>2. CASE x # b
    BY <1>4, <2>2 DEF CacheInv, BlocksOK
  <2> QED
    BY <2>1, <2>2
<1>8. ThreadsOK(pc, block, cache)'
  <2> SUFFICES ASSUME NEW u \in Threads, u # t
               PROVE  /\ pc[u].op = "delete" => block'[pc[u].block] = block[pc[u].block]
    BY <1>1, <1>5 DEF CacheInv, ThreadsOK
  <2> QED
    BY <1>2, <1>4 DEF CacheInv, ThreadsOK
<1>9. \A j \in jemalloc' : CacheReferenced(j, map', block', pc')
  <2> SUFFICES ASSUME NEW j \in jemalloc PROVE CacheReferenced(j, map, block', pc')
    BY <1>1
  <2>1. CacheReferenced(j, map, block, pc) /\ j # None
    BY Ids DEF CacheInv, Typed
  <2>2. CASE \E u \in Threads, x \in ArenaIds : map[u][x] = j
    BY <2>2 DEF CacheReferenced
  <2>3. CASE \E x \in Blocks : block[x].st = "used" /\ block[x].by = j
    BY <1>2, <1>4, <2>3 DEF CacheReferenced
  <2>4. CASE \E u \in Threads : pc[u].by = j
    <3>1. CASE k = j
      BY <1>4, <3>1 DEF CacheReferenced
    <3>2. CASE k # j
      BY <1>5, <2>4, <3>2 DEF CacheReferenced, k
    <3> QED
      BY <3>1, <3>2
  <2> QED
    BY <2>1, <2>2, <2>3, <2>4 DEF CacheReferenced
<1> QED
  BY <1>6, <1>7, <1>8, <1>9 DEF CacheInv

(* Ending an operation of a thread, with one block changed that no other     *)
(* thread frees.                                                             *)
LEMMA EndOperation ==
  ASSUME CacheInv, UNCHANGED arenas, NEW t \in Threads, NEW b \in Blocks, NEW bl, DOMAIN bl = Blocks,
         \A x \in Blocks : x # b => bl[x] = block[x],
         \A u \in Threads : u # t /\ pc[u].op = "delete" => pc[u].block # b,
         \/ bl[b].st \notin {"used", "cached"} \/ bl[b] = block[b]
         \/ /\ bl[b].st = "cached" /\ bl[b].by # None
            /\ block[b].st = "used" /\ block[b].by = bl[b].by /\ block[b].home = bl[b].home,
         Release(map, bl, [pc EXCEPT ![t] = Idle])
  PROVE  CacheInv'
<1> DEFINE p == [pc EXCEPT ![t] = Idle]
<1>1. /\ DOMAIN p = Threads
      /\ \A u \in Threads : u # t => p[u] = pc[u]
      /\ p[t].op = "idle" /\ p[t].by = None
  BY EndPc
<1>2. Release(map, bl, p)
  OBVIOUS
<1> HIDE DEF p
<1>3. BlocksOK(bl, cache)
  <2> SUFFICES ASSUME NEW x \in Blocks, bl[x].st \in {"used", "cached"}
               PROVE  /\ bl[x].home[1] \in Collections
                      /\ bl[x].home[2] \in arenas[bl[x].home[1]]
                      /\ \/ bl[x].st = "used" /\ bl[x].by = None /\ bl[x].owner = bl[x].home[1]
                         \/ /\ bl[x].by \in CacheIds /\ cache[bl[x].by] # NoCache
                            /\ cache[bl[x].by].owner = bl[x].home[1]
    BY DEF BlocksOK
  <2> QED
    BY DEF CacheInv, BlocksOK
<1>4. ThreadsOK(p, bl, cache)
  BY <1>1 DEF CacheInv, ThreadsOK
<1> QED
  BY <1>1, <1>2, <1>3, <1>4, ReleaseKeeps DEF CacheInv, Typed

(* The constructor throws, mallocx() fails, or the deleter is through. *)
LEMMA EndStep ==
  ASSUME CacheInv, NEW t \in Threads,
         \/ \E b \in Blocks : ConstructThrows(t, b)
         \/ ConstructFails(t) \/ DeleteDone(t)
  PROVE  CacheInv'
<1>1. ASSUME NEW b \in Blocks, ConstructThrows(t, b) PROVE CacheInv'
  <2> DEFINE bl == [block EXCEPT ![b] = Lost(HomeOf(t, b))]
  <2>1. Release(map, bl, [pc EXCEPT ![t] = Idle]) /\ UNCHANGED arenas
    BY <1>1 DEF ConstructThrows
  <2>2. DOMAIN bl = Blocks /\ (\A x \in Blocks : x # b => bl[x] = block[x]) /\ bl[b].st = "lost"
    BY DEF CacheInv, Typed, Lost
  <2>3. block[b].st # "used"
    BY <1>1, AllocatedHome DEF ConstructThrows
  <2>4. \A u \in Threads : u # t /\ pc[u].op = "delete" => pc[u].block # b
    BY <2>3 DEF CacheInv, ThreadsOK
  <2> HIDE DEF bl
  <2> QED
    BY <2>1, <2>2, <2>4, EndOperation
<1>2. ASSUME ConstructFails(t) PROVE CacheInv'
  <2> DEFINE p == [pc EXCEPT ![t] = Idle]
  <2>1. Release(map, block, p) /\ UNCHANGED arenas
    BY <1>2 DEF ConstructFails
  <2>2. /\ DOMAIN p = Threads
        /\ \A u \in Threads : u # t => p[u] = pc[u]
        /\ p[t].op = "idle" /\ p[t].by = None
    BY EndPc
  <2> HIDE DEF p
  <2>3. ThreadsOK(p, block, cache)
    BY <2>2 DEF CacheInv, ThreadsOK
  <2> QED
    BY <2>1, <2>2, <2>3, ReleaseKeeps DEF CacheInv, Typed
<1>3. ASSUME DeleteDone(t) PROVE CacheInv'
  <2> DEFINE b == pc[t].block
  <2>1. PICK bl \in Deallocated(t) : Release(map, bl, [pc EXCEPT ![t] = Idle])
    BY <1>3 DEF DeleteDone
  <2>2. UNCHANGED arenas
    BY <1>3 DEF DeleteDone
  <2>3. /\ b \in Blocks /\ block[b].st = "used" /\ block[b].by = pc[t].by
        /\ \A u \in Threads : u # t => pc[u].op # "delete" \/ pc[u].block # b
    BY <1>3 DEF DeleteDone, CacheInv, ThreadsOK
  <2>4. \/ bl = [block EXCEPT ![b] = NoBlock]
        \/ pc[t].by # None /\ bl = [block EXCEPT ![b] = Cached(block[b].home, pc[t].by)]
    BY <2>1 DEF Deallocated
  <2>5. DOMAIN bl = Blocks /\ \A x \in Blocks : x # b => bl[x] = block[x]
    BY <2>4 DEF CacheInv, Typed
  <2>6. \/ bl[b].st = "free"
        \/ bl[b].st = "cached" /\ bl[b].by = pc[t].by /\ pc[t].by # None /\ bl[b].home = block[b].home
    BY <2>3, <2>4 DEF CacheInv, Typed, NoBlock, Cached
  <2> HIDE DEF b
  <2> QED
    BY <2>1, <2>2, <2>3, <2>5, <2>6, EndOperation
<1> QED
  BY <1>1, <1>2, <1>3

(* The deleter takes the references of the handle. *)
LEMMA DeleteStep ==
  ASSUME CacheInv, NEW t \in Threads, NEW b \in Blocks, Delete(t, b)
  PROVE  CacheInv'
<1>1. /\ pc[t] = Idle /\ block[b].st = "used" /\ \A u \in Threads : pc[u].block # b
      /\ pc' = Begin(t, "delete", block[b].owner, None, block[b].by, b)
      /\ UNCHANGED <<arenas, map, cache, jemalloc, block>>
  BY DEF Delete
<1>2. /\ DOMAIN pc' = Threads
      /\ \A u \in Threads : u # t => pc'[u] = pc[u]
      /\ pc'[t].op = "delete" /\ pc'[t].by = block[b].by /\ pc'[t].block = b
  BY <1>1, BeginPc
<1>3. Typed' /\ OneOwner' /\ CachesOK(cache)' /\ MapOK(map, cache)' /\ BlocksOK(block, cache)'
  BY <1>1, <1>2 DEF CacheInv, Typed, OneOwner, CachesOK, MapOK, BlocksOK
<1>4. block[b].by = None \/ (block[b].by \in CacheIds /\ cache[block[b].by] # NoCache)
  BY <1>1 DEF CacheInv, BlocksOK
<1>5. ThreadsOK(pc, block, cache)'
  BY <1>1, <1>2, <1>4 DEF CacheInv, ThreadsOK
<1>6. \A j \in jemalloc' : CacheReferenced(j, map', block', pc')
  <2> SUFFICES ASSUME NEW j \in jemalloc PROVE CacheReferenced(j, map, block, pc')
    BY <1>1
  <2>1. CacheReferenced(j, map, block, pc) /\ j # None
    BY Ids DEF CacheInv, Typed
  <2>2. pc[t].by = None
    BY <1>1 DEF Idle
  <2> QED
    BY <1>2, <2>1, <2>2 DEF CacheReferenced
<1> QED
  BY <1>3, <1>5, <1>6 DEF CacheInv

(* A thread gives up caches, or what is in them. *)
LEMMA ThreadStep ==
  ASSUME CacheInv, NEW t \in Threads,
         \/ FlushAllCaches(t) \/ Exit(t) \/ Spawn(t)
         \/ \E c \in Collections : RemoveCachesByOwner(t, c)
  PROVE  CacheInv'
<1>1. CASE FlushAllCaches(t)
  <2>1. UNCHANGED <<arenas, map, cache, jemalloc, pc>>
    BY <1>1 DEF FlushAllCaches
  <2>2. /\ DOMAIN block' = Blocks
        /\ \A b \in Blocks : block'[b] = block[b] \/ (block[b].st = "cached" /\ block'[b].st = "free")
    BY <1>1 DEF FlushAllCaches, NoBlock
  <2>3. Typed' /\ OneOwner' /\ CachesOK(cache)' /\ MapOK(map, cache)'
    BY <2>1, <2>2 DEF CacheInv, Typed, OneOwner, CachesOK, MapOK
  <2>4. BlocksOK(block, cache)'
    BY <2>1, <2>2 DEF CacheInv, BlocksOK
  <2>5. ThreadsOK(pc, block, cache)'
    BY <2>1, <2>2 DEF CacheInv, ThreadsOK
  <2>6. \A j \in jemalloc' : CacheReferenced(j, map', block', pc')
    BY <2>1, <2>2 DEF CacheInv, CacheReferenced
  <2> QED
    BY <2>3, <2>4, <2>5, <2>6 DEF CacheInv
<1>2. ASSUME NEW f \in [ArenaIds -> CacheIds \cup {None}],
             \A a \in ArenaIds : f[a] = None \/ f[a] = map[t][a],
             UNCHANGED arenas, Release([map EXCEPT ![t] = f], block, pc)
      PROVE  CacheInv'
  <2> DEFINE m == [map EXCEPT ![t] = f]
  <2>1. m \in [Threads -> [ArenaIds -> CacheIds \cup {None}]]
    BY DEF CacheInv, Typed
  <2>2. \A u \in Threads, a \in ArenaIds : m[u][a] = None \/ m[u][a] = map[u][a]
    BY <1>2 DEF CacheInv, Typed
  <2>3. Release(m, block, pc)
    BY <1>2
  <2> HIDE DEF m
  <2>4. MapOK(m, cache)
    BY <2>2 DEF CacheInv, MapOK
  <2> QED
    BY <1>2, <2>1, <2>3, <2>4, ReleaseKeeps DEF CacheInv, Typed
<1>3. CASE Exit(t)
  <2>1. [a \in ArenaIds |-> None] \in [ArenaIds -> CacheIds \cup {None}]
    OBVIOUS
  <2>2. /\ Release([map EXCEPT ![t] = [a \in ArenaIds |-> None]], block, pc) /\ UNCHANGED arenas
    BY <1>3 DEF Exit
  <2> QED
    BY <1>2, <2>1, <2>2
<1>4. ASSUME NEW c \in Collections, RemoveCachesByOwner(t, c) PROVE CacheInv'
  <2> DEFINE mine == {a \in ArenaIds : map[t][a] # None /\ cache[map[t][a]].owner = c}
             f == [a \in ArenaIds |-> IF a \in mine THEN None ELSE map[t][a]]
  <2>1. Release([map EXCEPT ![t] = f], block, pc) /\ UNCHANGED arenas
    BY <1>4 DEF RemoveCachesByOwner
  <2>2. f \in [ArenaIds -> CacheIds \cup {None}]
    BY DEF CacheInv, Typed
  <2>3. \A a \in ArenaIds : f[a] = None \/ f[a] = map[t][a]
    OBVIOUS
  <2> HIDE DEF f
  <2> QED
    BY <1>2, <2>1, <2>2, <2>3
<1>5. CASE Spawn(t)
  <2>1. UNCHANGED <<arenas, map, cache, jemalloc, block, pc>>
    BY <1>5 DEF Spawn
  <2> QED
    BY <2>1 DEF CacheInv, Typed, OneOwner, CachesOK, MapOK, BlocksOK, ThreadsOK, CacheReferenced
<1> QED
  BY <1>1, <1>3, <1>4, <1>5

(* The inductive invariant holds in every state. *)
LEMMA CacheInvAlways == Spec => []CacheInv
<1>1. Init => CacheInv
  <2> SUFFICES ASSUME Init PROVE CacheInv
    OBVIOUS
  <2> USE DEF Init
  <2>1. cache \in [CacheIds -> [owner : Collections \cup {None}, arena : ArenaIds \cup {None}]]
    BY DEF NoCache
  <2>2. Typed /\ OneOwner
    BY <2>1 DEF Typed, OneOwner
  <2>3. CachesOK(cache) /\ MapOK(map, cache)
    BY DEF CachesOK, MapOK
  <2>4. BlocksOK(block, cache)
    BY DEF BlocksOK, NoBlock
  <2>5. ThreadsOK(pc, block, cache)
    BY DEF ThreadsOK, Idle
  <2> QED
    BY <2>2, <2>3, <2>4, <2>5 DEF CacheInv
<1>2. CacheInv /\ [Next]_vars => CacheInv'
  <2> SUFFICES ASSUME CacheInv, [Next]_vars PROVE CacheInv'
    OBVIOUS
  <2>1. CASE UNCHANGED vars
    BY <2>1 DEF vars, CacheInv, Typed, OneOwner, CachesOK, MapOK, BlocksOK, ThreadsOK, CacheReferenced
  <2> QED
    BY <2>1, CollectionStep, CreateArenaStep, DestroyArenaStep, FindCacheStep, CreateCacheStep,
       ConstructStep, EndStep, DeleteStep, ThreadStep DEF Next
<1> QED
  BY <1>1, <1>2, PTL DEF Spec

(* An arena is destroyed only when no cache of any thread holds memory of it *)
(* any more and no object lies in it, in whichever order threads, handles    *)
(* and the collection went.                                                  *)
THEOREM AlwaysFlushedBeforeDestroyed == Spec => []FlushedBeforeDestroyed
<1>1. CacheInv => FlushedBeforeDestroyed
  BY DEF CacheInv, BlocksOK, FlushedBeforeDestroyed
<1> QED
  BY <1>1, CacheInvAlways, PTL

(* An object lies in memory of the collection that constructed it, and its   *)
(* handle frees it there, although arena and cache ids are used again.       *)
THEOREM ObjectsAlwaysInOwnArena == Spec => []ObjectsInOwnArena
<1>1. CacheInv => ObjectsInOwnArena
  BY Ids DEF CacheInv, BlocksOK, ObjectsInOwnArena, OwnerOf
<1> QED
  BY <1>1, CacheInvAlways, PTL

(* jemalloc's caches are exactly the ones of the Thread_cache objects that   *)
(* somebody refers to: none is destroyed twice, none piles up.               *)
THEOREM CachesAlwaysReferenced == Spec => []CachesAreReferenced
<1>1. CacheInv => CachesAreReferenced
  BY DEF CacheInv, Typed, CachesAreReferenced
<1> QED
  BY <1>1, CacheInvAlways, PTL
====
