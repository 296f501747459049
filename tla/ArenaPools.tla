----------------------------- MODULE ArenaPools -----------------------------
(***************************************************************************)
(* The arenas of one process: how they get pools from the kernel when      *)
(* jemalloc asks for memory, tell the process-wide repository that         *)
(* translates addresses, and give everything back when the last reference  *)
(* to the arena goes.  Threads create pools in several arenas while others *)
(* are being destroyed, so the kernel hands out addresses again.           *)
(*                                                                         *)
(* Addresses are page numbers.  An extent is what jemalloc calls a range   *)
(* it manages: it asks the collection before it merges two.                *)
(***************************************************************************)
EXTENDS Integers, FiniteSets

CONSTANTS
  Arenas,        \* Ipc_arena objects
  ClientArenas,  \* session_shm() of a client; the others are a server's
  Threads,       \* threads that allocate
  Pages,         \* the process's address space
  Requests,      \* [size, align]: what jemalloc asks for
  MaxPools,      \* bound: pool ids drawn
  None           \* null

Ids == 1..MaxPools

(* Shm_pool *)
PoolRecords == [id : Ids, arena : Arenas, base : Nat, size : Nat \ {0}]

ASSUME ConstantsAssumption ==
  /\ ClientArenas \subseteq Arenas
  /\ Pages \subseteq Nat \ {0} /\ IsFiniteSet(Pages)
  /\ Requests \subseteq [size : Nat \ {0}, align : Nat \ {0}]
  /\ MaxPools \in Nat
  /\ None \notin Nat /\ None \notin PoolRecords
  /\ None \notin [pool : PoolRecords, step : {"unmap", "unlink"}]
  /\ None \notin [pool : PoolRecords, offset : Nat]

PagesOf(e) == e.base .. (e.base + e.size - 1)

(* What a page is mapped to: page `off` of a pool, or the anonymous memory *)
(* a thread reserved while it looks for an aligned address.                *)
Nothing == [kind |-> "free"]
Reserved(t) == [kind |-> "anon", by |-> t]
PoolPage(i, off) == [kind |-> "pool", id |-> i, off |-> off]

VARIABLES
  life,       \* arena: "none", "live", "closing", "destroying", "gone"
  holders,    \* arena's shared_ptrs: "session" (with its Shm_session), "object"
  listener,   \* Owner_shm_pool_listener_for_repository of the arena's session
  listening,  \* arenas that have it in m_listeners
  pools,      \* arena -> m_shm_pool_map of the collection
  known,      \* arena -> m_shm_pools, less those whose removal was announced
  remaining,  \* pool id -> m_remaining_size
  removing,   \* arena -> the pool that remove_shm_pool() is in
  extents,    \* arena -> jemalloc's extents
  mem,        \* the kernel's page table
  names,      \* pools whose SHM object has a name
  nextId,     \* generate_pool_id()
  thread,     \* thread -> where it is in create_shm_pool()
  idMap,      \* Owner_shm_pool_repository: m_shm_pool_id_map
  addressMap, \* and m_shm_pool_address_map
  kept        \* pools with a range that could not be decommitted

repository == <<idMap, addressMap>>
jemalloc == <<extents, remaining, removing>>
owners == <<life, holders, listener, listening>>
vars == <<owners, pools, known, jemalloc, mem, names, nextId, thread,
          repository, kept>>

Idle == [pc |-> "idle", arena |-> None, id |-> 0, size |-> 1, align |-> 1,
         base |-> 0]

Init ==
  /\ life = [a \in Arenas |-> "none"]
  /\ holders = [a \in Arenas |-> {}]
  /\ listener = [a \in Arenas |-> "absent"]
  /\ listening = {}
  /\ pools = [a \in Arenas |-> {}] /\ known = [a \in Arenas |-> {}]
  /\ remaining = [i \in Ids |-> 0]
  /\ removing = [a \in Arenas |-> None]
  /\ extents = [a \in Arenas |-> {}]
  /\ mem = [p \in Pages |-> Nothing]
  /\ names = {} /\ nextId = 1
  /\ thread = [t \in Threads |-> Idle]
  /\ idMap = {} /\ addressMap = {}
  /\ kept = {}

-----------------------------------------------------------------------------
(* Looking up an address in an ordered map of pools. *)

(* Shm_pool::determine_offset() *)
DetermineOffset(p, x) == IF x < p.base \/ x >= p.base + p.size
                         THEN None ELSE x - p.base

(* Shm_pool::is_subset() *)
IsSubset(p, x, size) ==
  /\ DetermineOffset(p, x) # None
  /\ p.size - DetermineOffset(p, x) >= size

Least(m) == CHOOSE p \in m : \A q \in m : p.base <= q.base
Greatest(m) == CHOOSE p \in m : \A q \in m : p.base >= q.base

(* The entry the search ends at: the one at the address, else the one *)
(* before, if any.                                                    *)
EntryFor(m, x) ==
  LET atOrAbove == {p \in m : p.base >= x}    \* lower_bound() .. end()
      below == m \ atOrAbove
  IN  CASE m = {} -> None
        [] m # {} /\ atOrAbove = {} -> Greatest(m)
        [] atOrAbove # {} /\ Least(atOrAbove).base = x -> Least(atOrAbove)
        [] atOrAbove # {} /\ Least(atOrAbove).base # x ->
             IF below = {} THEN None ELSE Greatest(below)

(* lookup_shm_pool() of a collection, from_address() of the repository. *)
Lookup(m, x) ==
  LET p == EntryFor(m, x)
  IN  IF p = None \/ DetermineOffset(p, x) = None THEN None ELSE p

-----------------------------------------------------------------------------
(* Shm_pool_repository *)

(* The pools of S that insert() accepts. *)
Insertable(S) ==
  {p \in S : /\ \A q \in idMap : q.id # p.id
             /\ \A q \in addressMap : q.base # p.base}

Insert(S) ==
  /\ idMap' = idMap \cup Insertable(S)
  /\ addressMap' = addressMap \cup Insertable(S)

EraseIdOnly(p) ==
  /\ idMap' = {q \in idMap : q.id # p.id}
  /\ UNCHANGED addressMap

(* erase() of a pool by its id. *)
Erase(p) ==
  /\ idMap' = {q \in idMap : q.id # p.id}
  /\ addressMap' = IF \E q \in idMap : q.id = p.id
                   THEN {q \in addressMap : q.base # p.base}
                   ELSE addressMap

-----------------------------------------------------------------------------
(* The life of an arena. *)

(* Ipc_arena::create() when a session is opened (or a Client_app is seen   *)
(* first); Client_session_impl and Session_server own the listener object. *)
CreateArena(a) ==
  /\ life[a] = "none"
  /\ life' = [life EXCEPT ![a] = "live"]
  /\ holders' = [holders EXCEPT ![a] = {"session"}]
  /\ listener' = [listener EXCEPT ![a] = "exists"]
  /\ UNCHANGED <<listening, pools, known, jemalloc, mem, names, nextId, thread,
                 repository, kept>>

AddListenerUninformed(a) ==
  /\ life[a] = "live" /\ "session" \in holders[a] /\ listener[a] = "exists"
  /\ a \notin listening
  /\ listening' = listening \cup {a}
  /\ UNCHANGED <<life, holders, listener, pools, known, jemalloc, mem, names,
                 nextId, thread, repository, kept>>

(* add_shm_pool_listener() once the session is set up: the pools there are *)
(* are inserted by notify_initial_shm_pools().                             *)
AddListener(a) ==
  /\ life[a] = "live" /\ "session" \in holders[a] /\ listener[a] = "exists"
  /\ a \notin listening
  /\ listening' = listening \cup {a}
  /\ Insert(known[a])
  /\ UNCHANGED <<life, holders, listener, pools, known, jemalloc, mem, names,
                 nextId, thread, kept>>

(* Nobody is in the arena. *)
Unused(a) == \A t \in Threads : thread[t].arena # a

(* A thread may allocate: the session is not being destroyed, or the       *)
(* application has a reference of its own.                                 *)
Usable(a) ==
  /\ life[a] = "live"
  /\ \/ "object" \in holders[a]
     \/ "session" \in holders[a] /\ listener[a] = "exists"

(* construct(): the handle's deleter refers to the arena, and so does what *)
(* session_shm_ptr() returns.                                              *)
Construct(a) ==
  /\ life[a] = "live" /\ "session" \in holders[a] /\ listener[a] = "exists"
  /\ holders' = [holders EXCEPT ![a] = @ \cup {"object"}]
  /\ UNCHANGED <<life, listener, listening, pools, known, jemalloc, mem, names,
                 nextId, thread, repository, kept>>

DropObject(a) ==
  /\ "object" \in holders[a] /\ (Unused(a) \/ "session" \in holders[a])
  /\ holders' = [holders EXCEPT ![a] = @ \ {"object"}]
  /\ UNCHANGED <<life, listener, listening, pools, known, jemalloc, mem, names,
                 nextId, thread, repository, kept>>


(* ~Client_session_impl(): its members go before those of its base class, *)
(* and nothing takes the listener out of m_listeners.  What the arena's   *)
(* calls of it then do is undefined: in the builds there are they end the *)
(* process or work as before, which is how they are modelled.             *)
DestroyListener(a) ==
  /\ a \in ClientArenas /\ "session" \in holders[a]
  /\ listener[a] = "exists" /\ (Unused(a) \/ "object" \in holders[a])
  /\ listener' = [listener EXCEPT ![a] = "destroyed"]
  /\ UNCHANGED <<life, holders, listening, pools, known, jemalloc, mem, names,
                 nextId, thread, repository, kept>>

(* m_session_shm goes, with ~Session_impl() or from Session_server's map. *)
DropSession(a) ==
  /\ "session" \in holders[a] /\ (Unused(a) \/ "object" \in holders[a])
  /\ a \in ClientArenas => listener[a] = "destroyed"
  /\ holders' = [holders EXCEPT ![a] = @ \ {"session"}]
  /\ UNCHANGED <<life, listener, listening, pools, known, jemalloc, mem, names,
                 nextId, thread, repository, kept>>

-----------------------------------------------------------------------------
(* create_shm_pool(), jemalloc's alloc hook. *)

Free(R) == R \subseteq Pages /\ \A p \in R : mem[p] = Nothing

Mapped(i, base, size) ==
  [p \in Pages |-> IF p \in base .. (base + size - 1)
                   THEN PoolPage(i, p - base) ELSE mem[p]]

Unmapped(R) == [p \in Pages |-> IF p \in R THEN Nothing ELSE mem[p]]

(* generate_pool_id() and create_shm_object(). *)
CreateObject(t, a, r) ==
  /\ thread[t] = Idle /\ Usable(a)
  /\ nextId \in Ids
  /\ nextId' = nextId + 1
  /\ names' = names \cup {nextId}
  /\ thread' = [thread EXCEPT ![t] = [pc |-> "created", arena |-> a,
                   id |-> nextId, size |-> r.size, align |-> r.align, base |-> 0]]
  /\ UNCHANGED <<owners, pools, known, jemalloc, mem, repository, kept>>

(* It fails: the name is taken back and the id is lost. *)
CreateObjectFails(t, a) ==
  /\ thread[t] = Idle /\ Usable(a)
  /\ nextId \in Ids
  /\ nextId' = nextId + 1
  /\ UNCHANGED <<owners, pools, known, jemalloc, mem, names, thread, repository,
                 kept>>

At(t, pc, base) ==
  thread' = [thread EXCEPT ![t].pc = pc, ![t].base = base]

(* Jemalloc_pages::map() for page alignment or at a given address:  *)
(* pages_map().  The kernel does not replace mappings.              *)
Map(t, base) ==
  LET th == thread[t] IN
  /\ th.pc = "created"
  /\ base % th.align = 0
  /\ Free(base .. (base + th.size - 1))
  /\ mem' = Mapped(th.id, base, th.size)
  /\ At(t, "mapped", base)
  /\ UNCHANGED <<owners, pools, known, jemalloc, names, nextId, repository, kept>>

(* pages_map_slow(): more than needed is reserved with anonymous memory, *)
Reserve(t, from) ==
  LET th == thread[t]
      R == from .. (from + th.size + th.align - 2) IN
  /\ th.pc = "created" /\ th.align > 1
  /\ Free(R)
  /\ mem' = [p \in Pages |-> IF p \in R THEN Reserved(t) ELSE mem[p]]
  /\ At(t, "reserved", from)
  /\ UNCHANGED <<owners, pools, known, jemalloc, names, nextId, repository, kept>>

(* the first aligned address in the reservation *)
Aligned(th) == CHOOSE x \in th.base .. (th.base + th.align - 1) : x % th.align = 0

Trimmed(t, R) ==
  /\ thread[t].pc = "reserved"
  /\ mem' = Unmapped(R)
  /\ At(t, "trimmed", Aligned(thread[t]))
  /\ UNCHANGED <<owners, pools, known, jemalloc, names, nextId, repository, kept>>

TrimAll(t) ==
  LET th == thread[t] IN
  Trimmed(t, th.base .. (th.base + th.size + th.align - 2))

(* os_pages_trim(): what is before and after the aligned range goes, *)
Trim(t) ==
  LET th == thread[t]
      all == th.base .. (th.base + th.size + th.align - 2)
  IN  Trimmed(t, all \ (Aligned(th) .. (Aligned(th) + th.size - 1)))

(* and the pool is mapped over the rest with MAP_FIXED, *)
MapFixed(t) ==
  LET th == thread[t] IN
  /\ th.pc = "trimmed"
  /\ mem' = Mapped(th.id, th.base, th.size)
  /\ At(t, "mapped", th.base)
  /\ UNCHANGED <<owners, pools, known, jemalloc, names, nextId, repository, kept>>

(* or is not, and the reservation stays (the assertion that follows is not *)
(* compiled into release builds).                                          *)
MapFixedFails(t) ==
  /\ thread[t].pc = "trimmed"
  /\ names' = names \ {thread[t].id}
  /\ thread' = [thread EXCEPT ![t] = Idle]
  /\ UNCHANGED <<owners, pools, known, jemalloc, mem, nextId, repository, kept>>

(* No memory: the SHM object is removed again. *)
MapFails(t) ==
  /\ thread[t].pc = "created"
  /\ names' = names \ {thread[t].id}
  /\ thread' = [thread EXCEPT ![t] = Idle]
  /\ UNCHANGED <<owners, pools, known, jemalloc, mem, nextId, repository, kept>>

NewPool(t) == [id |-> thread[t].id, arena |-> thread[t].arena,
               base |-> thread[t].base, size |-> thread[t].size]

(* register_shm_pool(); a second pool at the address fails an assertion. *)
Register(t) ==
  LET th == thread[t] IN
  /\ th.pc = "mapped"
  /\ \A q \in pools[th.arena] : q.base # th.base
  /\ pools' = [pools EXCEPT ![th.arena] = @ \cup {NewPool(t)}]
  /\ remaining' = [remaining EXCEPT ![th.id] = th.size]
  /\ At(t, "registered", th.base)
  /\ UNCHANGED <<owners, known, extents, removing, mem, names, nextId, repository,
                 kept>>

(* handle_created_shm_pool(): under the arena's mutex the pool gets known  *)
(* and the listener inserts it into the repository; only a warning tells   *)
(* that it could not.  Then jemalloc has the memory.                       *)
Notify(t) ==
  LET th == thread[t]
      a == th.arena IN
  /\ th.pc = "registered"
  /\ known' = [known EXCEPT ![a] = @ \cup {NewPool(t)}]
  /\ IF a \in listening THEN Insert({NewPool(t)}) ELSE UNCHANGED repository
  /\ extents' = [extents EXCEPT ![a] =
                   @ \cup {[base |-> th.base, size |-> th.size]}]
  /\ thread' = [thread EXCEPT ![t] = Idle]
  /\ UNCHANGED <<owners, pools, remaining, removing, mem, names, nextId, kept>>

-----------------------------------------------------------------------------
(* jemalloc works with its extents. *)

(* split_memory_pages(): always allowed. *)
Split(a, e, n) ==
  /\ e \in extents[a] /\ n \in 1 .. (e.size - 1)
  /\ life[a] = "live"
  /\ extents' = [extents EXCEPT ![a] = (@ \ {e}) \cup
       {[base |-> e.base, size |-> n], [base |-> e.base + n, size |-> e.size - n]}]
  /\ UNCHANGED <<owners, pools, known, remaining, removing, mem, names, nextId,
                 thread, repository, kept>>

(* merge_memory_pages() *)
MayMerge(a, e, f) ==
  LET p == Lookup(pools[a], e.base)
      q == Lookup(pools[a], f.base) IN
  /\ p # None /\ q # None /\ p = q
  /\ e.base + e.size = f.base \/ f.base + f.size = e.base
  /\ IsSubset(p, e.base, e.size) /\ IsSubset(p, f.base, f.size)

(* jemalloc asks for neighbours only, the lower one first. *)
Merge(a, e, f) ==
  /\ {e, f} \subseteq extents[a] /\ e.base + e.size = f.base
  /\ life[a] = "live"
  /\ MayMerge(a, e, f)
  /\ extents' = [extents EXCEPT ![a] = (@ \ {e, f}) \cup
       {[base |-> e.base, size |-> e.size + f.size]}]
  /\ UNCHANGED <<owners, pools, known, remaining, removing, mem, names, nextId,
                 thread, repository, kept>>

ComputePoolAndOffsetLocal(a, x, size, offset, length) ==
  LET p == Lookup(pools[a], x) IN
  IF p = None \/ ~IsSubset(p, x, size) \/ offset + length > size
  THEN None ELSE [pool |-> p, offset |-> offset]

(* compute_pool_and_offset(): what commit, decommit and purge work on. *)
ComputePoolAndOffset(a, x, size, offset, length) ==
  LET p == Lookup(pools[a], x) IN
  IF \/ p = None \/ ~IsSubset(p, x, size)
     \/ offset > size \/ length > size \/ offset + length > size
  THEN None
  ELSE [pool |-> p, offset |-> DetermineOffset(p, x) + offset]

-----------------------------------------------------------------------------
(* The last reference goes. *)

(* ~Ipc_arena() stops listening to its own collection, *)
BeginDestroy(a) ==
  /\ life[a] = "live" /\ holders[a] = {} /\ Unused(a)
  /\ life' = [life EXCEPT ![a] = "closing"]
  /\ UNCHANGED <<holders, listener, listening, pools, known, jemalloc, mem, names,
                 nextId, thread, repository, kept>>

(* announces the removal of every pool to the listeners, *)
AnnounceRemoval(a, p) ==
  /\ life[a] = "closing" /\ p \in known[a]
  /\ known' = [known EXCEPT ![a] = @ \ {p}]
  /\ IF a \in listening THEN Erase(p) ELSE UNCHANGED repository
  /\ UNCHANGED <<owners, pools, jemalloc, mem, names, nextId, thread, kept>>

BeginRemovalAtOnce(a) ==
  /\ life[a] = "closing"
  /\ life' = [life EXCEPT ![a] = "destroying"]
  /\ UNCHANGED <<holders, listener, listening, pools, known, jemalloc, mem, names,
                 nextId, thread, repository, kept>>

(* and ~Shm_pool_collection() has jemalloc destroy the arena, *)
BeginRemoval(a) ==
  /\ life[a] = "closing" /\ known[a] = {}
  /\ life' = [life EXCEPT ![a] = "destroying"]
  /\ UNCHANGED <<holders, listener, listening, pools, known, jemalloc, mem, names,
                 nextId, thread, repository, kept>>

(* m_remaining_size after remove_size() *)
SizeRemoved(n, size) == IF size > n THEN 0 ELSE n - size

(* which calls the destroy hook for every extent, in any order.  The range *)
(* is decommitted and taken off the pool's remaining size; at zero the     *)
(* pool is deregistered and removed.                                       *)
RemoveRange(a, e) ==
  LET p == Lookup(pools[a], e.base)
      found == p # None /\ IsSubset(p, e.base, e.size) /\ remaining[p.id] > 0
      left == SizeRemoved(remaining[p.id], e.size) IN
  /\ life[a] = "destroying" /\ removing[a] = None /\ e \in extents[a]
  /\ extents' = [extents EXCEPT ![a] = @ \ {e}]
  /\ IF ~found
     THEN UNCHANGED <<pools, remaining, removing>>
     ELSE /\ remaining' = [remaining EXCEPT ![p.id] = left]
          /\ pools' = IF left > 0 THEN pools ELSE [pools EXCEPT ![a] = @ \ {p}]
          /\ removing' = IF left > 0 THEN removing
                       ELSE [removing EXCEPT ![a] = [pool |-> p, step |-> "unmap"]]
  /\ UNCHANGED <<owners, known, mem, names, nextId, thread, repository, kept>>

(* fallocate() or mprotect() fails: the range stays, and so does the pool. *)
DecommitFails(a, e) ==
  LET p == Lookup(pools[a], e.base) IN
  /\ life[a] = "destroying" /\ removing[a] = None /\ e \in extents[a]
  /\ p # None /\ IsSubset(p, e.base, e.size)
  /\ extents' = [extents EXCEPT ![a] = @ \ {e}]
  /\ kept' = kept \cup {p.id}
  /\ UNCHANGED <<owners, pools, known, remaining, removing, mem, names, nextId,
                 thread, repository>>

(* remove_shm_pool() unmaps the pool, *)
Unmap(a) ==
  /\ removing[a] # None /\ removing[a].step = "unmap"
  /\ mem' = Unmapped(PagesOf(removing[a].pool))
  /\ removing' = [removing EXCEPT ![a].step = "unlink"]
  /\ UNCHANGED <<owners, pools, known, extents, remaining, names, nextId, thread,
                 repository, kept>>

RemoveObjectKept(a) ==
  /\ removing[a] # None /\ removing[a].step = "unlink"
  /\ removing' = [removing EXCEPT ![a] = None]
  /\ UNCHANGED <<owners, pools, known, extents, remaining, mem, names, nextId,
                 thread, repository, kept>>

(* and removes the SHM object. *)
RemoveObject(a) ==
  /\ removing[a] # None /\ removing[a].step = "unlink"
  /\ names' = names \ {removing[a].pool.id}
  /\ removing' = [removing EXCEPT ![a] = None]
  /\ UNCHANGED <<owners, pools, known, extents, remaining, mem, nextId, thread,
                 repository, kept>>

EndDestroy(a) ==
  /\ life[a] = "destroying" /\ extents[a] = {} /\ removing[a] = None
  /\ life' = [life EXCEPT ![a] = "gone"]
  /\ UNCHANGED <<holders, listener, listening, pools, known, jemalloc, mem, names,
                 nextId, thread, repository, kept>>

-----------------------------------------------------------------------------
Next ==
  \/ \E a \in Arenas :
       \/ CreateArena(a) \/ AddListener(a) \/ Construct(a) \/ DropObject(a)
       \/ DestroyListener(a) \/ DropSession(a)
       \/ BeginDestroy(a) \/ BeginRemoval(a) \/ EndDestroy(a)
       \/ Unmap(a) \/ RemoveObject(a)
       \/ \E p \in known[a] : AnnounceRemoval(a, p)
       \/ \E e \in extents[a] :
            \/ RemoveRange(a, e) \/ DecommitFails(a, e)
            \/ \E n \in 1 .. e.size : Split(a, e, n)
            \/ \E f \in extents[a] : Merge(a, e, f)
  \/ \E t \in Threads :
       \/ \E a \in Arenas : \/ CreateObjectFails(t, a)
                            \/ \E r \in Requests : CreateObject(t, a, r)
       \/ \E x \in Pages : Map(t, x) \/ Reserve(t, x)
       \/ Trim(t) \/ MapFixed(t) \/ MapFixedFails(t) \/ MapFails(t)
       \/ Register(t) \/ Notify(t)

Spec == Init /\ [][Next]_vars

-----------------------------------------------------------------------------
(* from_address() finds for every address the pool of the repository that   *)
(* has the address, and null where none has, whatever has been inserted and *)
(* erased while the kernel handed addresses out again.                      *)
LookupIsExact ==
  \A x \in Pages : {p \in idMap : x \in PagesOf(p)} =
                  IF Lookup(addressMap, x) = None THEN {}
                  ELSE {Lookup(addressMap, x)}

(* Whatever the repository translates, an id to an address or back, is      *)
(* mapped, to the pages of that pool: a pool leaves the repository before   *)
(* it is unmapped and its addresses are handed out again (~Ipc_arena()).    *)
TranslatedIsMapped ==
  \A p \in idMap : \A x \in PagesOf(p) : mem[x] = PoolPage(p.id, x - p.base)

(* insert() failing is only logged.  It never fails: while an arena that    *)
(* has the listener is live, the memory jemalloc has from it can be         *)
(* translated, pools made before add_shm_pool_listener() included.          *)
MemoryIsTranslated ==
  \A a \in listening : life[a] = "live" =>
    \A e \in extents[a] : \A x \in PagesOf(e) :
      Lookup(addressMap, x) # None /\ Lookup(addressMap, x).arena = a

(* The offsets at which pages are purged and decommitted in the file are    *)
(* those at which the kernel maps the addresses jemalloc means.             *)
HooksFindPages ==
  \A a \in Arenas : \A e \in extents[a] : \A o \in 0 .. (e.size - 1) :
    LET c == ComputePoolAndOffset(a, e.base, e.size, o, 1)
    IN  c # None /\ mem[e.base + o] = PoolPage(c.pool.id, c.offset)

(* A destroyed arena leaves nothing: no memory, no SHM object, nothing in   *)
(* the repository, except pools with a range that could not be decommitted. *)
NothingOfArenaLeft ==
  \A a \in Arenas : life[a] = "gone" =>
    /\ \A p \in idMap \cup addressMap : p.arena # a
    /\ \A p \in pools[a] : p.id \in kept
    /\ names \subseteq kept \cup
         {p.id : p \in UNION {pools[b] : b \in Arenas \ {a}}} \cup
         {thread[t].id : t \in {u \in Threads : thread[u] # Idle}} \cup
         {removing[b].pool.id : b \in {c \in Arenas : removing[c] # None}}
    /\ \A x \in Pages : mem[x].kind = "pool" => mem[x].id \in names

(* Mapping never replaces another's mapping, with MAP_FIXED in              *)
(* pages_map_slow() neither: a page that is in use changes only to be       *)
(* freed, or from a reservation to a pool of the thread that reserved it.   *)
NothingIsReplaced ==
  [][\A x \in Pages : mem'[x] # mem[x] =>
       \/ mem[x] = Nothing \/ mem'[x] = Nothing
       \/ \E t \in Threads : /\ mem[x] = Reserved(t)
                             /\ thread[t].pc = "trimmed"
                             /\ mem'[x].id = thread[t].id]_vars

(* A listener added with add_shm_pool_listener() exists when the arena      *)
(* calls it: "The pointer must remain valid until after it is removed".     *)
NotifiedListenerExists ==
  \A a \in listening : life[a] = "closing" /\ known[a] # {} =>
    listener[a] = "exists"
=============================================================================
