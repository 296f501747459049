-------------------------- MODULE ArenaPools_proofs --------------------------
(***************************************************************************)
(* Proofs about ArenaPools: for any arenas, threads, requests and address  *)
(* space, what the repository translates is mapped, the memory of live     *)
(* arenas is translated, the hooks find the pages that are meant, nothing  *)
(* is left of a destroyed arena, and no mapping replaces another.          *)
(***************************************************************************)
EXTENDS ArenaPools, FiniteSetTheorems, TLAPS

ExtentRecords == [base : Nat, size : Nat \ {0}]

Steps == {"idle", "created", "reserved", "trimmed", "mapped", "registered"}

ThreadRecords == [pc : Steps, arena : Arenas \cup {None}, id : Nat,
                  size : Nat \ {0}, align : Nat \ {0}, base : Nat]

Typed ==
  /\ life \in [Arenas -> {"none", "live", "closing", "destroying", "gone"}]
  /\ listening \subseteq Arenas
  /\ pools \in [Arenas -> SUBSET PoolRecords]
  /\ known \in [Arenas -> SUBSET PoolRecords]
  /\ remaining \in [Ids -> Nat]
  /\ removing \in [Arenas -> [pool : PoolRecords, step : {"unmap", "unlink"}] \cup {None}]
  /\ extents \in [Arenas -> SUBSET ExtentRecords]
  /\ nextId \in Nat
  /\ thread \in [Threads -> ThreadRecords]

(* The collections' pools: ids tell them apart, and what the arena knows it  *)
(* has.                                                                      *)
PoolsOK ==
  /\ \A a \in Arenas : \A p \in pools[a] :
       p.arena = a /\ p.id < nextId /\ p.id \in names /\ remaining[p.id] > 0
  /\ \A a, b \in Arenas : \A p \in pools[a], q \in pools[b] : p.id = q.id => p = q
  /\ \A a \in Arenas : known[a] \subseteq pools[a]
  /\ \A a \in Arenas : life[a] \in {"destroying", "gone"} => known[a] = {}
  /\ \A a \in Arenas : life[a] = "none" => pools[a] = {}

(* A pool that remove_shm_pool() is in belongs to no collection any more. *)
RemovingOK ==
  \A a \in Arenas : removing[a] # None =>
    /\ life[a] = "destroying"
    /\ removing[a].pool.arena = a
    /\ removing[a].pool.id < nextId /\ removing[a].pool.id \in names
    /\ \A b \in Arenas : \A q \in pools[b] : q.id # removing[a].pool.id
    /\ \A b \in Arenas : b # a /\ removing[b] # None => removing[b].pool.id # removing[a].pool.id

(* A thread in create_shm_pool() has an id of its own, in a live arena. *)
ThreadsOK ==
  \A t \in Threads : thread[t].pc # "idle" =>
    /\ thread[t].arena \in Arenas /\ life[thread[t].arena] = "live"
    /\ thread[t].id \in Ids /\ thread[t].id < nextId /\ thread[t].id \in names
    /\ \A u \in Threads : u # t /\ thread[u].pc # "idle" => thread[u].id # thread[t].id
    /\ \A b \in Arenas : removing[b] # None => removing[b].pool.id # thread[t].id
    /\ thread[t].pc # "registered" =>
         \A b \in Arenas : \A q \in pools[b] : q.id # thread[t].id
    /\ thread[t].pc = "registered" =>
         /\ NewPool(t) \in pools[thread[t].arena] /\ NewPool(t) \notin known[thread[t].arena]
         /\ remaining[thread[t].id] = thread[t].size

(* All pages of a pool are mapped to it. *)
MappedAt(p) == PagesOf(p) \subseteq Pages /\ \A x \in PagesOf(p) : mem[x] = PoolPage(p.id, x - p.base)

(* All of a range is reserved by a thread. *)
ReservedAt(t, R) == R \subseteq Pages /\ \A x \in R : mem[x] = Reserved(t)

(* Somebody accounts for a page that is mapped to a pool. *)
Held(i, x) ==
  \/ \E a \in Arenas : \E p \in pools[a] : p.id = i /\ x \in PagesOf(p)
  \/ \E t \in Threads : thread[t].pc = "mapped" /\ thread[t].id = i /\ x \in PagesOf(NewPool(t))
  \/ \E a \in Arenas : /\ removing[a] # None /\ removing[a].step = "unmap"
                       /\ removing[a].pool.id = i /\ x \in PagesOf(removing[a].pool)

(* What a thread in create_shm_pool() has so far. *)
ThreadMemory(t) ==
  /\ thread[t].pc = "mapped" => MappedAt(NewPool(t))
  /\ thread[t].pc = "reserved" =>
       ReservedAt(t, thread[t].base .. (thread[t].base + thread[t].size + thread[t].align - 2))
  /\ thread[t].pc = "trimmed" =>
       ReservedAt(t, thread[t].base .. (thread[t].base + thread[t].size - 1))

(* The kernel's page table agrees with what the process believes. *)
MemoryOK ==
  /\ \A a \in Arenas : \A p \in pools[a] : MappedAt(p)
  /\ \A t \in Threads : ThreadMemory(t)
  /\ \A a \in Arenas : removing[a] # None /\ removing[a].step = "unmap" => MappedAt(removing[a].pool)
  /\ \A x \in Pages : mem[x].kind = "pool" => Held(mem[x].id, x)

(* Every SHM object has somebody who will remove it. *)
NamesOK ==
  \A i \in names :
    \/ \E a \in Arenas : \E p \in pools[a] : p.id = i
    \/ \E t \in Threads : thread[t].pc # "idle" /\ thread[t].id = i
    \/ \E a \in Arenas : removing[a] # None /\ removing[a].pool.id = i

(* The repository has what arenas with the listener know. *)
RepositoryOK ==
  /\ idMap = addressMap
  /\ \A p \in idMap : p.arena \in listening /\ p \in known[p.arena]
  /\ \A a \in listening : known[a] \subseteq idMap

Inside(e, p) == p.base <= e.base /\ e.base + e.size <= p.base + p.size
Apart(e, f) == e.base + e.size <= f.base \/ f.base + f.size <= e.base

(* jemalloc's extents are parts of pools, and do not overlap. *)
ExtentsOK ==
  \A a \in Arenas :
    /\ \A e \in extents[a] : \E p \in pools[a] : Inside(e, p) /\ (life[a] = "live" => p \in known[a])
    /\ \A e, f \in extents[a] : e = f \/ Apart(e, f)
    /\ life[a] = "gone" => extents[a] = {}

(* The pages of a pool that are in extents. *)
Used(E, p) == {x \in PagesOf(p) : \E e \in E : x \in PagesOf(e)}

Fresh(p) == \E t \in Threads : thread[t].pc = "registered" /\ thread[t].id = p.id

(* m_remaining_size counts them, and the ranges that could not be removed. *)
CountsOK ==
  \A a \in Arenas : \A p \in pools[a] :
    /\ remaining[p.id] >= Cardinality(Used(extents[a], p))
    /\ p.id \notin kept /\ ~Fresh(p) => remaining[p.id] = Cardinality(Used(extents[a], p))

ArenaInv ==
  /\ Typed /\ PoolsOK /\ RemovingOK /\ ThreadsOK
  /\ MemoryOK /\ NamesOK /\ RepositoryOK /\ ExtentsOK /\ CountsOK

-----------------------------------------------------------------------------
(* Looking up an address. *)

(* A set of numbers that is not empty has a least one. *)
LEMMA LeastNumber ==
  ASSUME NEW S, S \subseteq Nat, S # {}
  PROVE  \E n \in S : \A m \in S : n <= m
<1>1. PICK n \in S : \A m \in S : ~(<<m, n>> \in OpToRel(<, Nat))
  BY WFMin, NatLessThanWellFounded
<1>2. \A m \in S : <<m, n>> \in Nat \X Nat
  OBVIOUS
<1>3. \A m \in S : ~(m < n)
  BY <1>1, <1>2 DEF OpToRel
<1> QED
  BY <1>3

(* The entry of an ordered map with the smallest address. *)
LEMMA LeastEntry ==
  ASSUME NEW m, m \subseteq PoolRecords, m # {}
  PROVE  Least(m) \in m /\ \A q \in m : Least(m).base <= q.base
<1>1. PICK n \in {p.base : p \in m} : \A k \in {p.base : p \in m} : n <= k
  <2>1. {p.base : p \in m} \subseteq Nat
    BY DEF PoolRecords
  <2> QED
    BY <2>1, LeastNumber
<1>2. \E p \in m : \A q \in m : p.base <= q.base
  BY <1>1
<1> QED
  BY <1>2 DEF Least

(* The one with the largest, when all are below some address. *)
LEMMA GreatestEntry ==
  ASSUME NEW m, m \subseteq PoolRecords, m # {}, NEW x \in Nat, \A p \in m : p.base < x
  PROVE  Greatest(m) \in m /\ \A q \in m : Greatest(m).base >= q.base
<1>1. \A p \in m : p.base \in Nat /\ x - p.base \in Nat
  BY DEF PoolRecords
<1>2. PICK n \in {x - p.base : p \in m} : \A k \in {x - p.base : p \in m} : n <= k
  BY <1>1, LeastNumber
<1>3. PICK p \in m : n = x - p.base
  BY <1>2
<1>4. \A q \in m : p.base >= q.base
  <2>1. \A q \in m : n <= x - q.base
    BY <1>2
  <2> QED
    BY <1>1, <1>3, <2>1
<1> QED
  BY <1>4 DEF Greatest

(* The pages of a range, as numbers. *)
LEMMA PagesAreNumbers ==
  ASSUME NEW e, e.base \in Nat, e.size \in Nat
  PROVE  \A x : x \in PagesOf(e) <=> x \in Nat /\ e.base <= x /\ x < e.base + e.size
BY DEF PagesOf

Distinct(m) == \A p, q \in m : p = q \/ Apart(p, q)

(* The search in an ordered map of pools that do not overlap finds the pool  *)
(* that has the address, if there is one.                                    *)
LEMMA LookupFinds ==
  ASSUME NEW m, m \subseteq PoolRecords, Distinct(m), NEW x \in Nat
  PROVE  /\ \A p \in m : x \in PagesOf(p) => Lookup(m, x) = p
         /\ (\A p \in m : x \notin PagesOf(p)) => Lookup(m, x) = None
<1> DEFINE above == {p \in m : p.base >= x}
           below == m \ above
           E == EntryFor(m, x)
<1>1. \A p \in m : p \in PoolRecords /\ p.base \in Nat /\ p.size \in Nat \ {0} /\ p # None
  BY ConstantsAssumption DEF PoolRecords
<1>2. \A p \in m : x \in PagesOf(p) <=> p.base <= x /\ x < p.base + p.size
  BY <1>1, PagesAreNumbers
<1>3. above # {} => Least(above) \in above /\ \A q \in above : Least(above).base <= q.base
  BY LeastEntry
<1>4. \A p \in below : p.base < x
  BY <1>1
<1>5. below # {} => Greatest(below) \in below /\ \A q \in below : Greatest(below).base >= q.base
  <2>1. below \subseteq PoolRecords
    OBVIOUS
  <2> HIDE DEF below
  <2> QED
    BY <1>4, <2>1, GreatestEntry
<1>6. E = IF above # {} /\ Least(above).base = x THEN Least(above)
          ELSE IF below # {} THEN Greatest(below) ELSE None
  <2>1. CASE m = {}
    BY <2>1 DEF EntryFor
  <2>2. CASE m # {} /\ above = {}
    <3>1. below = m
      BY <2>2
    <3> QED
      BY <2>2, <3>1 DEF EntryFor
  <2>3. CASE m # {} /\ above # {} /\ Least(above).base = x
    BY <2>3 DEF EntryFor
  <2>4. CASE m # {} /\ above # {} /\ Least(above).base # x
    BY <2>4 DEF EntryFor
  <2> QED
    BY <2>1, <2>2, <2>3, <2>4
<1> HIDE DEF E
<1>7. E = None \/ E \in m
  BY <1>3, <1>5, <1>6
<1>8. \A p \in m : DetermineOffset(p, x) # None <=> x \in PagesOf(p)
  <2>1. \A p \in m : x - p.base \in Int
    BY <1>1
  <2>2. ASSUME NEW p \in m, x \in PagesOf(p)
        PROVE  DetermineOffset(p, x) \in Nat
    BY <1>1, <1>2, <2>2 DEF DetermineOffset
  <2>3. ASSUME NEW p \in m, x \notin PagesOf(p)
        PROVE  DetermineOffset(p, x) = None
    BY <1>1, <1>2, <2>3 DEF DetermineOffset
  <2> QED
    BY <2>2, <2>3, ConstantsAssumption
<1>9. ASSUME NEW p \in m, x \in PagesOf(p)
      PROVE  E = p
  <2>1. p.base <= x /\ x < p.base + p.size
    BY <1>2, <1>9
  <2>2. CASE p.base = x
    <3>1. p \in above
      BY <2>2
    <3>2. Least(above).base = x /\ Least(above) \in m
      BY <1>1, <1>3, <2>2, <3>1
    <3>3. Least(above) = p
      BY <1>1, <2>2, <3>2 DEF Distinct, Apart
    <3> QED
      BY <1>6, <3>1, <3>2, <3>3
  <2>3. CASE p.base # x
    <3>1. p \in below
      BY <1>1, <2>1, <2>3
    <3>2. \A q \in m : q.base # x
      BY <1>1, <2>1, <2>3 DEF Distinct, Apart
    <3>3. E = Greatest(below)
      BY <1>3, <1>6, <3>1, <3>2
    <3>4. E \in m /\ E.base >= p.base /\ E.base < x
      BY <1>4, <1>5, <3>1, <3>3
    <3>5. E = p
      BY <1>1, <2>1, <3>4 DEF Distinct, Apart
    <3> QED
      BY <3>5
  <2> QED
    BY <2>2, <2>3
<1>10. Lookup(m, x) = IF E = None \/ DetermineOffset(E, x) = None THEN None ELSE E
  BY DEF Lookup, E
<1> QED
  BY <1>1, <1>7, <1>8, <1>9, <1>10

-----------------------------------------------------------------------------
(* Consequences of the invariant. *)

(* Two pools that are mapped at once do not overlap, since a page is of one. *)
LEMMA MappedApart ==
  ASSUME NEW p, NEW q, p.base \in Nat, p.size \in Nat \ {0}, q.base \in Nat, q.size \in Nat \ {0},
         p.id # q.id, MappedAt(p), MappedAt(q)
  PROVE  Apart(p, q)
<1> SUFFICES ASSUME ~Apart(p, q) PROVE FALSE
  OBVIOUS
<1>1. PICK x \in Nat : x \in PagesOf(p) /\ x \in PagesOf(q)
  <2>1. CASE p.base <= q.base
    <3>1. q.base \in PagesOf(p) /\ q.base \in PagesOf(q)
      BY <2>1 DEF Apart, PagesOf
    <3> QED
      BY <3>1
  <2>2. CASE q.base <= p.base
    <3>1. p.base \in PagesOf(p) /\ p.base \in PagesOf(q)
      BY <2>2 DEF Apart, PagesOf
    <3> QED
      BY <3>1
  <2> QED
    BY <2>1, <2>2
<1>2. PoolPage(p.id, x - p.base) = PoolPage(q.id, x - q.base)
  BY <1>1 DEF MappedAt
<1>3. PoolPage(p.id, x - p.base).id = PoolPage(q.id, x - q.base).id
  BY <1>2
<1> QED
  BY <1>3 DEF PoolPage

(* The pools of a collection, and those of the repository, do not overlap. *)
LEMMA PoolsApart ==
  ASSUME Typed, PoolsOK, MemoryOK
  PROVE  /\ \A a, b \in Arenas : \A p \in pools[a], q \in pools[b] : p = q \/ Apart(p, q)
         /\ \A a \in Arenas : pools[a] \subseteq PoolRecords /\ Distinct(pools[a])
<1>1. \A a \in Arenas : \A p \in pools[a] :
        p \in PoolRecords /\ p.base \in Nat /\ p.size \in Nat \ {0} /\ MappedAt(p)
  BY DEF Typed, MemoryOK, PoolRecords
<1>2. \A a, b \in Arenas : \A p \in pools[a], q \in pools[b] : p = q \/ Apart(p, q)
  BY <1>1, MappedApart DEF PoolsOK
<1> QED
  BY <1>1, <1>2 DEF Distinct

(* What is in the repository are pools of collections. *)
LEMMA RepositoryPools ==
  ASSUME Typed, PoolsOK, MemoryOK, RepositoryOK
  PROVE  /\ \A p \in idMap : p.arena \in Arenas /\ p \in pools[p.arena] /\ MappedAt(p)
         /\ idMap \subseteq PoolRecords /\ Distinct(idMap)
         /\ \A p, q \in idMap : p.id = q.id => p = q
<1>1. \A p \in idMap : p.arena \in Arenas /\ p \in pools[p.arena]
  BY DEF RepositoryOK, PoolsOK, Typed
<1>2. \A p \in idMap : MappedAt(p) /\ p \in PoolRecords
  BY <1>1 DEF MemoryOK, Typed
<1>3. Distinct(idMap)
  BY <1>1, PoolsApart DEF Distinct
<1>4. \A p, q \in idMap : p.id = q.id => p = q
  BY <1>1 DEF PoolsOK
<1> QED
  BY <1>1, <1>2, <1>3, <1>4

(* An extent's pages are pages of its pool, and its start leads there. *)
LEMMA ExtentPages ==
  ASSUME NEW e \in ExtentRecords, NEW p \in PoolRecords, Inside(e, p)
  PROVE  PagesOf(e) \subseteq PagesOf(p) /\ e.base \in PagesOf(e) /\ e.base \in Nat
BY DEF ExtentRecords, PoolRecords, Inside, PagesOf

LEMMA ExtentLookup ==
  ASSUME Typed, PoolsOK, MemoryOK, NEW a \in Arenas, NEW e \in ExtentRecords,
         NEW p \in pools[a], Inside(e, p)
  PROVE  /\ Lookup(pools[a], e.base) = p /\ p # None
         /\ IsSubset(p, e.base, e.size) /\ DetermineOffset(p, e.base) = e.base - p.base
         /\ \A q \in pools[a] : Inside(e, q) => q = p
<1>1. pools[a] \subseteq PoolRecords /\ Distinct(pools[a]) /\ p \in PoolRecords
  BY PoolsApart
<1>2. \A q \in pools[a] : Inside(e, q) => Lookup(pools[a], e.base) = q
  <2> SUFFICES ASSUME NEW q \in pools[a], Inside(e, q) PROVE Lookup(pools[a], e.base) = q
    OBVIOUS
  <2>1. e.base \in PagesOf(q) /\ e.base \in Nat
    BY <1>1, ExtentPages
  <2> QED
    BY <1>1, <2>1, LookupFinds
<1>3. p.base \in Nat /\ p.size \in Nat \ {0} /\ e.base \in Nat /\ e.size \in Nat \ {0}
  BY <1>1 DEF PoolRecords, ExtentRecords
<1>4. DetermineOffset(p, e.base) = e.base - p.base
  BY <1>3 DEF DetermineOffset, Inside
<1>5. IsSubset(p, e.base, e.size)
  <2>1. e.base - p.base \in Nat /\ p.size - (e.base - p.base) >= e.size
    BY <1>3 DEF Inside
  <2> QED
    BY <1>4, <2>1, ConstantsAssumption DEF IsSubset
<1> QED
  BY <1>1, <1>2, <1>4, <1>5, ConstantsAssumption

(* Counting the pages of a pool that are in extents. *)
LEMMA UsedIsFinite ==
  ASSUME NEW p \in PoolRecords, NEW E
  PROVE  IsFiniteSet(Used(E, p)) /\ Cardinality(Used(E, p)) \in Nat
<1>1. p.base \in Nat /\ p.size \in Nat
  BY DEF PoolRecords
<1>2. IsFiniteSet(PagesOf(p))
  BY <1>1, FS_Interval DEF PagesOf
<1>3. Used(E, p) \in SUBSET PagesOf(p)
  BY DEF Used
<1> QED
  BY <1>2, <1>3, FS_Subset, FS_CardinalityType

(* An extent has as many pages as its size says. *)
LEMMA PagesCounted ==
  ASSUME NEW e, e.base \in Nat, e.size \in Nat \ {0}
  PROVE  IsFiniteSet(PagesOf(e)) /\ Cardinality(PagesOf(e)) = e.size
<1>1. PICK l \in Int, h \in Int : l = e.base /\ h = e.base + e.size - 1
  OBVIOUS
<1>2. IsFiniteSet(l .. h) /\ Cardinality(l .. h) = IF l > h THEN 0 ELSE h - l + 1
  BY FS_Interval
<1>3. PagesOf(e) = l .. h
  BY <1>1 DEF PagesOf
<1>4. ~(l > h) /\ h - l + 1 = e.size
  BY <1>1
<1> QED
  BY <1>2, <1>3, <1>4

(* Ranges that are apart share no page. *)
LEMMA ApartPages ==
  ASSUME NEW e, NEW f, e.base \in Nat, e.size \in Nat, f.base \in Nat, f.size \in Nat, Apart(e, f)
  PROVE  \A x \in PagesOf(e) : x \notin PagesOf(f)
BY DEF Apart, PagesOf

(* Taking an extent away uncounts its pages. *)
LEMMA UsedLess ==
  ASSUME NEW p \in PoolRecords, NEW E, E \subseteq ExtentRecords,
         \A f, g \in E : f = g \/ Apart(f, g), NEW e \in E, Inside(e, p)
  PROVE  /\ e.size <= Cardinality(Used(E, p))
         /\ Cardinality(Used(E \ {e}, p)) = Cardinality(Used(E, p)) - e.size
<1> DEFINE U == Used(E, p)
           V == Used(E \ {e}, p)
           P == PagesOf(e)
<1>1. e \in ExtentRecords /\ e.base \in Nat /\ e.size \in Nat \ {0}
  BY DEF ExtentRecords
<1>2. P \subseteq PagesOf(p)
  BY <1>1, ExtentPages
<1>3. \A f \in E \ {e} : \A x \in PagesOf(f) : x \notin P
  <2> SUFFICES ASSUME NEW f \in E \ {e}, NEW x \in PagesOf(f) PROVE x \notin P
    OBVIOUS
  <2>1. f.base \in Nat /\ f.size \in Nat /\ Apart(f, e)
    BY DEF ExtentRecords
  <2> QED
    BY <1>1, <2>1, ApartPages
<1>4. U = V \cup P /\ V \cap P = {}
  BY <1>2, <1>3 DEF Used
<1>5. IsFiniteSet(V) /\ Cardinality(V) \in Nat
  BY UsedIsFinite
<1>6. IsFiniteSet(P) /\ Cardinality(P) = e.size
  BY <1>1, PagesCounted
<1> HIDE DEF U, V, P
<1>7. Cardinality(U) = Cardinality(V) + Cardinality(P) - Cardinality(V \cap P)
  BY <1>4, <1>5, <1>6, FS_Union
<1>8. Cardinality(V \cap P) = 0
  BY <1>4, FS_EmptySet
<1>9. Cardinality(U) = Cardinality(V) + e.size
  BY <1>1, <1>5, <1>6, <1>7, <1>8
<1>10. e.size <= Cardinality(U) /\ Cardinality(V) = Cardinality(U) - e.size
  BY <1>1, <1>5, <1>9
<1> QED
  BY <1>10 DEF U, V

(* Extents elsewhere do not count. *)
LEMMA UsedElsewhere ==
  ASSUME NEW p \in PoolRecords, NEW E, NEW F,
         \A e : (e \in E /\ e \notin F) \/ (e \in F /\ e \notin E) =>
                  \A x \in PagesOf(e) : x \notin PagesOf(p)
  PROVE  Used(E, p) = Used(F, p)
BY DEF Used

-----------------------------------------------------------------------------
(* The properties follow from the invariant. *)

(* Both maps of the repository have the same pools, which are apart. *)
LEMMA InvLookup == ArenaInv => LookupIsExact
<1> SUFFICES ASSUME ArenaInv, NEW x \in Pages
             PROVE  {p \in idMap : x \in PagesOf(p)} =
                      IF Lookup(addressMap, x) = None THEN {} ELSE {Lookup(addressMap, x)}
  BY DEF LookupIsExact
<1>1. x \in Nat
  BY ConstantsAssumption
<1>2. idMap = addressMap /\ idMap \subseteq PoolRecords /\ Distinct(idMap)
  BY RepositoryPools DEF ArenaInv, RepositoryOK
<1>3. None \notin idMap
  BY <1>2, ConstantsAssumption
<1>4. /\ \A p \in idMap : x \in PagesOf(p) => Lookup(idMap, x) = p
      /\ (\A p \in idMap : x \notin PagesOf(p)) => Lookup(idMap, x) = None
  BY <1>1, <1>2, LookupFinds
<1>5. CASE \E p \in idMap : x \in PagesOf(p)
  <2>1. PICK p \in idMap : x \in PagesOf(p)
    BY <1>5
  <2>2. Lookup(idMap, x) = p /\ p # None
    BY <1>3, <1>4, <2>1
  <2>3. {q \in idMap : x \in PagesOf(q)} = {p}
    BY <1>4, <2>1
  <2> QED
    BY <1>2, <2>2, <2>3
<1>6. CASE \A p \in idMap : x \notin PagesOf(p)
  <2>1. Lookup(addressMap, x) = None
    BY <1>2, <1>4, <1>6
  <2>2. {q \in idMap : x \in PagesOf(q)} = {}
    BY <1>6
  <2> QED
    BY <2>1, <2>2
<1> QED
  BY <1>5, <1>6

LEMMA InvTranslated == ArenaInv => TranslatedIsMapped
<1> SUFFICES ASSUME ArenaInv, NEW p \in idMap, NEW x \in PagesOf(p)
             PROVE  mem[x] = PoolPage(p.id, x - p.base)
  BY DEF TranslatedIsMapped
<1>1. MappedAt(p)
  BY RepositoryPools DEF ArenaInv
<1> QED
  BY <1>1 DEF MappedAt

LEMMA InvMemory == ArenaInv => MemoryIsTranslated
<1> SUFFICES ASSUME ArenaInv, NEW a \in listening, life[a] = "live",
                    NEW e \in extents[a], NEW x \in PagesOf(e)
             PROVE  Lookup(addressMap, x) # None /\ Lookup(addressMap, x).arena = a
  BY DEF MemoryIsTranslated
<1>1. a \in Arenas /\ e \in ExtentRecords
  BY DEF ArenaInv, Typed
<1>2. PICK p \in known[a] : Inside(e, p)
  BY <1>1 DEF ArenaInv, ExtentsOK
<1>3. p \in idMap /\ p \in pools[a] /\ p \in PoolRecords /\ p.arena = a
  BY <1>1, <1>2 DEF ArenaInv, RepositoryOK, PoolsOK, Typed
<1>4. x \in PagesOf(p) /\ x \in Nat
  <2>1. x \in PagesOf(p)
    BY <1>1, <1>2, <1>3, ExtentPages
  <2>2. p.base \in Nat /\ p.size \in Nat
    BY <1>3 DEF PoolRecords
  <2> QED
    BY <2>1, <2>2, PagesAreNumbers
<1>5. idMap = addressMap /\ idMap \subseteq PoolRecords /\ Distinct(idMap)
  BY RepositoryPools DEF ArenaInv, RepositoryOK
<1>6. Lookup(addressMap, x) = p
  BY <1>3, <1>4, <1>5, LookupFinds
<1> QED
  BY <1>3, <1>6, ConstantsAssumption

LEMMA InvHooks == ArenaInv => HooksFindPages
<1> SUFFICES ASSUME ArenaInv, NEW a \in Arenas, NEW e \in extents[a], NEW o \in 0 .. (e.size - 1)
             PROVE  LET c == ComputePoolAndOffset(a, e.base, e.size, o, 1)
                    IN  c # None /\ mem[e.base + o] = PoolPage(c.pool.id, c.offset)
  BY DEF HooksFindPages
<1>1. e \in ExtentRecords /\ e.base \in Nat /\ e.size \in Nat \ {0}
  BY DEF ArenaInv, Typed, ExtentRecords
<1>2. PICK p \in pools[a] : Inside(e, p)
  BY DEF ArenaInv, ExtentsOK
<1>3. p \in PoolRecords /\ p.base \in Nat /\ p.size \in Nat
  BY DEF ArenaInv, Typed, PoolRecords
<1>4. /\ Lookup(pools[a], e.base) = p /\ p # None
      /\ IsSubset(p, e.base, e.size) /\ DetermineOffset(p, e.base) = e.base - p.base
  BY <1>1, <1>2, ExtentLookup DEF ArenaInv
<1>5. o \in Nat /\ ~(o > e.size \/ 1 > e.size \/ o + 1 > e.size)
  BY <1>1
<1>6. ComputePoolAndOffset(a, e.base, e.size, o, 1) = [pool |-> p, offset |-> e.base - p.base + o]
  BY <1>4, <1>5 DEF ComputePoolAndOffset
<1>7. e.base - p.base + o \in Nat
  BY <1>1, <1>2, <1>3, <1>5 DEF Inside
<1>8. [pool |-> p, offset |-> e.base - p.base + o] # None
  BY <1>3, <1>7, ConstantsAssumption
<1>9. e.base + o \in PagesOf(p)
  BY <1>1, <1>2, <1>3, <1>5 DEF Inside, PagesOf
<1>10. mem[e.base + o] = PoolPage(p.id, e.base + o - p.base)
  <2>1. MappedAt(p)
    BY DEF ArenaInv, MemoryOK
  <2>2. PICK x \in PagesOf(p) : x = e.base + o
    BY <1>9
  <2>3. mem[x] = PoolPage(p.id, x - p.base)
    BY <2>1, <2>2 DEF MappedAt
  <2> QED
    BY <1>1, <1>3, <1>5, <2>2, <2>3
<1>11. e.base + o - p.base = e.base - p.base + o
  BY <1>1, <1>3, <1>5
<1> QED
  BY <1>6, <1>8, <1>10, <1>11

LEMMA InvNothingLeft == ArenaInv => NothingOfArenaLeft
<1> SUFFICES ASSUME ArenaInv, NEW a \in Arenas, life[a] = "gone"
             PROVE  /\ \A p \in idMap \cup addressMap : p.arena # a
                    /\ \A p \in pools[a] : p.id \in kept
                    /\ names \subseteq kept \cup
                         {p.id : p \in UNION {pools[b] : b \in Arenas \ {a}}} \cup
                         {thread[t].id : t \in {u \in Threads : thread[u] # Idle}} \cup
                         {removing[b].pool.id : b \in {c \in Arenas : removing[c] # None}}
                    /\ \A x \in Pages : mem[x].kind = "pool" => mem[x].id \in names
  BY DEF NothingOfArenaLeft
<1>1. \A p \in idMap \cup addressMap : p.arena # a
  BY DEF ArenaInv, RepositoryOK, PoolsOK
<1>2. \A p \in pools[a] : p.id \in kept
  <2> SUFFICES ASSUME NEW p \in pools[a], p.id \notin kept PROVE FALSE
    OBVIOUS
  <2>1. extents[a] = {}
    BY DEF ArenaInv, ExtentsOK
  <2>2. ~Fresh(p)
    <3> SUFFICES ASSUME NEW t \in Threads, thread[t].pc = "registered", thread[t].id = p.id PROVE FALSE
      BY DEF Fresh
    <3>1. /\ thread[t].arena \in Arenas /\ life[thread[t].arena] = "live"
          /\ NewPool(t) \in pools[thread[t].arena]
      BY DEF ArenaInv, ThreadsOK
    <3>2. NewPool(t).id = p.id
      BY DEF NewPool
    <3>3. NewPool(t) = p
      BY <3>1, <3>2 DEF ArenaInv, PoolsOK
    <3>4. p.arena = a /\ NewPool(t).arena = thread[t].arena
      BY DEF ArenaInv, PoolsOK, NewPool
    <3> QED
      BY <3>1, <3>3, <3>4
  <2>3. remaining[p.id] = Cardinality(Used(extents[a], p)) /\ remaining[p.id] > 0
    BY <2>2 DEF ArenaInv, CountsOK, PoolsOK
  <2>4. Used(extents[a], p) = {}
    BY <2>1 DEF Used
  <2>5. Cardinality({}) = 0
    BY FS_EmptySet
  <2> QED
    BY <2>3, <2>4, <2>5
<1>3. \A i \in names :
        \/ i \in kept
        \/ i \in {p.id : p \in UNION {pools[b] : b \in Arenas \ {a}}}
        \/ i \in {thread[t].id : t \in {u \in Threads : thread[u] # Idle}}
        \/ i \in {removing[b].pool.id : b \in {c \in Arenas : removing[c] # None}}
  <2> SUFFICES ASSUME NEW i \in names
               PROVE  \/ i \in kept
                      \/ i \in {p.id : p \in UNION {pools[b] : b \in Arenas \ {a}}}
                      \/ i \in {thread[t].id : t \in {u \in Threads : thread[u] # Idle}}
                      \/ i \in {removing[b].pool.id : b \in {c \in Arenas : removing[c] # None}}
    OBVIOUS
  <2>1. CASE \E b \in Arenas : \E p \in pools[b] : p.id = i
    BY <1>2, <2>1
  <2>2. CASE \E t \in Threads : thread[t].pc # "idle" /\ thread[t].id = i
    <3>1. \A t \in Threads : thread[t].pc # "idle" => thread[t] # Idle
      BY DEF Idle
    <3> QED
      BY <2>2, <3>1
  <2>3. CASE \E b \in Arenas : removing[b] # None /\ removing[b].pool.id = i
    BY <2>3
  <2> QED
    BY <2>1, <2>2, <2>3 DEF ArenaInv, NamesOK
<1>4. ASSUME NEW x \in Pages, mem[x].kind = "pool"
      PROVE  mem[x].id \in names
  <2>1. Held(mem[x].id, x)
    BY <1>4 DEF ArenaInv, MemoryOK
  <2>2. CASE \E b \in Arenas : \E p \in pools[b] : p.id = mem[x].id
    BY <2>2 DEF ArenaInv, PoolsOK
  <2>3. CASE \E t \in Threads : thread[t].pc = "mapped" /\ thread[t].id = mem[x].id
    BY <2>3 DEF ArenaInv, ThreadsOK
  <2>4. CASE \E b \in Arenas : removing[b] # None /\ removing[b].pool.id = mem[x].id
    BY <2>4 DEF ArenaInv, RemovingOK
  <2> QED
    BY <2>1, <2>2, <2>3, <2>4 DEF Held
<1> QED
  BY <1>1, <1>2, <1>3, <1>4

-----------------------------------------------------------------------------
(* Each step keeps the invariant. *)

(* Steps that only change how far the life of an arena is.                   *)
LEMMA LifeStep ==
  ASSUME ArenaInv, NEW a \in Arenas, NEW l \in {"live", "closing", "destroying", "gone"},
         life' = [life EXCEPT ![a] = l],
         UNCHANGED <<listening, pools, known, jemalloc, mem, names, nextId, thread,
                     repository, kept>>,
         l = "live" => pools[a] = {},
         l # "live" => \A t \in Threads : thread[t].pc # "idle" => thread[t].arena # a,
         l \in {"destroying", "gone"} => known[a] = {},
         l = "gone" => extents[a] = {},
         removing[a] # None => l = "destroying"
  PROVE  ArenaInv'
<1> USE DEF jemalloc, repository
<1>1. \A b \in Arenas : life'[b] = IF b = a THEN l ELSE life[b]
  BY DEF ArenaInv, Typed
<1>2. Typed'
  BY DEF ArenaInv, Typed
<1>3. PoolsOK'
  BY <1>1 DEF ArenaInv, PoolsOK
<1>4. RemovingOK'
  BY <1>1 DEF ArenaInv, RemovingOK
<1>5. ThreadsOK'
  <2>1. \A t \in Threads : NewPool(t)' = NewPool(t)
    BY DEF NewPool
  <2>2. \A t \in Threads : thread[t].pc # "idle" => life'[thread[t].arena] = "live"
    BY <1>1 DEF ArenaInv, ThreadsOK
  <2> QED
    BY <2>1, <2>2 DEF ArenaInv, ThreadsOK
<1>6. MemoryOK'
  BY DEF ArenaInv, MemoryOK, MappedAt, ReservedAt, ThreadMemory, Held, NewPool
<1>7. NamesOK' /\ RepositoryOK'
  BY DEF ArenaInv, NamesOK, RepositoryOK
<1>8. ExtentsOK'
  <2> SUFFICES ASSUME NEW b \in Arenas
               PROVE  /\ \A e \in extents[b] : \E p \in pools[b] :
                           Inside(e, p) /\ (life'[b] = "live" => p \in known[b])
                      /\ \A e, f \in extents[b] : e = f \/ Apart(e, f)
                      /\ life'[b] = "gone" => extents[b] = {}
    BY DEF ExtentsOK
  <2>1. /\ \A e \in extents[b] : \E p \in pools[b] :
             Inside(e, p) /\ (life[b] = "live" => p \in known[b])
        /\ \A e, f \in extents[b] : e = f \/ Apart(e, f)
        /\ life[b] = "gone" => extents[b] = {}
    BY DEF ArenaInv, ExtentsOK
  <2> QED
    BY <1>1, <2>1
<1>9. CountsOK'
  BY DEF ArenaInv, CountsOK, Fresh
<1> QED
  BY <1>2, <1>3, <1>4, <1>5, <1>6, <1>7, <1>8, <1>9 DEF ArenaInv

(* Nothing the invariant is about changes. *)
LEMMA StutterStep ==
  ASSUME ArenaInv,
         UNCHANGED <<life, listening, pools, known, jemalloc, mem, names, nextId, thread,
                     repository, kept>>
  PROVE  ArenaInv'
<1> USE DEF jemalloc, repository
<1>1. Typed' /\ PoolsOK' /\ RemovingOK'
  BY DEF ArenaInv, Typed, PoolsOK, RemovingOK
<1>2. ThreadsOK'
  BY DEF ArenaInv, ThreadsOK, NewPool
<1>3. MemoryOK'
  BY DEF ArenaInv, MemoryOK, MappedAt, ReservedAt, ThreadMemory, Held, NewPool
<1>4. NamesOK' /\ RepositoryOK'
  BY DEF ArenaInv, NamesOK, RepositoryOK
<1>5. ExtentsOK'
  BY DEF ArenaInv, ExtentsOK
<1>6. CountsOK'
  BY DEF ArenaInv, CountsOK, Fresh
<1> QED
  BY <1>1, <1>2, <1>3, <1>4, <1>5, <1>6 DEF ArenaInv

(* The life of an arena and its references. *)
LEMMA OwnerSteps ==
  ASSUME ArenaInv, NEW a \in Arenas,
         \/ CreateArena(a) \/ Construct(a) \/ DropObject(a) \/ DestroyListener(a)
         \/ DropSession(a) \/ BeginDestroy(a) \/ BeginRemoval(a) \/ EndDestroy(a)
  PROVE  ArenaInv'
<1>1. CASE Construct(a) \/ DropObject(a) \/ DestroyListener(a) \/ DropSession(a)
  BY <1>1, StutterStep DEF Construct, DropObject, DestroyListener, DropSession
<1>2. removing[a] # None => life[a] = "destroying"
  BY DEF ArenaInv, RemovingOK
<1>3. CASE CreateArena(a)
  <2>1. pools[a] = {} /\ removing[a] = None
    BY <1>2, <1>3 DEF CreateArena, ArenaInv, PoolsOK
  <2> QED
    BY <1>3, <2>1, LifeStep DEF CreateArena
<1>4. CASE BeginDestroy(a)
  <2>1. removing[a] = None /\ \A t \in Threads : thread[t].arena # a
    BY <1>2, <1>4 DEF BeginDestroy, Unused
  <2> QED
    BY <1>4, <2>1, LifeStep DEF BeginDestroy
<1>5. life[a] # "live" => \A t \in Threads : thread[t].pc # "idle" => thread[t].arena # a
  BY DEF ArenaInv, ThreadsOK
<1>6. CASE BeginRemoval(a)
  BY <1>2, <1>5, <1>6, LifeStep DEF BeginRemoval
<1>7. CASE EndDestroy(a)
  <2>1. known[a] = {}
    BY <1>7 DEF EndDestroy, ArenaInv, PoolsOK
  <2> QED
    BY <1>5, <1>7, <2>1, LifeStep DEF EndDestroy
<1> QED
  BY <1>1, <1>3, <1>4, <1>6, <1>7

(* pages_map_slow() reserves enough that an aligned address is among the     *)
(* first ones.                                                               *)
LEMMA AlignedExists ==
  ASSUME NEW th, th.base \in Nat, th.align \in Nat \ {0}
  PROVE  /\ Aligned(th) \in Nat /\ th.base <= Aligned(th)
         /\ Aligned(th) <= th.base + th.align - 1
<1>1. PICK b \in Nat, n \in Nat \ {0} : b = th.base /\ n = th.align
  OBVIOUS
<1>2. \E x \in b .. (b + n - 1) : x % n = 0
  <2>1. PICK r \in 0 .. (n - 1) : r = b % n
    OBVIOUS
  <2>2. PICK k \in Nat : b = n * k + r
    <3>1. b = (n * (b \div n)) + (b % n) /\ b \div n \in Nat
      OBVIOUS
    <3> QED
      BY <2>1, <3>1
  <2>3. CASE r = 0
    BY <2>1, <2>3
  <2>4. CASE r # 0
    <3>1. (n * (k + 1)) % n = 0
      OBVIOUS
    <3>2. n * (k + 1) = b + n - r
      BY <2>2
    <3>3. b + n - r \in b .. (b + n - 1)
      BY <2>4
    <3> QED
      BY <3>1, <3>2, <3>3
  <2> QED
    BY <2>3, <2>4
<1>3. Aligned(th) \in b .. (b + n - 1)
  BY <1>1, <1>2 DEF Aligned
<1> QED
  BY <1>1, <1>3

(* What the repository has been told changes, and nothing else. *)
LEMMA RepositoryStep ==
  ASSUME ArenaInv, listening' \subseteq Arenas,
         UNCHANGED <<life, pools, jemalloc, mem, names, nextId, thread, kept>>,
         known' \in [Arenas -> SUBSET PoolRecords],
         \A b \in Arenas : known'[b] \subseteq known[b],
         \A b \in Arenas : life[b] = "live" => known'[b] = known[b],
         RepositoryOK'
  PROVE  ArenaInv'
<1> USE DEF jemalloc
<1>1. Typed'
  BY DEF ArenaInv, Typed
<1>2. PoolsOK'
  <2>1. \A b \in Arenas : known'[b] \subseteq pools[b]
    BY DEF ArenaInv, PoolsOK
  <2>2. \A b \in Arenas : life[b] \in {"destroying", "gone"} => known'[b] = {}
    BY DEF ArenaInv, PoolsOK
  <2> QED
    BY <2>1, <2>2 DEF ArenaInv, PoolsOK
<1>3. RemovingOK'
  BY DEF ArenaInv, RemovingOK
<1>4. ThreadsOK'
  <2>1. \A t \in Threads : NewPool(t)' = NewPool(t)
    BY DEF NewPool
  <2>2. \A t \in Threads : thread[t].pc = "registered" =>
          thread[t].arena \in Arenas /\ NewPool(t) \notin known'[thread[t].arena]
    BY DEF ArenaInv, ThreadsOK
  <2> QED
    BY <2>1, <2>2 DEF ArenaInv, ThreadsOK
<1>5. MemoryOK'
  BY DEF ArenaInv, MemoryOK, MappedAt, ReservedAt, ThreadMemory, Held, NewPool
<1>6. NamesOK'
  BY DEF ArenaInv, NamesOK
<1>7. ExtentsOK'
  <2> SUFFICES ASSUME NEW b \in Arenas
               PROVE  /\ \A e \in extents[b] : \E p \in pools[b] :
                           Inside(e, p) /\ (life[b] = "live" => p \in known'[b])
                      /\ \A e, f \in extents[b] : e = f \/ Apart(e, f)
                      /\ life[b] = "gone" => extents[b] = {}
    BY DEF ExtentsOK
  <2>1. /\ \A e \in extents[b] : \E p \in pools[b] :
             Inside(e, p) /\ (life[b] = "live" => p \in known[b])
        /\ \A e, f \in extents[b] : e = f \/ Apart(e, f)
        /\ life[b] = "gone" => extents[b] = {}
    BY DEF ArenaInv, ExtentsOK
  <2> QED
    BY <2>1
<1>8. CountsOK'
  BY DEF ArenaInv, CountsOK, Fresh
<1> QED
  BY <1>1, <1>2, <1>3, <1>4, <1>5, <1>6, <1>7, <1>8 DEF ArenaInv

(* Pools of collections that are not in the repository can be inserted:      *)
(* their ids are their own, and so is the address while they are mapped.     *)
LEMMA InsertAccepts ==
  ASSUME Typed, PoolsOK, MemoryOK, RepositoryOK, NEW b \in Arenas, NEW S, S \subseteq pools[b],
         S \cap idMap = {}
  PROVE  Insertable(S) = S
<1> SUFFICES ASSUME NEW p \in S
             PROVE  (\A q \in idMap : q.id # p.id) /\ (\A q \in addressMap : q.base # p.base)
  BY DEF Insertable
<1> SUFFICES ASSUME NEW q \in idMap PROVE q.id # p.id /\ q.base # p.base
  BY DEF RepositoryOK
<1>1. q.arena \in Arenas /\ q \in pools[q.arena] /\ p \in pools[b] /\ p # q
  BY RepositoryPools
<1>2. q.id # p.id
  BY <1>1 DEF PoolsOK
<1>3. Apart(p, q)
  BY <1>1, PoolsApart
<1>4. p.base \in Nat /\ q.base \in Nat /\ p.size \in Nat \ {0} /\ q.size \in Nat \ {0}
  BY <1>1 DEF Typed, PoolRecords
<1> QED
  BY <1>2, <1>3, <1>4 DEF Apart

LEMMA AddListenerStep ==
  ASSUME ArenaInv, NEW a \in Arenas, AddListener(a)
  PROVE  ArenaInv'
<1>1. known[a] \subseteq pools[a] /\ \A p \in pools[a] : p.arena = a
  BY DEF ArenaInv, PoolsOK
<1>2. known[a] \cap idMap = {}
  BY <1>1 DEF AddListener, ArenaInv, RepositoryOK
<1>3. Insertable(known[a]) = known[a]
  BY <1>1, <1>2, InsertAccepts DEF ArenaInv
<1>4. idMap' = idMap \cup known[a] /\ addressMap' = addressMap \cup known[a]
  BY <1>3 DEF AddListener, Insert
<1>5. RepositoryOK'
  <2>1. idMap' = addressMap'
    BY <1>4 DEF ArenaInv, RepositoryOK
  <2>2. \A p \in idMap' : p.arena \in listening' /\ p \in known'[p.arena]
    BY <1>1, <1>4 DEF AddListener, ArenaInv, RepositoryOK
  <2>3. \A b \in listening' : known'[b] \subseteq idMap'
    BY <1>4 DEF AddListener, ArenaInv, RepositoryOK
  <2> QED
    BY <2>1, <2>2, <2>3 DEF RepositoryOK
<1>6. listening' \subseteq Arenas /\ known' = known /\ known \in [Arenas -> SUBSET PoolRecords]
  BY DEF AddListener, ArenaInv, Typed
<1> QED
  BY <1>5, <1>6, RepositoryStep DEF AddListener

LEMMA AnnounceRemovalStep ==
  ASSUME ArenaInv, NEW a \in Arenas, NEW p \in known[a], AnnounceRemoval(a, p)
  PROVE  ArenaInv'
<1>1. \A b \in Arenas : known'[b] = IF b = a THEN known[a] \ {p} ELSE known[b]
  BY DEF AnnounceRemoval, ArenaInv, Typed
<1>2. known' \in [Arenas -> SUBSET PoolRecords]
  BY DEF AnnounceRemoval, ArenaInv, Typed
<1>3. p \in pools[a] /\ p.arena = a
  BY DEF ArenaInv, PoolsOK
<1>4. p \in PoolRecords /\ p.base \in Nat /\ p.size \in Nat \ {0}
  BY <1>3 DEF ArenaInv, Typed, PoolRecords
<1>5. idMap' = idMap \ {p} /\ addressMap' = addressMap \ {p}
  <2>1. CASE a \notin listening
    BY <1>3, <2>1 DEF AnnounceRemoval, repository, ArenaInv, RepositoryOK
  <2>2. CASE a \in listening
    <3>1. p \in idMap /\ idMap = addressMap
      BY <2>2 DEF ArenaInv, RepositoryOK
    <3>2. \A q \in idMap : q # p => q.id # p.id /\ q.base # p.base
      <4> SUFFICES ASSUME NEW q \in idMap, q # p PROVE q.id # p.id /\ q.base # p.base
        OBVIOUS
      <4>1. q.id # p.id /\ Apart(q, p) /\ q \in PoolRecords
        BY <3>1, RepositoryPools DEF ArenaInv, Distinct
      <4> QED
        BY <1>4, <4>1 DEF Apart, PoolRecords
    <3>3. Erase(p)
      BY <2>2 DEF AnnounceRemoval
    <3> QED
      BY <3>1, <3>2, <3>3 DEF Erase
  <2> QED
    BY <2>1, <2>2
<1>6. RepositoryOK'
  <2>1. idMap' = addressMap'
    BY <1>5 DEF ArenaInv, RepositoryOK
  <2>2. \A q \in idMap' : q.arena \in listening' /\ q \in known'[q.arena]
    BY <1>1, <1>5 DEF AnnounceRemoval, owners, ArenaInv, RepositoryOK, Typed
  <2>3. \A b \in listening' : known'[b] \subseteq idMap'
    <3> SUFFICES ASSUME NEW b \in listening, NEW q \in known'[b] PROVE q \in idMap'
      BY DEF AnnounceRemoval, owners
    <3>1. b \in Arenas /\ q \in known[b] /\ known[b] \subseteq idMap
      BY <1>1 DEF ArenaInv, RepositoryOK, Typed
    <3>2. q # p
      BY <1>1, <1>3, <3>1 DEF ArenaInv, PoolsOK
    <3> QED
      BY <1>5, <3>1, <3>2
  <2> QED
    BY <2>1, <2>2, <2>3 DEF RepositoryOK
<1>7. life[a] = "closing" /\ listening \subseteq Arenas
  BY DEF AnnounceRemoval, ArenaInv, Typed
<1> QED
  BY <1>1, <1>2, <1>6, <1>7, RepositoryStep DEF AnnounceRemoval, owners

(* A thread that has no memory yet changes, and what it has named.  All that *)
(* has to be seen to are the ids: that those in use stay below the next one, *)
(* have a name and belong to one user.                                       *)
LEMMA ThreadStep ==
  ASSUME ArenaInv, NEW t \in Threads, thread' \in [Threads -> ThreadRecords],
         \A u \in Threads : u # t => thread'[u] = thread[u],
         thread[t].pc \in {"idle", "created", "trimmed"}, thread'[t].pc \in {"idle", "created"},
         nextId' \in Nat, nextId <= nextId',
         UNCHANGED <<life, listening, pools, known, jemalloc, mem, repository, kept>>,
         \A i \in names : i \in names' \/ (thread[t].pc # "idle" /\ thread[t].id = i),
         \A i \in names' : i \in names \/ (thread'[t].pc # "idle" /\ thread'[t].id = i),
         thread[t].pc # "idle" => thread[t].id \notin names',
         thread'[t].pc # "idle" =>
           /\ thread'[t].arena \in Arenas /\ life[thread'[t].arena] = "live"
           /\ thread'[t].id = nextId /\ nextId \in Ids /\ nextId' = nextId + 1
           /\ nextId \in names'
  PROVE  ArenaInv'
<1> USE DEF jemalloc, repository
<1>0. nextId \in Nat /\ \A i \in Nat : i < nextId => i < nextId' /\ i # nextId
  BY DEF ArenaInv, Typed
<1>a. /\ \A b \in Arenas : \A p \in pools[b] : p.id \in Nat
      /\ \A b \in Arenas : removing[b] # None => removing[b].pool.id \in Nat
      /\ \A u \in Threads : thread[u].id \in Nat
  <2>1. \A p \in PoolRecords : p.id \in Nat
    BY ConstantsAssumption DEF PoolRecords, Ids
  <2> QED
    BY <2>1 DEF ArenaInv, Typed, ThreadRecords
<1>b. \A b \in Arenas : \A p \in pools[b] : p.id < nextId' /\ p.id # nextId /\ p.id \in names'
  <2> SUFFICES ASSUME NEW b \in Arenas, NEW p \in pools[b]
               PROVE  p.id < nextId' /\ p.id # nextId /\ p.id \in names'
    OBVIOUS
  <2>1. p.id < nextId /\ p.id \in names
    BY DEF ArenaInv, PoolsOK
  <2>2. thread[t].pc # "idle" => p.id # thread[t].id
    BY DEF ArenaInv, ThreadsOK
  <2> QED
    BY <1>0, <1>a, <2>1, <2>2
<1>c. \A b \in Arenas : removing[b] # None =>
        removing[b].pool.id < nextId' /\ removing[b].pool.id # nextId /\ removing[b].pool.id \in names'
  <2> SUFFICES ASSUME NEW b \in Arenas, removing[b] # None
               PROVE  removing[b].pool.id < nextId' /\ removing[b].pool.id # nextId
                      /\ removing[b].pool.id \in names'
    OBVIOUS
  <2>1. removing[b].pool.id < nextId /\ removing[b].pool.id \in names
    BY DEF ArenaInv, RemovingOK
  <2>2. thread[t].pc # "idle" => removing[b].pool.id # thread[t].id
    BY DEF ArenaInv, ThreadsOK
  <2> QED
    BY <1>0, <1>a, <2>1, <2>2
<1>d. \A u \in Threads : u # t /\ thread[u].pc # "idle" =>
        thread[u].id < nextId' /\ thread[u].id # nextId /\ thread[u].id \in names'
  <2> SUFFICES ASSUME NEW u \in Threads, u # t, thread[u].pc # "idle"
               PROVE  thread[u].id < nextId' /\ thread[u].id # nextId /\ thread[u].id \in names'
    OBVIOUS
  <2>1. thread[u].id < nextId /\ thread[u].id \in names
    BY DEF ArenaInv, ThreadsOK
  <2>2. thread[t].pc # "idle" => thread[u].id # thread[t].id
    BY DEF ArenaInv, ThreadsOK
  <2> QED
    BY <1>0, <1>a, <2>1, <2>2
<1>1. Typed'
  BY DEF ArenaInv, Typed
<1>2. PoolsOK'
  BY <1>b DEF ArenaInv, PoolsOK
<1>3. RemovingOK'
  BY <1>c DEF ArenaInv, RemovingOK
<1>4. ThreadsOK'
  <2> SUFFICES ASSUME NEW u \in Threads, thread'[u].pc # "idle"
        PROVE
    /\ thread'[u].arena \in Arenas /\ life[thread'[u].arena] = "live"
    /\ thread'[u].id \in Ids /\ thread'[u].id < nextId' /\ thread'[u].id \in names'
    /\ \A v \in Threads : v # u /\ thread'[v].pc # "idle" => thread'[v].id # thread'[u].id
    /\ \A b \in Arenas : removing[b] # None => removing[b].pool.id # thread'[u].id
    /\ thread'[u].pc # "registered" =>
         \A b \in Arenas : \A q \in pools[b] : q.id # thread'[u].id
    /\ thread'[u].pc = "registered" =>
         /\ NewPool(u)' \in pools[thread'[u].arena] /\ NewPool(u)' \notin known[thread'[u].arena]
         /\ remaining[thread'[u].id] = thread'[u].size
    BY DEF ThreadsOK
  <2>1. CASE u = t
    <3>1. thread'[u].id = nextId /\ nextId < nextId'
      BY <1>0, <2>1
    <3> QED
      BY <1>b, <1>c, <1>d, <2>1, <3>1
  <2>2. CASE u # t
    <3>1. thread'[u] = thread[u] /\ NewPool(u)' = NewPool(u)
      BY <2>2 DEF NewPool
    <3>2. \A v \in Threads : v # u /\ thread'[v].pc # "idle" => thread'[v].id # thread'[u].id
      BY <1>d, <2>2, <3>1 DEF ArenaInv, ThreadsOK
    <3> QED
      BY <1>d, <2>2, <3>1, <3>2 DEF ArenaInv, ThreadsOK
  <2> QED
    BY <2>1, <2>2
<1>5. MemoryOK'
  <2>1. \A u \in Threads : thread'[u].pc \in {"mapped", "reserved", "trimmed"} =>
          thread'[u] = thread[u] /\ NewPool(u)' = NewPool(u)
    BY DEF NewPool
  <2>2. \A u \in Threads : thread[u].pc = "mapped" =>
          thread'[u] = thread[u] /\ NewPool(u)' = NewPool(u)
    BY DEF NewPool
  <2>3. \A x \in Pages : mem[x].kind = "pool" => Held(mem[x].id, x)'
    <3> SUFFICES ASSUME NEW x \in Pages, mem[x].kind = "pool" PROVE Held(mem[x].id, x)'
      OBVIOUS
    <3>1. Held(mem[x].id, x)
      BY DEF ArenaInv, MemoryOK
    <3> QED
      BY <2>2, <3>1 DEF Held
  <2>4. \A p : MappedAt(p)' = MappedAt(p)
    BY DEF MappedAt
  <2>5. \A u, R : ReservedAt(u, R)' = ReservedAt(u, R)
    BY DEF ReservedAt, ThreadMemory
  <2>6. ASSUME NEW u \in Threads
        PROVE  ThreadMemory(u)'
    <3>1. CASE thread'[u] = thread[u]
      BY <3>1 DEF ArenaInv, MemoryOK, MappedAt, ReservedAt, ThreadMemory, NewPool
    <3>2. CASE thread'[u] # thread[u]
      BY <2>1, <3>2 DEF ThreadMemory
    <3> QED
      BY <3>1, <3>2
  <2>7. /\ \A b \in Arenas : \A p \in pools[b] : MappedAt(p)'
        /\ \A b \in Arenas : removing[b] # None /\ removing[b].step = "unmap" => MappedAt(removing[b].pool)'
    BY DEF ArenaInv, MemoryOK, MappedAt
  <2> QED
    BY <2>3, <2>6, <2>7 DEF MemoryOK
<1>6. NamesOK'
  <2> SUFFICES ASSUME NEW i \in names'
               PROVE  \/ \E b \in Arenas : \E p \in pools[b] : p.id = i
                      \/ \E u \in Threads : thread'[u].pc # "idle" /\ thread'[u].id = i
                      \/ \E b \in Arenas : removing[b] # None /\ removing[b].pool.id = i
    BY DEF NamesOK
  <2>1. CASE i \notin names
    BY <2>1
  <2>2. CASE i \in names
    <3>1. \/ \E b \in Arenas : \E p \in pools[b] : p.id = i
          \/ \E u \in Threads : thread[u].pc # "idle" /\ thread[u].id = i
          \/ \E b \in Arenas : removing[b] # None /\ removing[b].pool.id = i
      BY <2>2 DEF ArenaInv, NamesOK
    <3>2. \A u \in Threads : thread[u].pc # "idle" /\ thread[u].id = i => u # t
      OBVIOUS
    <3> QED
      BY <3>1, <3>2
  <2> QED
    BY <2>1, <2>2
<1>7. RepositoryOK'
  BY DEF ArenaInv, RepositoryOK
<1>8. ExtentsOK'
  BY DEF ArenaInv, ExtentsOK
<1>9. CountsOK'
  <2>1. \A p : Fresh(p)' = Fresh(p)
    BY DEF Fresh
  <2> QED
    BY <2>1 DEF ArenaInv, CountsOK
<1> QED
  BY <1>1, <1>2, <1>3, <1>4, <1>5, <1>6, <1>7, <1>8, <1>9 DEF ArenaInv

(* create_shm_object() works or fails, and so does mapping. *)
LEMMA ObjectSteps ==
  ASSUME ArenaInv, NEW t \in Threads,
         \/ \E a \in Arenas : CreateObjectFails(t, a) \/ \E r \in Requests : CreateObject(t, a, r)
         \/ MapFixedFails(t) \/ MapFails(t)
  PROVE  ArenaInv'
<1>1. thread \in [Threads -> ThreadRecords] /\ nextId \in Nat
  BY DEF ArenaInv, Typed
<1>2. Idle \in ThreadRecords /\ Idle.pc = "idle"
  BY DEF Idle, Steps, ThreadRecords
<1>3. ASSUME NEW a \in Arenas, CreateObjectFails(t, a) PROVE ArenaInv'
  <2>1. thread[t].pc = "idle" /\ thread' = thread /\ names' = names /\ nextId' = nextId + 1
    BY <1>2, <1>3 DEF CreateObjectFails
  <2>2. nextId <= nextId' /\ nextId' \in Nat
    BY <1>1, <2>1
  <2> QED
    BY <1>1, <1>3, <2>1, <2>2, ThreadStep DEF CreateObjectFails, owners
<1>4. ASSUME NEW a \in Arenas, NEW r \in Requests, CreateObject(t, a, r) PROVE ArenaInv'
  <2> DEFINE th == [pc |-> "created", arena |-> a, id |-> nextId, size |-> r.size,
                    align |-> r.align, base |-> 0]
  <2>1. r.size \in Nat \ {0} /\ r.align \in Nat \ {0}
    BY ConstantsAssumption
  <2>2. th \in ThreadRecords /\ th.pc = "created" /\ th.id = nextId /\ th.arena = a
    BY <1>1, <2>1 DEF Steps, ThreadRecords
  <2>3. thread' = [thread EXCEPT ![t] = th] /\ thread[t] = Idle
    BY <1>4 DEF CreateObject
  <2> HIDE DEF th
  <2>4. thread' \in [Threads -> ThreadRecords] /\ thread'[t] = th
    BY <1>1, <2>2, <2>3
  <2>5. \A u \in Threads : u # t => thread'[u] = thread[u]
    BY <1>1, <2>3
  <2>6. nextId' = nextId + 1 /\ nextId \in Ids /\ names' = names \cup {nextId} /\ life[a] = "live"
    BY <1>4 DEF CreateObject, Usable
  <2>7. nextId <= nextId' /\ nextId' \in Nat
    BY <1>1, <2>6
  <2>8. UNCHANGED <<life, listening, pools, known, jemalloc, mem, repository, kept>>
    BY <1>4 DEF CreateObject, owners
  <2>9. thread[t].pc = "idle" /\ thread'[t].pc = "created" /\ thread'[t].id = nextId
        /\ thread'[t].arena = a
    BY <1>2, <2>2, <2>3, <2>4
  <2> QED
    BY <1>1, <2>4, <2>5, <2>6, <2>7, <2>8, <2>9, ThreadStep
<1>5. CASE MapFixedFails(t) \/ MapFails(t)
  <2>1. /\ thread[t].pc \in {"created", "trimmed"} /\ thread' = [thread EXCEPT ![t] = Idle]
        /\ names' = names \ {thread[t].id} /\ nextId' = nextId
    BY <1>5 DEF MapFixedFails, MapFails
  <2>2. UNCHANGED <<life, listening, pools, known, jemalloc, mem, repository, kept>>
    BY <1>5 DEF MapFixedFails, MapFails, owners
  <2>3. thread' \in [Threads -> ThreadRecords] /\ thread'[t] = Idle
    BY <1>1, <1>2, <2>1
  <2>4. \A u \in Threads : u # t => thread'[u] = thread[u]
    BY <1>1, <2>1
  <2>5. nextId <= nextId' /\ nextId' \in Nat
    BY <1>1, <2>1
  <2> QED
    BY <1>2, <2>1, <2>2, <2>3, <2>4, <2>5, ThreadStep
<1> QED
  BY <1>3, <1>4, <1>5

(* A thread on its way from an SHM object to mapped memory changes pages     *)
(* that are free or reserved by itself: nobody else's are disturbed.         *)
LEMMA MappingStep ==
  ASSUME ArenaInv, NEW t \in Threads, thread' \in [Threads -> ThreadRecords],
         \A u \in Threads : u # t => thread'[u] = thread[u],
         thread[t].pc \in {"created", "reserved", "trimmed"},
         thread'[t].pc \in {"reserved", "trimmed", "mapped"},
         thread'[t].arena = thread[t].arena, thread'[t].id = thread[t].id,
         UNCHANGED <<life, listening, pools, known, jemalloc, names, nextId, repository, kept>>,
         \A x \in Pages : mem'[x] = mem[x] \/ mem[x] = Nothing \/ mem[x] = Reserved(t),
         \A x \in Pages : mem'[x].kind = "pool" =>
           \/ mem'[x] = mem[x]
           \/ thread'[t].pc = "mapped" /\ mem'[x].id = thread'[t].id /\ x \in PagesOf(NewPool(t)'),
         ThreadMemory(t)'
  PROVE  ArenaInv'
<1> USE DEF jemalloc, repository
<1>1. Typed'
  BY DEF ArenaInv, Typed
<1>2. PoolsOK'
  BY DEF ArenaInv, PoolsOK
<1>3. RemovingOK'
  BY DEF ArenaInv, RemovingOK
<1>4. ThreadsOK'
  <2> SUFFICES ASSUME NEW u \in Threads, thread'[u].pc # "idle"
        PROVE
    /\ thread'[u].arena \in Arenas /\ life[thread'[u].arena] = "live"
    /\ thread'[u].id \in Ids /\ thread'[u].id < nextId /\ thread'[u].id \in names
    /\ \A v \in Threads : v # u /\ thread'[v].pc # "idle" => thread'[v].id # thread'[u].id
    /\ \A b \in Arenas : removing[b] # None => removing[b].pool.id # thread'[u].id
    /\ thread'[u].pc # "registered" =>
         \A b \in Arenas : \A q \in pools[b] : q.id # thread'[u].id
    /\ thread'[u].pc = "registered" =>
         /\ NewPool(u)' \in pools[thread'[u].arena] /\ NewPool(u)' \notin known[thread'[u].arena]
         /\ remaining[thread'[u].id] = thread'[u].size
    BY DEF ThreadsOK
  <2>1. \A v \in Threads : thread'[v].id = thread[v].id /\ thread'[v].arena = thread[v].arena
                           /\ (thread'[v].pc = "idle" <=> thread[v].pc = "idle")
                           /\ (thread'[v].pc = "registered" <=> thread[v].pc = "registered")
    OBVIOUS
  <2>2. thread'[u].pc = "registered" => thread'[u] = thread[u] /\ NewPool(u)' = NewPool(u)
    BY DEF NewPool
  <2>3. /\ thread[u].arena \in Arenas /\ life[thread[u].arena] = "live"
        /\ thread[u].id \in Ids /\ thread[u].id < nextId /\ thread[u].id \in names
        /\ \A v \in Threads : v # u /\ thread[v].pc # "idle" => thread[v].id # thread[u].id
        /\ \A b \in Arenas : removing[b] # None => removing[b].pool.id # thread[u].id
        /\ thread[u].pc # "registered" =>
             \A b \in Arenas : \A q \in pools[b] : q.id # thread[u].id
        /\ thread[u].pc = "registered" =>
             /\ NewPool(u) \in pools[thread[u].arena] /\ NewPool(u) \notin known[thread[u].arena]
             /\ remaining[thread[u].id] = thread[u].size
    BY <2>1 DEF ArenaInv, ThreadsOK
  <2> QED
    BY <2>1, <2>2, <2>3
<1>5. MemoryOK'
  <2>1. \A x \in Pages : \A i, o : mem[x] = PoolPage(i, o) => mem'[x] = mem[x]
    <3>1. \A i, o : PoolPage(i, o).kind # Nothing.kind /\ PoolPage(i, o).kind # Reserved(t).kind
      BY DEF PoolPage, Nothing, Reserved
    <3> QED
      BY <3>1
  <2>2. \A u : u # t => \A x \in Pages : mem[x] = Reserved(u) => mem'[x] = mem[x]
    <3>1. \A u : Reserved(u).kind # Nothing.kind /\ Reserved(u).by = u
      BY DEF Nothing, Reserved
    <3> QED
      BY <3>1
  <2>3. \A p : MappedAt(p) => MappedAt(p)'
    BY <2>1 DEF MappedAt
  <2>4. \A u, R : u # t /\ ReservedAt(u, R) => ReservedAt(u, R)'
    BY <2>2 DEF ReservedAt, ThreadMemory
  <2>5. \A b \in Arenas : \A p \in pools[b] : MappedAt(p)'
    BY <2>3 DEF ArenaInv, MemoryOK
  <2>6. \A b \in Arenas : removing[b] # None /\ removing[b].step = "unmap" => MappedAt(removing[b].pool)'
    BY <2>1 DEF ArenaInv, MemoryOK, MappedAt
  <2>7. ASSUME NEW u \in Threads
        PROVE  ThreadMemory(u)'
    <3>1. CASE u # t
      <4>1. thread'[u] = thread[u]
        BY <3>1
      <4>2. (thread[u].pc = "mapped" => MappedAt(NewPool(u)))'
        <5>1. PICK p : p = NewPool(u) /\ p = NewPool(u)'
          BY <4>1 DEF NewPool
        <5>2. thread[u].pc = "mapped" => MappedAt(p)
          BY <5>1 DEF ArenaInv, MemoryOK, ThreadMemory
        <5>3. MappedAt(p)' = MappedAt(NewPool(u))'
          BY <5>1 DEF MappedAt, PagesOf
        <5> QED
          BY <2>3, <4>1, <5>2, <5>3
      <4>3. (/\ thread[u].pc = "reserved" =>
                  ReservedAt(u, thread[u].base .. (thread[u].base + thread[u].size + thread[u].align - 2))
             /\ thread[u].pc = "trimmed" =>
                  ReservedAt(u, thread[u].base .. (thread[u].base + thread[u].size - 1)))'
        BY <2>2, <3>1, <4>1 DEF ArenaInv, MemoryOK, ReservedAt, ThreadMemory
      <4> QED
        BY <4>2, <4>3 DEF ThreadMemory
    <3>2. CASE u = t
      BY <3>2
    <3> QED
      BY <3>1, <3>2
  <2>8. ASSUME NEW x \in Pages, mem'[x].kind = "pool"
        PROVE  Held(mem[x].id, x)'
    <3>1. CASE mem'[x] = mem[x]
      <4>1. Held(mem[x].id, x)
        BY <2>8, <3>1 DEF ArenaInv, MemoryOK
      <4>2. \A u \in Threads : thread[u].pc = "mapped" => thread'[u] = thread[u] /\ NewPool(u)' = NewPool(u)
        BY DEF NewPool
      <4> QED
        BY <3>1, <4>1, <4>2 DEF Held
    <3>2. CASE thread'[t].pc = "mapped" /\ mem'[x].id = thread'[t].id /\ x \in PagesOf(NewPool(t)')
      <4>1. PagesOf(NewPool(t)') = PagesOf(NewPool(t))'
        BY DEF PagesOf
      <4> QED
        BY <3>2, <4>1 DEF Held
    <3> QED
      BY <2>8, <3>1, <3>2
  <2> QED
    BY <2>5, <2>6, <2>7, <2>8 DEF MemoryOK
<1>6. NamesOK'
  <2>1. \A u \in Threads : thread[u].pc # "idle" => thread'[u].pc # "idle" /\ thread'[u].id = thread[u].id
    OBVIOUS
  <2> SUFFICES ASSUME NEW i \in names
               PROVE  \/ \E b \in Arenas : \E p \in pools[b] : p.id = i
                      \/ \E u \in Threads : thread'[u].pc # "idle" /\ thread'[u].id = i
                      \/ \E b \in Arenas : removing[b] # None /\ removing[b].pool.id = i
    BY DEF NamesOK
  <2> QED
    BY <2>1 DEF ArenaInv, NamesOK
<1>7. RepositoryOK'
  BY DEF ArenaInv, RepositoryOK
<1>8. ExtentsOK'
  BY DEF ArenaInv, ExtentsOK
<1>9. CountsOK'
  <2>1. \A p : Fresh(p)' = Fresh(p)
    BY DEF Fresh
  <2> QED
    BY <2>1 DEF ArenaInv, CountsOK
<1> QED
  BY <1>1, <1>2, <1>3, <1>4, <1>5, <1>6, <1>7, <1>8, <1>9 DEF ArenaInv

(* What At() does to the threads. *)
LEMMA AtMoves ==
  ASSUME Typed, NEW t \in Threads, NEW c \in Steps, NEW b \in Nat, At(t, c, b)
  PROVE  /\ thread' \in [Threads -> ThreadRecords]
         /\ \A u \in Threads : u # t => thread'[u] = thread[u]
         /\ thread'[t].pc = c /\ thread'[t].base = b /\ thread'[t].id = thread[t].id
         /\ thread'[t].arena = thread[t].arena /\ thread'[t].size = thread[t].size
         /\ thread'[t].align = thread[t].align
         /\ NewPool(t)' = [id |-> thread[t].id, arena |-> thread[t].arena,
                           base |-> b, size |-> thread[t].size]
<1>1. /\ thread' \in [Threads -> ThreadRecords]
      /\ \A u \in Threads : u # t => thread'[u] = thread[u]
      /\ thread'[t].pc = c /\ thread'[t].base = b /\ thread'[t].id = thread[t].id
      /\ thread'[t].arena = thread[t].arena /\ thread'[t].size = thread[t].size
      /\ thread'[t].align = thread[t].align
  BY DEF Typed, At, ThreadRecords
<1> QED
  BY <1>1 DEF NewPool

(* The pool is mapped at pages that are free or reserved for it. *)
LEMMA MapsPool ==
  ASSUME ArenaInv, NEW t \in Threads, NEW b \in Nat, thread[t].pc \in {"created", "trimmed"},
         b .. (b + thread[t].size - 1) \subseteq Pages,
         \A x \in b .. (b + thread[t].size - 1) : mem[x] = Nothing \/ mem[x] = Reserved(t),
         mem' = Mapped(thread[t].id, b, thread[t].size), At(t, "mapped", b),
         UNCHANGED <<life, listening, pools, known, jemalloc, names, nextId, repository, kept>>
  PROVE  ArenaInv'
<1>1. /\ thread' \in [Threads -> ThreadRecords]
      /\ \A u \in Threads : u # t => thread'[u] = thread[u]
      /\ thread'[t].pc = "mapped" /\ thread'[t].id = thread[t].id
      /\ thread'[t].arena = thread[t].arena
      /\ NewPool(t)' = [id |-> thread[t].id, arena |-> thread[t].arena,
                        base |-> b, size |-> thread[t].size]
  BY AtMoves DEF ArenaInv, Steps
<1>2. PagesOf(NewPool(t)') = b .. (b + thread[t].size - 1) /\ NewPool(t)'.id = thread[t].id
      /\ NewPool(t)'.base = b
  BY <1>1 DEF PagesOf
<1>3. \A x \in Pages : mem'[x] = IF x \in b .. (b + thread[t].size - 1)
                                 THEN PoolPage(thread[t].id, x - b) ELSE mem[x]
  BY DEF Mapped
<1>4. \A x \in Pages : mem'[x] = mem[x] \/ mem[x] = Nothing \/ mem[x] = Reserved(t)
  BY <1>3
<1>5. \A x \in Pages : mem'[x].kind = "pool" =>
           \/ mem'[x] = mem[x]
           \/ thread'[t].pc = "mapped" /\ mem'[x].id = thread'[t].id /\ x \in PagesOf(NewPool(t)')
  <2>1. \A x \in Pages : PoolPage(thread[t].id, x - b).id = thread[t].id
    BY DEF PoolPage
  <2> QED
    BY <1>1, <1>2, <1>3, <2>1
<1>6. MappedAt(NewPool(t))'
  <2>1. PagesOf(NewPool(t))' = b .. (b + thread[t].size - 1)
    BY <1>1 DEF PagesOf
  <2> QED
    BY <1>2, <1>3, <2>1 DEF MappedAt
<1>7. ThreadMemory(t)'
  BY <1>1, <1>6 DEF ThreadMemory
<1> QED
  BY <1>1, <1>4, <1>5, <1>7, MappingStep

(* Mapping at once, or over a reservation. *)
LEMMA MapSteps ==
  ASSUME ArenaInv, NEW t \in Threads, (\E x \in Pages : Map(t, x)) \/ MapFixed(t)
  PROVE  ArenaInv'
<1>1. ASSUME NEW x \in Pages, Map(t, x) PROVE ArenaInv'
  <2>1. /\ thread[t].pc = "created" /\ mem' = Mapped(thread[t].id, x, thread[t].size)
        /\ At(t, "mapped", x) /\ x \in Nat
        /\ Free(x .. (x + thread[t].size - 1))
        /\ UNCHANGED <<life, listening, pools, known, jemalloc, names, nextId, repository, kept>>
    BY <1>1, ConstantsAssumption DEF Map, owners
  <2> QED
    BY <2>1, MapsPool DEF Free
<1>2. CASE MapFixed(t)
  <2>1. /\ thread[t].pc = "trimmed" /\ mem' = Mapped(thread[t].id, thread[t].base, thread[t].size)
        /\ At(t, "mapped", thread[t].base)
        /\ UNCHANGED <<life, listening, pools, known, jemalloc, names, nextId, repository, kept>>
    BY <1>2 DEF MapFixed, owners
  <2>2. thread[t].base \in Nat /\ ReservedAt(t, thread[t].base .. (thread[t].base + thread[t].size - 1))
    BY <2>1 DEF ArenaInv, Typed, MemoryOK, ThreadMemory, ThreadRecords
  <2>3. PICK b \in Nat : b = thread[t].base
    BY <2>2
  <2> QED
    BY <2>1, <2>2, <2>3, MapsPool DEF ReservedAt, ThreadMemory
<1> QED
  BY <1>1, <1>2

(* Reserving free pages, and giving back what is not needed of them. *)
LEMMA ReserveSteps ==
  ASSUME ArenaInv, NEW t \in Threads, (\E x \in Pages : Reserve(t, x)) \/ Trim(t)
  PROVE  ArenaInv'
<1>0. /\ thread[t].base \in Nat /\ thread[t].size \in Nat \ {0} /\ thread[t].align \in Nat \ {0}
  BY DEF ArenaInv, Typed, ThreadRecords
<1>a. \A u : Reserved(u).kind # "pool" /\ Nothing.kind # "pool"
  BY DEF Reserved, Nothing
<1>1. ASSUME NEW b \in Pages, Reserve(t, b) PROVE ArenaInv'
  <2> DEFINE R == b .. (b + thread[t].size + thread[t].align - 2)
  <2>1. /\ thread[t].pc = "created" /\ Free(R) /\ At(t, "reserved", b) /\ b \in Nat
        /\ mem' = [p \in Pages |-> IF p \in R THEN Reserved(t) ELSE mem[p]]
        /\ UNCHANGED <<life, listening, pools, known, jemalloc, names, nextId, repository, kept>>
    BY <1>1, ConstantsAssumption DEF Reserve, owners
  <2>2. /\ thread' \in [Threads -> ThreadRecords]
        /\ \A u \in Threads : u # t => thread'[u] = thread[u]
        /\ thread'[t].pc = "reserved" /\ thread'[t].id = thread[t].id
        /\ thread'[t].arena = thread[t].arena
        /\ thread'[t].base = b /\ thread'[t].size = thread[t].size /\ thread'[t].align = thread[t].align
    BY <2>1, AtMoves DEF ArenaInv, Steps
  <2>3. R = (thread[t].base .. (thread[t].base + thread[t].size + thread[t].align - 2))'
    BY <2>2
  <2> HIDE DEF R
  <2>4. \A x \in Pages : mem'[x] = IF x \in R THEN Reserved(t) ELSE mem[x]
    BY <2>1
  <2>5. \A x \in Pages : mem'[x] = mem[x] \/ mem[x] = Nothing \/ mem[x] = Reserved(t)
    BY <2>1, <2>4 DEF Free
  <2>6. \A x \in Pages : mem'[x].kind = "pool" => mem'[x] = mem[x]
    BY <1>a, <2>4
  <2>7. ThreadMemory(t)'
    BY <2>1, <2>2, <2>3, <2>4 DEF ReservedAt, ThreadMemory, Free
  <2> QED
    BY <2>1, <2>2, <2>5, <2>6, <2>7, MappingStep
<1>2. CASE Trim(t)
  <2> DEFINE all == thread[t].base .. (thread[t].base + thread[t].size + thread[t].align - 2)
  <2>1. PICK b \in Nat : b = Aligned(thread[t]) /\ thread[t].base <= b /\ b <= thread[t].base + thread[t].align - 1
    BY <1>0, AlignedExists
  <2> DEFINE R == b .. (b + thread[t].size - 1)
  <2>2. /\ thread[t].pc = "reserved" /\ mem' = Unmapped(all \ R) /\ At(t, "trimmed", b)
        /\ UNCHANGED <<life, listening, pools, known, jemalloc, names, nextId, repository, kept>>
    BY <1>2, <2>1 DEF Trim, Trimmed, owners
  <2>3. /\ thread' \in [Threads -> ThreadRecords]
        /\ \A u \in Threads : u # t => thread'[u] = thread[u]
        /\ thread'[t].pc = "trimmed" /\ thread'[t].id = thread[t].id
        /\ thread'[t].arena = thread[t].arena
        /\ thread'[t].base = b /\ thread'[t].size = thread[t].size
    BY <2>2, AtMoves DEF ArenaInv, Steps
  <2>4. R \subseteq all /\ R = (thread[t].base .. (thread[t].base + thread[t].size - 1))'
    BY <1>0, <2>1, <2>3
  <2>5. ReservedAt(t, all)
    BY <2>2 DEF ArenaInv, MemoryOK, ThreadMemory
  <2> HIDE DEF all, R
  <2>6. \A x \in Pages : mem'[x] = IF x \in all \ R THEN Nothing ELSE mem[x]
    BY <2>2 DEF Unmapped
  <2>7. \A x \in Pages : mem'[x] = mem[x] \/ mem[x] = Nothing \/ mem[x] = Reserved(t)
    BY <2>5, <2>6 DEF ReservedAt, ThreadMemory
  <2>8. \A x \in Pages : mem'[x].kind = "pool" => mem'[x] = mem[x]
    BY <1>a, <2>6
  <2>9. ThreadMemory(t)'
    BY <2>3, <2>4, <2>5, <2>6 DEF ReservedAt, ThreadMemory
  <2> QED
    BY <2>2, <2>3, <2>7, <2>8, <2>9, MappingStep
<1> QED
  BY <1>1, <1>2

(* The pool a thread makes. *)
LEMMA NewPoolIs ==
  ASSUME Typed, ThreadsOK, NEW t \in Threads, thread[t].pc # "idle"
  PROVE  /\ NewPool(t) \in PoolRecords
         /\ NewPool(t).id = thread[t].id /\ NewPool(t).arena = thread[t].arena
         /\ NewPool(t).base = thread[t].base /\ NewPool(t).size = thread[t].size
<1>1. thread[t].id \in Ids /\ thread[t].arena \in Arenas
  BY DEF ThreadsOK
<1>2. thread[t].base \in Nat /\ thread[t].size \in Nat \ {0}
  BY DEF Typed, ThreadRecords
<1> QED
  BY <1>1, <1>2 DEF NewPool, PoolRecords

(* The pages of a pool that are used are no more than there are. *)
LEMMA UsedAtMost ==
  ASSUME NEW p \in PoolRecords, NEW E
  PROVE  /\ p.size >= Cardinality(Used(E, p)) /\ Cardinality(Used(E, p)) \in Nat
         /\ Cardinality(PagesOf(p)) = p.size
<1>1. p.base \in Nat /\ p.size \in Nat \ {0}
  BY DEF PoolRecords
<1>2. IsFiniteSet(PagesOf(p)) /\ Cardinality(PagesOf(p)) = p.size
  BY <1>1, PagesCounted
<1>3. Used(E, p) \in SUBSET PagesOf(p)
  BY DEF Used
<1>4. Cardinality(Used(E, p)) <= Cardinality(PagesOf(p)) /\ Cardinality(Used(E, p)) \in Nat
  BY <1>2, <1>3, FS_Subset, UsedIsFinite
<1> QED
  BY <1>1, <1>2, <1>4

LEMMA RegisterStep ==
  ASSUME ArenaInv, NEW t \in Threads, Register(t)
  PROVE  ArenaInv'
<1>0. thread[t].pc = "mapped" /\ thread[t].base \in Nat /\ thread[t].size \in Nat \ {0}
  BY DEF Register, ArenaInv, Typed, ThreadRecords
<1>1. PICK a \in Arenas, n \in PoolRecords :
        /\ a = thread[t].arena /\ n = NewPool(t) /\ n.id = thread[t].id /\ n.arena = a
        /\ n.base = thread[t].base /\ n.size = thread[t].size
  <2>1. thread[t].arena \in Arenas
    BY <1>0 DEF ArenaInv, ThreadsOK
  <2> QED
    BY <1>0, <2>1, NewPoolIs DEF ArenaInv
<1>2. n.id \in Ids /\ n.id \in Nat /\ n.size \in Nat \ {0} /\ n.base \in Nat
  BY ConstantsAssumption DEF PoolRecords, Ids
<1>3. /\ \A b \in Arenas : pools'[b] = IF b = a THEN pools[a] \cup {n} ELSE pools[b]
      /\ pools' \in [Arenas -> SUBSET PoolRecords]
  BY <1>1 DEF Register, ArenaInv, Typed
<1>4. /\ \A i \in Ids : remaining'[i] = IF i = n.id THEN n.size ELSE remaining[i]
      /\ remaining' \in [Ids -> Nat]
  BY <1>1, <1>2 DEF Register, ArenaInv, Typed
<1>5. /\ thread' \in [Threads -> ThreadRecords]
      /\ \A u \in Threads : u # t => thread'[u] = thread[u]
      /\ thread'[t].pc = "registered" /\ thread'[t].id = n.id
      /\ thread'[t].arena = a /\ thread'[t].size = n.size /\ NewPool(t)' = n
  <2>1. At(t, "registered", thread[t].base)
    BY DEF Register
  <2>2. /\ thread' \in [Threads -> ThreadRecords]
        /\ \A u \in Threads : u # t => thread'[u] = thread[u]
        /\ thread'[t].pc = "registered" /\ thread'[t].id = thread[t].id
        /\ thread'[t].arena = thread[t].arena /\ thread'[t].size = thread[t].size
        /\ NewPool(t)' = [id |-> thread[t].id, arena |-> thread[t].arena,
                          base |-> thread[t].base, size |-> thread[t].size]
    BY <1>0, <2>1, AtMoves DEF ArenaInv, Steps
  <2> QED
    BY <1>1, <2>2 DEF NewPool
<1>6. UNCHANGED <<life, listening, known, extents, removing, mem, names, nextId, idMap, addressMap, kept>>
  BY DEF Register, owners, repository
<1>7. /\ life[a] = "live" /\ n.id < nextId /\ n.id \in names
      /\ \A u \in Threads : u # t /\ thread[u].pc # "idle" => thread[u].id # n.id
      /\ \A b \in Arenas : removing[b] # None => removing[b].pool.id # n.id
      /\ \A b \in Arenas : \A q \in pools[b] : q.id # n.id
  BY <1>0, <1>1 DEF ArenaInv, ThreadsOK
<1>8. \A b \in Arenas : \A q \in pools[b] : q.id \in Ids /\ remaining'[q.id] = remaining[q.id]
  BY <1>4, <1>7 DEF ArenaInv, Typed, PoolRecords
<1>9. n \notin known[a] /\ known[a] \subseteq pools[a]
  BY <1>7 DEF ArenaInv, PoolsOK
<1>a. Typed'
  BY <1>3, <1>4, <1>5, <1>6 DEF ArenaInv, Typed
<1>b. PoolsOK'
  <2>1. ASSUME NEW b \in Arenas, NEW p \in pools'[b]
        PROVE  p.arena = b /\ p.id < nextId /\ p.id \in names /\ remaining'[p.id] > 0
    <3>1. CASE p \in pools[b]
      BY <1>8, <3>1 DEF ArenaInv, PoolsOK
    <3>2. CASE p = n /\ b = a
      BY <1>1, <1>2, <1>4, <1>7, <3>2
    <3> QED
      BY <1>3, <2>1, <3>1, <3>2
  <2>2. \A b, c \in Arenas : \A p \in pools'[b], q \in pools'[c] : p.id = q.id => p = q
    BY <1>3, <1>7 DEF ArenaInv, PoolsOK
  <2>3. \A b \in Arenas : known[b] \subseteq pools'[b]
    BY <1>3 DEF ArenaInv, PoolsOK
  <2>4. \A b \in Arenas : life[b] \in {"destroying", "gone"} => known[b] = {}
    BY DEF ArenaInv, PoolsOK
  <2>5. \A b \in Arenas : life[b] = "none" => pools'[b] = {}
    BY <1>3, <1>7 DEF ArenaInv, PoolsOK
  <2> QED
    BY <1>6, <2>1, <2>2, <2>3, <2>4, <2>5 DEF PoolsOK
<1>c. RemovingOK'
  <2>1. \A b, c \in Arenas : removing[b] # None => \A q \in pools'[c] : q.id # removing[b].pool.id
    BY <1>3, <1>7 DEF ArenaInv, RemovingOK
  <2> QED
    BY <1>6, <2>1 DEF ArenaInv, RemovingOK
<1>d. ThreadsOK'
  <2> SUFFICES ASSUME NEW u \in Threads, thread'[u].pc # "idle"
        PROVE
    /\ thread'[u].arena \in Arenas /\ life[thread'[u].arena] = "live"
    /\ thread'[u].id \in Ids /\ thread'[u].id < nextId /\ thread'[u].id \in names
    /\ \A v \in Threads : v # u /\ thread'[v].pc # "idle" => thread'[v].id # thread'[u].id
    /\ \A b \in Arenas : removing[b] # None => removing[b].pool.id # thread'[u].id
    /\ thread'[u].pc # "registered" =>
         \A b \in Arenas : \A q \in pools'[b] : q.id # thread'[u].id
    /\ thread'[u].pc = "registered" =>
         /\ NewPool(u)' \in pools'[thread'[u].arena] /\ NewPool(u)' \notin known[thread'[u].arena]
         /\ remaining'[thread'[u].id] = thread'[u].size
    BY <1>6 DEF ThreadsOK
  <2>1. CASE u = t
    BY <1>2, <1>3, <1>4, <1>5, <1>7, <1>9, <2>1
  <2>2. CASE u # t
    <3>1. thread'[u] = thread[u] /\ NewPool(u)' = NewPool(u) /\ thread[u].pc # "idle" /\ thread[u].id # n.id
      BY <1>5, <1>7, <2>2 DEF NewPool
    <3>2. /\ thread[u].arena \in Arenas /\ life[thread[u].arena] = "live"
          /\ thread[u].id \in Ids /\ thread[u].id < nextId /\ thread[u].id \in names
          /\ \A v \in Threads : v # u /\ thread[v].pc # "idle" => thread[v].id # thread[u].id
          /\ \A b \in Arenas : removing[b] # None => removing[b].pool.id # thread[u].id
          /\ thread[u].pc # "registered" =>
               \A b \in Arenas : \A q \in pools[b] : q.id # thread[u].id
          /\ thread[u].pc = "registered" =>
               /\ NewPool(u) \in pools[thread[u].arena] /\ NewPool(u) \notin known[thread[u].arena]
               /\ remaining[thread[u].id] = thread[u].size
      BY <3>1 DEF ArenaInv, ThreadsOK
    <3>3. \A v \in Threads : v # u /\ thread'[v].pc # "idle" => thread'[v].id # thread'[u].id
      BY <1>5, <3>1, <3>2
    <3>4. remaining'[thread[u].id] = remaining[thread[u].id]
      BY <1>4, <3>1, <3>2
    <3>5. \A b \in Arenas : pools[b] \subseteq pools'[b]
      BY <1>3
    <3>6. (\A b \in Arenas : \A q \in pools[b] : q.id # thread[u].id) =>
            \A b \in Arenas : \A q \in pools'[b] : q.id # thread[u].id
      BY <1>3, <3>1
    <3> QED
      BY <3>1, <3>2, <3>3, <3>4, <3>5, <3>6
  <2> QED
    BY <2>1, <2>2
<1>e. MemoryOK'
  <2>1. \A p : MappedAt(p)' = MappedAt(p)
    BY <1>6 DEF MappedAt
  <2>2. MappedAt(n)
    BY <1>0, <1>1 DEF ArenaInv, MemoryOK, ThreadMemory
  <2>3. \A b \in Arenas : \A p \in pools'[b] : MappedAt(p)'
    BY <1>3, <2>1, <2>2 DEF ArenaInv, MemoryOK
  <2>4. \A u \in Threads : ThreadMemory(u)'
    <3> SUFFICES ASSUME NEW u \in Threads PROVE ThreadMemory(u)'
      OBVIOUS
    <3>1. CASE u = t
      BY <1>5, <3>1 DEF ThreadMemory
    <3>2. CASE u # t
      <4>1. ThreadMemory(u) /\ thread'[u] = thread[u]
        BY <1>5, <3>2 DEF ArenaInv, MemoryOK
      <4> QED
        BY <1>6, <4>1 DEF ThreadMemory, MappedAt, ReservedAt, NewPool
    <3> QED
      BY <3>1, <3>2
  <2>5. (\A b \in Arenas : removing[b] # None /\ removing[b].step = "unmap" => MappedAt(removing[b].pool))'
    BY <1>6 DEF ArenaInv, MemoryOK, MappedAt
  <2>6. ASSUME NEW x \in Pages, mem[x].kind = "pool"
        PROVE  Held(mem[x].id, x)'
    <3>1. Held(mem[x].id, x)
      BY <2>6 DEF ArenaInv, MemoryOK
    <3>2. CASE \E b \in Arenas : \E p \in pools[b] : p.id = mem[x].id /\ x \in PagesOf(p)
      <4>1. PICK b \in Arenas : \E p \in pools'[b] : p.id = mem[x].id /\ x \in PagesOf(p)
        BY <1>3, <3>2
      <4> QED
        BY <1>6, <4>1 DEF Held
    <3>3. CASE \E u \in Threads : thread[u].pc = "mapped" /\ thread[u].id = mem[x].id /\ x \in PagesOf(NewPool(u))
      <4>1. PICK u \in Threads : thread[u].pc = "mapped" /\ thread[u].id = mem[x].id /\ x \in PagesOf(NewPool(u))
        BY <3>3
      <4>2. CASE u = t
        <5>1. n \in pools'[a] /\ n.id = mem[x].id /\ x \in PagesOf(n)
          BY <1>1, <1>3, <4>1, <4>2
        <5> QED
          BY <1>6, <5>1 DEF Held
      <4>3. CASE u # t
        <5>1. thread'[u] = thread[u] /\ NewPool(u)' = NewPool(u)
          BY <1>5, <4>3 DEF NewPool
        <5> QED
          BY <1>6, <4>1, <5>1 DEF Held, PagesOf
      <4> QED
        BY <4>2, <4>3
    <3>4. CASE \E b \in Arenas : /\ removing[b] # None /\ removing[b].step = "unmap"
                       /\ removing[b].pool.id = mem[x].id /\ x \in PagesOf(removing[b].pool)
      BY <1>6, <3>4 DEF Held
    <3> QED
      BY <3>1, <3>2, <3>3, <3>4 DEF Held
  <2> QED
    BY <1>6, <2>3, <2>4, <2>5, <2>6 DEF MemoryOK
<1>f. NamesOK'
  <2> SUFFICES ASSUME NEW i \in names
               PROVE  \/ \E b \in Arenas : \E p \in pools'[b] : p.id = i
                      \/ \E u \in Threads : thread'[u].pc # "idle" /\ thread'[u].id = i
                      \/ \E b \in Arenas : removing[b] # None /\ removing[b].pool.id = i
    BY <1>6 DEF NamesOK
  <2>1. \A u \in Threads : thread[u].pc # "idle" => thread'[u].pc # "idle" /\ thread'[u].id = thread[u].id
    BY <1>1, <1>5
  <2>2. \A b \in Arenas : pools[b] \subseteq pools'[b]
    BY <1>3
  <2> QED
    BY <2>1, <2>2 DEF ArenaInv, NamesOK
<1>g. RepositoryOK'
  BY <1>6 DEF ArenaInv, RepositoryOK
<1>h. ExtentsOK'
  <2>1. \A b \in Arenas : pools[b] \subseteq pools'[b]
    BY <1>3
  <2> QED
    BY <1>6, <2>1 DEF ArenaInv, ExtentsOK
<1>i. CountsOK'
  <2> SUFFICES ASSUME NEW b \in Arenas, NEW p \in pools'[b]
               PROVE  /\ remaining'[p.id] >= Cardinality(Used(extents[b], p))
                      /\ p.id \notin kept /\ ~Fresh(p)' => remaining'[p.id] = Cardinality(Used(extents[b], p))
    BY <1>6 DEF CountsOK
  <2>1. CASE p = n
    <3>1. Fresh(p)'
      BY <1>5, <2>1 DEF Fresh
    <3>2. remaining'[p.id] = p.size
      BY <1>2, <1>4, <2>1
    <3> QED
      BY <2>1, <3>1, <3>2, UsedAtMost
  <2>2. CASE p \in pools[b]
    <3>1. p.id # n.id /\ remaining'[p.id] = remaining[p.id]
      BY <1>7, <1>8, <2>2
    <3>2. Fresh(p)' <=> Fresh(p)
      BY <1>0, <1>5, <3>1 DEF Fresh
    <3>3. /\ remaining[p.id] >= Cardinality(Used(extents[b], p))
          /\ p.id \notin kept /\ ~Fresh(p) => remaining[p.id] = Cardinality(Used(extents[b], p))
      BY <2>2 DEF ArenaInv, CountsOK
    <3> QED
      BY <3>1, <3>2, <3>3
  <2> QED
    BY <1>3, <2>1, <2>2
<1> QED
  BY <1>a, <1>b, <1>c, <1>d, <1>e, <1>f, <1>g, <1>h, <1>i DEF ArenaInv

LEMMA NotifyStep ==
  ASSUME ArenaInv, NEW t \in Threads, Notify(t)
  PROVE  ArenaInv'
<1>0. thread[t].pc = "registered" /\ thread[t].base \in Nat /\ thread[t].size \in Nat \ {0}
  BY DEF Notify, ArenaInv, Typed, ThreadRecords
<1>1. PICK a \in Arenas, n \in PoolRecords :
        /\ a = thread[t].arena /\ n = NewPool(t) /\ n.id = thread[t].id /\ n.arena = a
        /\ n.base = thread[t].base /\ n.size = thread[t].size
  <2>1. thread[t].arena \in Arenas
    BY <1>0 DEF ArenaInv, ThreadsOK
  <2> QED
    BY <1>0, <2>1, NewPoolIs DEF ArenaInv
<1>2. n.id \in Ids /\ n.size \in Nat \ {0} /\ n.base \in Nat
  BY DEF PoolRecords
<1>3. PICK e \in ExtentRecords : e = [base |-> n.base, size |-> n.size]
  BY <1>2 DEF ExtentRecords
<1>4. /\ \A b \in Arenas : known'[b] = IF b = a THEN known[a] \cup {n} ELSE known[b]
      /\ known' \in [Arenas -> SUBSET PoolRecords]
  BY <1>1 DEF Notify, ArenaInv, Typed
<1>5. /\ \A b \in Arenas : extents'[b] = IF b = a THEN extents[a] \cup {e} ELSE extents[b]
      /\ extents' \in [Arenas -> SUBSET ExtentRecords]
  BY <1>1, <1>3 DEF Notify, ArenaInv, Typed
<1>6. /\ thread' \in [Threads -> ThreadRecords]
      /\ \A u \in Threads : u # t => thread'[u] = thread[u]
      /\ thread'[t].pc = "idle"
  <2>1. Idle \in ThreadRecords /\ Idle.pc = "idle"
    BY DEF Idle, ThreadRecords, Steps
  <2> QED
    BY <2>1 DEF Notify, ArenaInv, Typed
<1>7. UNCHANGED <<life, listening, pools, remaining, removing, mem, names, nextId, kept>>
  BY DEF Notify, owners
<1>8. /\ life[a] = "live" /\ n \in pools[a] /\ n \notin known[a] /\ remaining[n.id] = n.size
      /\ \A u \in Threads : u # t /\ thread[u].pc # "idle" => thread[u].id # n.id
  BY <1>0, <1>1 DEF ArenaInv, ThreadsOK
<1>9. n.id \in names /\ known[a] \subseteq pools[a] /\ \A b \in Arenas : \A p \in pools[b] : p.arena = b
  BY <1>8 DEF ArenaInv, PoolsOK
<1>a. Typed'
  BY <1>4, <1>5, <1>6, <1>7 DEF ArenaInv, Typed
<1>b. PoolsOK'
  BY <1>4, <1>7, <1>8 DEF ArenaInv, PoolsOK
<1>c. RemovingOK'
  BY <1>7 DEF ArenaInv, RemovingOK
<1>d. ThreadsOK'
  <2> SUFFICES ASSUME NEW u \in Threads, thread'[u].pc # "idle"
        PROVE
    /\ thread'[u].arena \in Arenas /\ life[thread'[u].arena] = "live"
    /\ thread'[u].id \in Ids /\ thread'[u].id < nextId /\ thread'[u].id \in names
    /\ \A v \in Threads : v # u /\ thread'[v].pc # "idle" => thread'[v].id # thread'[u].id
    /\ \A b \in Arenas : removing[b] # None => removing[b].pool.id # thread'[u].id
    /\ thread'[u].pc # "registered" =>
         \A b \in Arenas : \A q \in pools[b] : q.id # thread'[u].id
    /\ thread'[u].pc = "registered" =>
         /\ NewPool(u)' \in pools[thread'[u].arena] /\ NewPool(u)' \notin known'[thread'[u].arena]
         /\ remaining[thread'[u].id] = thread'[u].size
    BY <1>7 DEF ThreadsOK
  <2>1. u # t
    BY <1>6
  <2>2. /\ thread'[u] = thread[u] /\ NewPool(u)' = NewPool(u) /\ thread[u].pc # "idle"
        /\ thread[u].id # n.id /\ NewPool(u).id = thread[u].id
    BY <1>6, <1>8, <2>1 DEF NewPool
  <2>3. /\ thread[u].arena \in Arenas /\ life[thread[u].arena] = "live"
        /\ thread[u].id \in Ids /\ thread[u].id < nextId /\ thread[u].id \in names
        /\ \A v \in Threads : v # u /\ thread[v].pc # "idle" => thread[v].id # thread[u].id
        /\ \A b \in Arenas : removing[b] # None => removing[b].pool.id # thread[u].id
        /\ thread[u].pc # "registered" =>
             \A b \in Arenas : \A q \in pools[b] : q.id # thread[u].id
        /\ thread[u].pc = "registered" =>
             /\ NewPool(u) \in pools[thread[u].arena] /\ NewPool(u) \notin known[thread[u].arena]
             /\ remaining[thread[u].id] = thread[u].size
    BY <2>2 DEF ArenaInv, ThreadsOK
  <2>4. NewPool(u) \notin known[thread[u].arena] => NewPool(u) \notin known'[thread[u].arena]
    BY <1>4, <2>2, <2>3
  <2>5. \A v \in Threads : v # u /\ thread'[v].pc # "idle" => thread'[v].id # thread'[u].id
    BY <1>6, <2>2, <2>3
  <2> QED
    BY <2>2, <2>3, <2>4, <2>5
<1>e. MemoryOK'
  <2>1. \A b \in Arenas : \A p \in pools[b] : MappedAt(p)'
    BY <1>7 DEF ArenaInv, MemoryOK, MappedAt
  <2>2. \A u \in Threads : ThreadMemory(u)'
    <3> SUFFICES ASSUME NEW u \in Threads PROVE ThreadMemory(u)'
      OBVIOUS
    <3>1. CASE u = t
      BY <1>6, <3>1 DEF ThreadMemory
    <3>2. CASE u # t
      <4>1. ThreadMemory(u) /\ thread'[u] = thread[u]
        BY <1>6, <3>2 DEF ArenaInv, MemoryOK
      <4> QED
        BY <1>7, <4>1 DEF ThreadMemory, MappedAt, ReservedAt, NewPool
    <3> QED
      BY <3>1, <3>2
  <2>3. (\A b \in Arenas : removing[b] # None /\ removing[b].step = "unmap" => MappedAt(removing[b].pool))'
    BY <1>7 DEF ArenaInv, MemoryOK, MappedAt
  <2>4. ASSUME NEW x \in Pages, mem[x].kind = "pool"
        PROVE  Held(mem[x].id, x)'
    <3>1. Held(mem[x].id, x)
      BY <2>4 DEF ArenaInv, MemoryOK
    <3>2. \A u \in Threads : thread[u].pc = "mapped" => thread'[u] = thread[u] /\ NewPool(u)' = NewPool(u)
      BY <1>0, <1>6 DEF NewPool
    <3> QED
      BY <1>7, <3>1, <3>2 DEF Held
  <2> QED
    BY <1>7, <2>1, <2>2, <2>3, <2>4 DEF MemoryOK
<1>f. NamesOK'
  <2> SUFFICES ASSUME NEW i \in names
               PROVE  \/ \E b \in Arenas : \E p \in pools[b] : p.id = i
                      \/ \E u \in Threads : thread'[u].pc # "idle" /\ thread'[u].id = i
                      \/ \E b \in Arenas : removing[b] # None /\ removing[b].pool.id = i
    BY <1>7 DEF NamesOK
  <2>1. CASE i = n.id
    BY <1>8, <2>1
  <2>2. CASE i # n.id
    <3>1. \A u \in Threads : thread[u].id = i => u # t /\ thread'[u] = thread[u]
      BY <1>1, <1>6, <2>2
    <3> QED
      BY <3>1 DEF ArenaInv, NamesOK
  <2> QED
    BY <2>1, <2>2
<1>g. RepositoryOK'
  <2>1. CASE a \notin listening
    <3>1. UNCHANGED <<idMap, addressMap>>
      BY <1>1, <2>1 DEF Notify, repository
    <3>2. \A p \in idMap : p.arena \in listening /\ p \in known'[p.arena]
      BY <1>4 DEF ArenaInv, RepositoryOK, Typed
    <3>3. \A b \in listening : known'[b] \subseteq idMap
      BY <1>4, <2>1 DEF ArenaInv, RepositoryOK, Typed
    <3>4. idMap = addressMap
      BY DEF ArenaInv, RepositoryOK
    <3> QED
      BY <1>7, <3>1, <3>2, <3>3, <3>4 DEF RepositoryOK
  <2>2. CASE a \in listening
    <3>1. n \notin idMap
      BY <1>1, <1>8 DEF ArenaInv, RepositoryOK
    <3>2. Insertable({n}) = {n}
      BY <1>8, <3>1, InsertAccepts DEF ArenaInv
    <3>3. idMap' = idMap \cup {n} /\ addressMap' = addressMap \cup {n}
      BY <1>1, <2>2, <3>2 DEF Notify, Insert
    <3>4. \A p \in idMap' : p.arena \in listening /\ p \in known'[p.arena]
      BY <1>1, <1>4, <2>2, <3>3 DEF ArenaInv, RepositoryOK, Typed
    <3>5. \A b \in listening : known'[b] \subseteq idMap'
      BY <1>4, <3>3 DEF ArenaInv, RepositoryOK, Typed
    <3>6. idMap' = addressMap'
      BY <3>3 DEF ArenaInv, RepositoryOK
    <3> QED
      BY <1>7, <3>4, <3>5, <3>6 DEF RepositoryOK
  <2> QED
    BY <2>1, <2>2
<1>h. Inside(e, n) /\ \A p \in pools[a] : p # n => Apart(p, n) /\ p \in PoolRecords
  <2>1. Inside(e, n)
    BY <1>2, <1>3 DEF Inside
  <2> QED
    BY <1>8, <2>1, PoolsApart DEF ArenaInv
<1>i. \A f \in extents[a] : f \in ExtentRecords /\ Apart(f, e)
  <2> SUFFICES ASSUME NEW f \in extents[a] PROVE f \in ExtentRecords /\ Apart(f, e)
    OBVIOUS
  <2>1. f \in ExtentRecords
    BY DEF ArenaInv, Typed
  <2>2. PICK p \in known[a] : Inside(f, p)
    BY <1>8 DEF ArenaInv, ExtentsOK
  <2>3. p \in PoolRecords /\ Apart(p, n)
    BY <1>8, <1>9, <1>h, <2>2
  <2> QED
    BY <1>2, <1>3, <2>1, <2>2, <2>3 DEF Apart, Inside, ExtentRecords, PoolRecords
<1>j. ExtentsOK'
  <2> SUFFICES ASSUME NEW b \in Arenas
               PROVE  /\ \A f \in extents'[b] : \E p \in pools[b] :
                           Inside(f, p) /\ (life[b] = "live" => p \in known'[b])
                      /\ \A f, g \in extents'[b] : f = g \/ Apart(f, g)
                      /\ life[b] = "gone" => extents'[b] = {}
    BY <1>7 DEF ExtentsOK
  <2>1. /\ \A f \in extents[b] : \E p \in pools[b] :
             Inside(f, p) /\ (life[b] = "live" => p \in known[b])
        /\ \A f, g \in extents[b] : f = g \/ Apart(f, g)
        /\ life[b] = "gone" => extents[b] = {}
    BY DEF ArenaInv, ExtentsOK
  <2>2. \A f, g : Apart(f, g) => Apart(g, f)
    BY DEF Apart
  <2>3. CASE b # a
    BY <1>4, <1>5, <2>1, <2>3
  <2>4. CASE b = a
    <3>1. \A f \in extents'[b] : \E p \in pools[b] : Inside(f, p) /\ p \in known'[b]
      BY <1>4, <1>5, <1>8, <1>h, <2>1, <2>4
    <3>2. \A f, g \in extents'[b] : f = g \/ Apart(f, g)
      BY <1>5, <1>i, <2>1, <2>2, <2>4
    <3> QED
      BY <1>8, <2>4, <3>1, <3>2
  <2> QED
    BY <2>3, <2>4
<1>k. CountsOK'
  <2> SUFFICES ASSUME NEW b \in Arenas, NEW p \in pools[b]
               PROVE  /\ remaining[p.id] >= Cardinality(Used(extents'[b], p))
                      /\ p.id \notin kept /\ ~Fresh(p)' => remaining[p.id] = Cardinality(Used(extents'[b], p))
    BY <1>7 DEF CountsOK, Used
  <2>1. CASE p = n
    <3>1. b = a
      BY <1>1, <1>9, <2>1
    <3>2. PagesOf(e) = PagesOf(n)
      BY <1>3 DEF PagesOf
    <3>3. Used(extents'[b], p) = PagesOf(n)
      BY <1>5, <2>1, <3>1, <3>2 DEF Used
    <3>4. Cardinality(PagesOf(n)) = n.size
      BY UsedAtMost
    <3> QED
      BY <1>2, <1>8, <2>1, <3>3, <3>4
  <2>2. CASE p # n
    <3>1. p.id # n.id /\ p \in PoolRecords
      BY <1>8, <2>2 DEF ArenaInv, PoolsOK, Typed
    <3>2. Fresh(p)' <=> Fresh(p)
      <4>1. \A u \in Threads : thread[u].id = p.id => u # t /\ thread'[u] = thread[u]
        BY <1>1, <1>6, <3>1
      <4>2. \A u \in Threads : thread'[u].pc = "registered" => thread'[u] = thread[u]
        BY <1>6
      <4> QED
        BY <4>1, <4>2 DEF Fresh
    <3>3. Used(extents'[b], p) = Used(extents[b], p)
      <4>1. CASE b # a
        BY <1>5, <4>1
      <4>2. CASE b = a
        <5>1. Apart(p, n)
          BY <1>h, <2>2, <4>2
        <5>2. \A x \in PagesOf(n) : x \notin PagesOf(p)
          <6>1. p.base \in Nat /\ p.size \in Nat /\ Apart(n, p)
            BY <3>1, <5>1 DEF PoolRecords, Apart
          <6> QED
            BY <1>2, <6>1, ApartPages
        <5>3. PagesOf(e) = PagesOf(n)
          BY <1>3 DEF PagesOf
        <5> QED
          BY <1>5, <4>2, <5>2, <5>3 DEF Used
      <4> QED
        BY <4>1, <4>2
    <3>4. /\ remaining[p.id] >= Cardinality(Used(extents[b], p))
          /\ p.id \notin kept /\ ~Fresh(p) => remaining[p.id] = Cardinality(Used(extents[b], p))
      BY DEF ArenaInv, CountsOK
    <3> QED
      BY <3>2, <3>3, <3>4
  <2> QED
    BY <2>1, <2>2
<1> QED
  BY <1>a, <1>b, <1>c, <1>d, <1>e, <1>f, <1>g, <1>j, <1>k DEF ArenaInv

(* jemalloc cuts its extents differently. *)
LEMMA ExtentStep ==
  ASSUME ArenaInv, extents' \in [Arenas -> SUBSET ExtentRecords], ExtentsOK',
         UNCHANGED <<life, listening, pools, known, remaining, removing, mem, names, nextId, thread,
                     repository, kept>>,
         \A b \in Arenas : \A p \in pools[b] : Used(extents'[b], p) = Used(extents[b], p)
  PROVE  ArenaInv'
<1> USE DEF repository
<1>1. Typed' /\ PoolsOK' /\ RemovingOK'
  BY DEF ArenaInv, Typed, PoolsOK, RemovingOK
<1>2. ThreadsOK'
  BY DEF ArenaInv, ThreadsOK, NewPool
<1>3. MemoryOK'
  BY DEF ArenaInv, MemoryOK, MappedAt, ReservedAt, ThreadMemory, Held, NewPool
<1>4. NamesOK' /\ RepositoryOK'
  BY DEF ArenaInv, NamesOK, RepositoryOK
<1>5. CountsOK'
  <2> SUFFICES ASSUME NEW b \in Arenas, NEW p \in pools[b]
               PROVE  /\ remaining[p.id] >= Cardinality(Used(extents'[b], p))
                      /\ p.id \notin kept /\ ~Fresh(p) => remaining[p.id] = Cardinality(Used(extents'[b], p))
    BY DEF CountsOK, Used, Fresh
  <2> QED
    BY DEF ArenaInv, CountsOK
<1> QED
  BY <1>1, <1>2, <1>3, <1>4, <1>5 DEF ArenaInv

LEMMA SplitStep ==
  ASSUME ArenaInv, NEW a \in Arenas, NEW e \in extents[a], NEW n \in 1 .. e.size, Split(a, e, n)
  PROVE  ArenaInv'
<1>1. /\ e \in ExtentRecords /\ e.base \in Nat /\ e.size \in Nat \ {0} /\ life[a] = "live"
      /\ n \in Nat \ {0} /\ n < e.size
  BY DEF Split, ArenaInv, Typed, ExtentRecords
<1>2. PICK c \in ExtentRecords, d \in ExtentRecords :
        /\ c = [base |-> e.base, size |-> n] /\ d = [base |-> e.base + n, size |-> e.size - n]
  <2>1. e.size - n \in Nat \ {0} /\ e.base + n \in Nat
    BY <1>1
  <2>2. /\ [base |-> e.base, size |-> n] \in ExtentRecords
        /\ [base |-> e.base + n, size |-> e.size - n] \in ExtentRecords
    BY <1>1, <2>1 DEF ExtentRecords
  <2> QED
    BY <2>2
<1>3. /\ c.base = e.base /\ c.size = n /\ d.base = e.base + n /\ d.size = e.size - n
  BY <1>2
<1>4. /\ \A b \in Arenas : extents'[b] = IF b = a THEN (extents[a] \ {e}) \cup {c, d} ELSE extents[b]
      /\ extents' \in [Arenas -> SUBSET ExtentRecords]
  BY <1>2 DEF Split, ArenaInv, Typed
<1>5. \A f \in ExtentRecords : f.base \in Nat /\ f.size \in Nat \ {0}
  BY DEF ExtentRecords
<1>6. \A f \in ExtentRecords : Apart(f, e) => Apart(f, c) /\ Apart(f, d)
  BY <1>1, <1>3, <1>5 DEF Apart
<1>7. Apart(c, d) /\ \A f, g : Apart(f, g) => Apart(g, f)
  BY <1>1, <1>3 DEF Apart
<1>8. \A p \in PoolRecords : Inside(e, p) => Inside(c, p) /\ Inside(d, p)
  BY <1>1, <1>3 DEF Inside, PoolRecords
<1>9. \A x : x \in PagesOf(e) <=> x \in PagesOf(c) \/ x \in PagesOf(d)
  BY <1>1, <1>3 DEF PagesOf
<1>10. ExtentsOK'
  <2> SUFFICES ASSUME NEW b \in Arenas
               PROVE  /\ \A f \in extents'[b] : \E p \in pools[b] :
                           Inside(f, p) /\ (life[b] = "live" => p \in known[b])
                      /\ \A f, g \in extents'[b] : f = g \/ Apart(f, g)
                      /\ life[b] = "gone" => extents'[b] = {}
    BY DEF ExtentsOK, Split, owners
  <2>1. /\ \A f \in extents[b] : f \in ExtentRecords /\ \E p \in pools[b] :
             p \in PoolRecords /\ Inside(f, p) /\ (life[b] = "live" => p \in known[b])
        /\ \A f, g \in extents[b] : f = g \/ Apart(f, g)
        /\ life[b] = "gone" => extents[b] = {}
    BY DEF ArenaInv, ExtentsOK, Typed
  <2>2. CASE b # a
    BY <1>4, <2>1, <2>2
  <2>3. CASE b = a
    <3>1. \A f \in extents'[b] : \E p \in pools[b] : Inside(f, p) /\ (life[b] = "live" => p \in known[b])
      BY <1>4, <1>8, <2>1, <2>3
    <3>2. \A f, g \in extents'[b] : f = g \/ Apart(f, g)
      BY <1>4, <1>6, <1>7, <2>1, <2>3
    <3> QED
      BY <1>1, <2>3, <3>1, <3>2
  <2> QED
    BY <2>2, <2>3
<1>11. \A b \in Arenas : \A p \in pools[b] : Used(extents'[b], p) = Used(extents[b], p)
  BY <1>4, <1>9 DEF Used
<1> QED
  BY <1>4, <1>10, <1>11, ExtentStep DEF Split, owners

(* Only extents of one pool are merged: the lookups agree. *)
LEMMA MergeStep ==
  ASSUME ArenaInv, NEW a \in Arenas, NEW e \in extents[a], NEW f \in extents[a], Merge(a, e, f)
  PROVE  ArenaInv'
<1>1. /\ e \in ExtentRecords /\ e.base \in Nat /\ e.size \in Nat \ {0} /\ life[a] = "live"
      /\ f \in ExtentRecords /\ f.base \in Nat /\ f.size \in Nat \ {0} /\ e.base + e.size = f.base
  BY DEF Merge, ArenaInv, Typed, ExtentRecords
<1>2. PICK c \in ExtentRecords : c = [base |-> e.base, size |-> e.size + f.size]
  <2>1. e.size + f.size \in Nat \ {0}
    BY <1>1
  <2>2. [base |-> e.base, size |-> e.size + f.size] \in ExtentRecords
    BY <1>1, <2>1 DEF ExtentRecords
  <2> QED
    BY <2>2
<1>3. c.base = e.base /\ c.size = e.size + f.size
  BY <1>2
<1>4. /\ \A b \in Arenas : extents'[b] = IF b = a THEN (extents[a] \ {e, f}) \cup {c} ELSE extents[b]
      /\ extents' \in [Arenas -> SUBSET ExtentRecords]
  BY <1>2 DEF Merge, ArenaInv, Typed
<1>5. \A g \in ExtentRecords : g.base \in Nat /\ g.size \in Nat \ {0}
  BY DEF ExtentRecords
<1>6. \A g \in ExtentRecords : Apart(g, e) /\ Apart(g, f) => Apart(g, c)
  BY <1>1, <1>3, <1>5 DEF Apart
<1>7. \A g, k : Apart(g, k) => Apart(k, g)
  BY DEF Apart
<1>8. \A x : x \in PagesOf(c) <=> x \in PagesOf(e) \/ x \in PagesOf(f)
  BY <1>1, <1>3 DEF PagesOf
<1>9. PICK p \in pools[a] : Inside(c, p) /\ p \in known[a]
  <2>1. PICK p \in pools[a] : Inside(e, p) /\ p \in known[a]
    BY <1>1 DEF ArenaInv, ExtentsOK
  <2>2. PICK q \in pools[a] : Inside(f, q)
    BY <1>1 DEF ArenaInv, ExtentsOK
  <2>3. Lookup(pools[a], e.base) = p
    BY <1>1, <2>1, ExtentLookup DEF ArenaInv
  <2>4. Lookup(pools[a], f.base) = q
    BY <1>1, <2>2, ExtentLookup DEF ArenaInv
  <2>5. p = q
    BY <2>3, <2>4 DEF Merge, MayMerge
  <2>6. p \in PoolRecords
    BY DEF ArenaInv, Typed
  <2>7. Inside(c, p)
    BY <1>1, <1>3, <2>1, <2>2, <2>5, <2>6 DEF Inside, PoolRecords
  <2> QED
    BY <2>1, <2>7
<1>10. ExtentsOK'
  <2> SUFFICES ASSUME NEW b \in Arenas
               PROVE  /\ \A g \in extents'[b] : \E q \in pools[b] :
                           Inside(g, q) /\ (life[b] = "live" => q \in known[b])
                      /\ \A g, k \in extents'[b] : g = k \/ Apart(g, k)
                      /\ life[b] = "gone" => extents'[b] = {}
    BY DEF ExtentsOK, Merge, owners
  <2>1. /\ \A g \in extents[b] : g \in ExtentRecords /\ \E q \in pools[b] :
             Inside(g, q) /\ (life[b] = "live" => q \in known[b])
        /\ \A g, k \in extents[b] : g = k \/ Apart(g, k)
        /\ life[b] = "gone" => extents[b] = {}
    BY DEF ArenaInv, ExtentsOK, Typed
  <2>2. CASE b # a
    BY <1>4, <2>1, <2>2
  <2>3. CASE b = a
    <3>1. \A g \in extents'[b] : \E q \in pools[b] : Inside(g, q) /\ (life[b] = "live" => q \in known[b])
      BY <1>4, <1>9, <2>1, <2>3
    <3>2. \A g, k \in extents'[b] : g = k \/ Apart(g, k)
      BY <1>4, <1>6, <1>7, <2>1, <2>3
    <3> QED
      BY <1>1, <2>3, <3>1, <3>2
  <2> QED
    BY <2>2, <2>3
<1>11. \A b \in Arenas : \A q \in pools[b] : Used(extents'[b], q) = Used(extents[b], q)
  BY <1>4, <1>8 DEF Used
<1> QED
  BY <1>4, <1>10, <1>11, ExtentStep DEF Merge, owners

(* What taking an extent away does to the counts. *)
LEMMA ExtentGone ==
  ASSUME ArenaInv, NEW a \in Arenas, NEW e \in extents[a]
  PROVE  \E p \in pools[a] :
    /\ Inside(e, p) /\ e.size \in Nat \ {0} /\ p \in PoolRecords
    /\ Lookup(pools[a], e.base) = p /\ p # None /\ IsSubset(p, e.base, e.size)
    /\ e.size <= Cardinality(Used(extents[a], p))
    /\ Cardinality(Used(extents[a] \ {e}, p)) = Cardinality(Used(extents[a], p)) - e.size
    /\ \A q \in pools[a] : q # p => Used(extents[a] \ {e}, q) = Used(extents[a], q)
<1>1. e \in ExtentRecords /\ extents[a] \subseteq ExtentRecords /\ e.size \in Nat \ {0}
  BY DEF ArenaInv, Typed, ExtentRecords
<1>2. PICK p \in pools[a] : Inside(e, p)
  BY DEF ArenaInv, ExtentsOK
<1>3. p \in PoolRecords
  BY DEF ArenaInv, Typed
<1>4. Lookup(pools[a], e.base) = p /\ p # None /\ IsSubset(p, e.base, e.size)
  BY <1>1, <1>2, ExtentLookup DEF ArenaInv
<1>5. \A f, g \in extents[a] : f = g \/ Apart(f, g)
  BY DEF ArenaInv, ExtentsOK
<1>6. /\ e.size <= Cardinality(Used(extents[a], p))
      /\ Cardinality(Used(extents[a] \ {e}, p)) = Cardinality(Used(extents[a], p)) - e.size
  BY <1>1, <1>2, <1>3, <1>5, UsedLess
<1>7. ASSUME NEW q \in pools[a], q # p
      PROVE  Used(extents[a] \ {e}, q) = Used(extents[a], q)
  <2>1. q \in PoolRecords /\ Apart(p, q)
    BY <1>7, PoolsApart DEF ArenaInv
  <2>2. p.base \in Nat /\ p.size \in Nat /\ q.base \in Nat /\ q.size \in Nat
    BY <1>3, <2>1 DEF PoolRecords
  <2>3. \A x \in PagesOf(e) : x \notin PagesOf(q)
    <3>1. PagesOf(e) \subseteq PagesOf(p)
      BY <1>1, <1>2, <1>3, ExtentPages
    <3> QED
      BY <2>1, <2>2, <3>1, ApartPages
  <2> QED
    BY <2>3 DEF Used
<1> QED
  BY <1>1, <1>2, <1>3, <1>4, <1>6, <1>7

LEMMA DecommitFailsStep ==
  ASSUME ArenaInv, NEW a \in Arenas, NEW e \in extents[a], DecommitFails(a, e)
  PROVE  ArenaInv'
<1> USE DEF repository
<1>1. PICK p \in pools[a] :
        /\ e.size \in Nat \ {0} /\ p \in PoolRecords
        /\ Lookup(pools[a], e.base) = p
        /\ Cardinality(Used(extents[a] \ {e}, p)) = Cardinality(Used(extents[a], p)) - e.size
        /\ \A q \in pools[a] : q # p => Used(extents[a] \ {e}, q) = Used(extents[a], q)
  BY ExtentGone
<1>2. /\ \A b \in Arenas : extents'[b] = IF b = a THEN extents[a] \ {e} ELSE extents[b]
      /\ extents' \in [Arenas -> SUBSET ExtentRecords]
  BY DEF DecommitFails, ArenaInv, Typed
<1>3. /\ kept' = kept \cup {p.id} /\ life[a] = "destroying"
      /\ UNCHANGED <<life, listening, pools, known, remaining, removing, mem, names, nextId, thread,
                     idMap, addressMap>>
  BY <1>1 DEF DecommitFails, owners
<1>4. Typed' /\ PoolsOK' /\ RemovingOK'
  BY <1>2, <1>3 DEF ArenaInv, Typed, PoolsOK, RemovingOK
<1>5. ThreadsOK'
  BY <1>3 DEF ArenaInv, ThreadsOK, NewPool
<1>6. MemoryOK'
  BY <1>3 DEF ArenaInv, MemoryOK, MappedAt, ReservedAt, ThreadMemory, Held, NewPool
<1>7. NamesOK' /\ RepositoryOK'
  BY <1>3 DEF ArenaInv, NamesOK, RepositoryOK
<1>8. ExtentsOK'
  BY <1>2, <1>3 DEF ArenaInv, ExtentsOK
<1>9. CountsOK'
  <2> SUFFICES ASSUME NEW b \in Arenas, NEW q \in pools[b]
               PROVE  /\ remaining[q.id] >= Cardinality(Used(extents'[b], q))
                      /\ q.id \notin kept' /\ ~Fresh(q) => remaining[q.id] = Cardinality(Used(extents'[b], q))
    BY <1>3 DEF CountsOK, Used, Fresh
  <2>1. /\ remaining[q.id] >= Cardinality(Used(extents[b], q))
        /\ q.id \notin kept /\ ~Fresh(q) => remaining[q.id] = Cardinality(Used(extents[b], q))
    BY DEF ArenaInv, CountsOK
  <2>2. CASE b = a /\ q = p
    <3>1. Cardinality(Used(extents[a], p)) \in Nat /\ remaining[p.id] \in Nat
      BY <1>1, UsedIsFinite DEF ArenaInv, Typed, PoolRecords
    <3>2. Used(extents'[b], q) = Used(extents[a] \ {e}, p)
      BY <1>2, <2>2
    <3> QED
      BY <1>1, <1>3, <2>1, <2>2, <3>1, <3>2
  <2>3. CASE ~(b = a /\ q = p)
    <3>1. Used(extents'[b], q) = Used(extents[b], q)
      BY <1>1, <1>2, <2>3
    <3> QED
      BY <1>3, <2>1, <3>1
  <2> QED
    BY <2>2, <2>3
<1> QED
  BY <1>4, <1>5, <1>6, <1>7, <1>8, <1>9 DEF ArenaInv

(* A pool of a live or dying arena is not one that a thread is making. *)
LEMMA NobodyMakes ==
  ASSUME ArenaInv, NEW a \in Arenas, life[a] # "live", NEW p \in pools[a]
  PROVE  \A t \in Threads : thread[t].pc # "idle" => thread[t].id # p.id
<1> SUFFICES ASSUME NEW t \in Threads, thread[t].pc # "idle", thread[t].id = p.id PROVE FALSE
  OBVIOUS
<1>1. /\ thread[t].pc = "registered" /\ thread[t].arena \in Arenas /\ life[thread[t].arena] = "live"
      /\ NewPool(t) \in pools[thread[t].arena]
  BY DEF ArenaInv, ThreadsOK
<1>2. NewPool(t).id = p.id /\ NewPool(t).arena = thread[t].arena
  BY DEF NewPool
<1>3. NewPool(t) = p /\ p.arena = a
  BY <1>1, <1>2 DEF ArenaInv, PoolsOK
<1> QED
  BY <1>1, <1>2, <1>3

(* Some of the pool is left. *)
LEMMA RangeRemoved ==
  ASSUME ArenaInv, NEW a \in Arenas, NEW e \in extents[a], NEW p \in pools[a], NEW left \in Nat,
         life[a] = "destroying", left > 0, p \in PoolRecords, e.size \in Nat,
         e.size <= Cardinality(Used(extents[a], p)),
         Cardinality(Used(extents[a] \ {e}, p)) = Cardinality(Used(extents[a], p)) - e.size,
         \A q \in pools[a] : q # p => Used(extents[a] \ {e}, q) = Used(extents[a], q),
         left = remaining[p.id] - e.size,
         extents' = [extents EXCEPT ![a] = @ \ {e}],
         remaining' = [remaining EXCEPT ![p.id] = left],
         UNCHANGED <<life, listening, pools, removing, known, mem, names, nextId, thread, idMap,
                     addressMap, kept>>
  PROVE  ArenaInv'
<1>1. p.id \in Ids /\ remaining[p.id] \in Nat
  BY DEF PoolRecords, ArenaInv, Typed
<1>2. /\ \A b \in Arenas : extents'[b] = IF b = a THEN extents[a] \ {e} ELSE extents[b]
      /\ extents' \in [Arenas -> SUBSET ExtentRecords]
  BY DEF ArenaInv, Typed
<1>3. /\ \A i \in Ids : remaining'[i] = IF i = p.id THEN left ELSE remaining[i]
      /\ remaining' \in [Ids -> Nat]
  BY <1>1 DEF ArenaInv, Typed
<1>4. \A b \in Arenas : \A q \in pools[b] : q.id \in Ids
  BY DEF ArenaInv, Typed, PoolRecords
<1>5. Typed' /\ RemovingOK'
  BY <1>2, <1>3 DEF ArenaInv, Typed, RemovingOK
<1>6. PoolsOK'
  <2>1. \A b \in Arenas : \A q \in pools[b] : remaining'[q.id] > 0
    BY <1>3, <1>4 DEF ArenaInv, PoolsOK
  <2> QED
    BY <2>1 DEF ArenaInv, PoolsOK
<1>7. ThreadsOK'
  <2>1. \A t \in Threads : NewPool(t)' = NewPool(t)
    BY DEF NewPool
  <2>2. \A t \in Threads : thread[t].pc # "idle" =>
          thread[t].id \in Ids /\ remaining'[thread[t].id] = remaining[thread[t].id]
    <3>1. \A t \in Threads : thread[t].pc # "idle" => thread[t].id \in Ids /\ thread[t].id # p.id
      BY NobodyMakes DEF ArenaInv, ThreadsOK
    <3> QED
      BY <1>3, <3>1
  <2> QED
    BY <2>1, <2>2 DEF ArenaInv, ThreadsOK
<1>8. MemoryOK'
  BY DEF ArenaInv, MemoryOK, MappedAt, ReservedAt, ThreadMemory, Held, NewPool
<1>9. NamesOK' /\ RepositoryOK'
  BY DEF ArenaInv, NamesOK, RepositoryOK
<1>10. ExtentsOK'
  BY <1>2 DEF ArenaInv, ExtentsOK
<1>11. CountsOK'
  <2> SUFFICES ASSUME NEW b \in Arenas, NEW q \in pools[b]
               PROVE  /\ remaining'[q.id] >= Cardinality(Used(extents'[b], q))
                      /\ q.id \notin kept /\ ~Fresh(q) => remaining'[q.id] = Cardinality(Used(extents'[b], q))
    BY DEF CountsOK, Used, Fresh
  <2>1. /\ remaining[q.id] >= Cardinality(Used(extents[b], q))
        /\ q.id \notin kept /\ ~Fresh(q) => remaining[q.id] = Cardinality(Used(extents[b], q))
    BY DEF ArenaInv, CountsOK
  <2>2. CASE q = p
    <3>1. b = a
      BY <2>2 DEF ArenaInv, PoolsOK
    <3>2. Used(extents'[b], q) = Used(extents[a] \ {e}, p)
      BY <1>2, <2>2, <3>1
    <3>3. remaining'[q.id] = left /\ Cardinality(Used(extents[a], p)) \in Nat
      BY <1>1, <1>3, <2>2, UsedIsFinite
    <3> QED
      BY <1>1, <2>1, <2>2, <3>1, <3>2, <3>3
  <2>3. CASE q # p
    <3>1. q.id # p.id
      BY <2>3 DEF ArenaInv, PoolsOK
    <3>2. remaining'[q.id] = remaining[q.id]
      BY <1>3, <1>4, <3>1
    <3>3. Used(extents'[b], q) = Used(extents[b], q)
      BY <1>2, <2>3
    <3> QED
      BY <2>1, <3>2, <3>3
  <2> QED
    BY <2>2, <2>3
<1> QED
  BY <1>5, <1>6, <1>7, <1>8, <1>9, <1>10, <1>11 DEF ArenaInv

(* Nothing of the pool is left: no extent has pages of it any more, and it   *)
(* moves from the collection to remove_shm_pool().                           *)
LEMMA PoolRemoved ==
  ASSUME ArenaInv, NEW a \in Arenas, NEW e \in extents[a], NEW p \in pools[a],
         life[a] = "destroying", removing[a] = None, p \in PoolRecords, e.size \in Nat,
         e.size <= Cardinality(Used(extents[a], p)),
         Cardinality(Used(extents[a] \ {e}, p)) = Cardinality(Used(extents[a], p)) - e.size,
         \A q \in pools[a] : q # p => Used(extents[a] \ {e}, q) = Used(extents[a], q),
         remaining[p.id] = e.size,
         extents' = [extents EXCEPT ![a] = @ \ {e}],
         remaining' = [remaining EXCEPT ![p.id] = 0],
         pools' = [pools EXCEPT ![a] = @ \ {p}],
         removing' = [removing EXCEPT ![a] = [pool |-> p, step |-> "unmap"]],
         UNCHANGED <<life, listening, known, mem, names, nextId, thread, idMap, addressMap, kept>>
  PROVE  ArenaInv'
<1>1. p.id \in Ids /\ remaining[p.id] \in Nat
  BY DEF PoolRecords, ArenaInv, Typed
<1>2. /\ \A b \in Arenas : extents'[b] = IF b = a THEN extents[a] \ {e} ELSE extents[b]
      /\ extents' \in [Arenas -> SUBSET ExtentRecords]
  BY DEF ArenaInv, Typed
<1>3. /\ \A i \in Ids : remaining'[i] = IF i = p.id THEN 0 ELSE remaining[i]
      /\ remaining' \in [Ids -> Nat]
  BY <1>1 DEF ArenaInv, Typed
<1>4. /\ \A b \in Arenas : pools'[b] = IF b = a THEN pools[a] \ {p} ELSE pools[b]
      /\ pools' \in [Arenas -> SUBSET PoolRecords]
  BY DEF ArenaInv, Typed
<1>5. PICK r \in [pool : PoolRecords, step : {"unmap", "unlink"}] :
        r = [pool |-> p, step |-> "unmap"] /\ r.pool = p /\ r.step = "unmap" /\ r # None
  <2>1. [pool |-> p, step |-> "unmap"] \in [pool : PoolRecords, step : {"unmap", "unlink"}]
    OBVIOUS
  <2> QED
    BY <2>1, ConstantsAssumption
<1>6. /\ \A b \in Arenas : removing'[b] = IF b = a THEN r ELSE removing[b]
      /\ removing' \in [Arenas -> [pool : PoolRecords, step : {"unmap", "unlink"}] \cup {None}]
  BY <1>5 DEF ArenaInv, Typed
<1>7. \A b \in Arenas : \A q \in pools'[b] :
        q \in pools[b] /\ q # p /\ q.id \in Ids /\ q.id # p.id /\ remaining'[q.id] = remaining[q.id]
  <2>1. \A b \in Arenas : \A q \in pools'[b] : q \in pools[b] /\ q # p /\ q.id \in Ids /\ q.id # p.id
    BY <1>4 DEF ArenaInv, PoolsOK, Typed, PoolRecords
  <2> QED
    BY <1>3, <2>1
<1>8. /\ p.arena = a /\ p.id < nextId /\ p.id \in names /\ known[a] = {}
      /\ \A b \in Arenas : removing[b] # None => removing[b].pool.id # p.id
  BY DEF ArenaInv, PoolsOK, RemovingOK
<1>9. \A t \in Threads : thread[t].pc # "idle" =>
        thread[t].id \in Ids /\ thread[t].id # p.id /\ remaining'[thread[t].id] = remaining[thread[t].id]
  <2>1. \A t \in Threads : thread[t].pc # "idle" => thread[t].id \in Ids /\ thread[t].id # p.id
    BY NobodyMakes DEF ArenaInv, ThreadsOK
  <2> QED
    BY <1>3, <2>1
<1>a. Typed'
  BY <1>2, <1>3, <1>4, <1>6 DEF ArenaInv, Typed
<1>b. PoolsOK'
  <2>1. \A b \in Arenas : known[b] \subseteq pools'[b]
    BY <1>4, <1>8 DEF ArenaInv, PoolsOK
  <2>2. \A b \in Arenas : life[b] = "none" => pools'[b] = {}
    BY <1>4 DEF ArenaInv, PoolsOK
  <2>3. \A b \in Arenas : \A q \in pools'[b] :
          q.arena = b /\ q.id < nextId /\ q.id \in names /\ remaining'[q.id] > 0
    BY <1>7 DEF ArenaInv, PoolsOK
  <2>4. \A b, c \in Arenas : \A q \in pools'[b], k \in pools'[c] : q.id = k.id => q = k
    BY <1>7 DEF ArenaInv, PoolsOK
  <2>5. \A b \in Arenas : life[b] \in {"destroying", "gone"} => known[b] = {}
    BY DEF ArenaInv, PoolsOK
  <2> QED
    BY <2>1, <2>2, <2>3, <2>4, <2>5 DEF PoolsOK
<1>c. RemovingOK'
  <2> SUFFICES ASSUME NEW b \in Arenas, removing'[b] # None
               PROVE  /\ life[b] = "destroying"
                      /\ removing'[b].pool.arena = b
                      /\ removing'[b].pool.id < nextId /\ removing'[b].pool.id \in names
                      /\ \A c \in Arenas : \A q \in pools'[c] : q.id # removing'[b].pool.id
                      /\ \A c \in Arenas : c # b /\ removing'[c] # None => removing'[c].pool.id # removing'[b].pool.id
    BY DEF RemovingOK
  <2>1. CASE b = a
    BY <1>5, <1>6, <1>7, <1>8, <2>1
  <2>2. CASE b # a
    <3>1. removing'[b] = removing[b]
      BY <1>6, <2>2
    <3>2. /\ life[b] = "destroying"
          /\ removing[b].pool.arena = b
          /\ removing[b].pool.id < nextId /\ removing[b].pool.id \in names
          /\ \A c \in Arenas : \A q \in pools[c] : q.id # removing[b].pool.id
          /\ \A c \in Arenas : c # b /\ removing[c] # None => removing[c].pool.id # removing[b].pool.id
      BY <3>1 DEF ArenaInv, RemovingOK
    <3>3. \A c \in Arenas : c # b /\ removing'[c] # None => removing'[c].pool.id # removing[b].pool.id
      BY <1>5, <1>6, <3>2
    <3> QED
      BY <1>7, <3>1, <3>2, <3>3
  <2> QED
    BY <2>1, <2>2
<1>d. ThreadsOK'
  <2> SUFFICES ASSUME NEW u \in Threads, thread[u].pc # "idle"
        PROVE
    /\ thread[u].arena \in Arenas /\ life[thread[u].arena] = "live"
    /\ thread[u].id \in Ids /\ thread[u].id < nextId /\ thread[u].id \in names
    /\ \A v \in Threads : v # u /\ thread[v].pc # "idle" => thread[v].id # thread[u].id
    /\ \A b \in Arenas : removing'[b] # None => removing'[b].pool.id # thread[u].id
    /\ thread[u].pc # "registered" =>
         \A b \in Arenas : \A q \in pools'[b] : q.id # thread[u].id
    /\ thread[u].pc = "registered" =>
         /\ NewPool(u) \in pools'[thread[u].arena] /\ NewPool(u) \notin known[thread[u].arena]
         /\ remaining'[thread[u].id] = thread[u].size
    BY DEF ThreadsOK, NewPool
  <2>1. /\ thread[u].arena \in Arenas /\ life[thread[u].arena] = "live"
        /\ thread[u].id \in Ids /\ thread[u].id < nextId /\ thread[u].id \in names
        /\ \A v \in Threads : v # u /\ thread[v].pc # "idle" => thread[v].id # thread[u].id
        /\ \A b \in Arenas : removing[b] # None => removing[b].pool.id # thread[u].id
        /\ thread[u].pc # "registered" =>
             \A b \in Arenas : \A q \in pools[b] : q.id # thread[u].id
        /\ thread[u].pc = "registered" =>
             /\ NewPool(u) \in pools[thread[u].arena] /\ NewPool(u) \notin known[thread[u].arena]
             /\ remaining[thread[u].id] = thread[u].size
    BY DEF ArenaInv, ThreadsOK
  <2>2. \A b \in Arenas : removing'[b] # None => removing'[b].pool.id # thread[u].id
    BY <1>5, <1>6, <1>9, <2>1
  <2>3. thread[u].arena # a
    BY <2>1
  <2>4. pools'[thread[u].arena] = pools[thread[u].arena]
    BY <1>4, <2>1, <2>3
  <2> QED
    BY <1>7, <1>9, <2>1, <2>2, <2>4
<1>e. MemoryOK'
  <2>1. \A q : MappedAt(q)' = MappedAt(q)
    BY DEF MappedAt
  <2>2. \A b \in Arenas : \A q \in pools'[b] : MappedAt(q)'
    BY <1>7, <2>1 DEF ArenaInv, MemoryOK
  <2>3. \A u \in Threads : ThreadMemory(u)'
    BY DEF ArenaInv, MemoryOK, ThreadMemory, MappedAt, ReservedAt, NewPool
  <2>4. ASSUME NEW b \in Arenas, removing'[b] # None, removing'[b].step = "unmap"
        PROVE  MappedAt(removing[b].pool)'
    <3>1. CASE b = a
      <4>1. removing'[b].pool = p
        BY <1>5, <1>6, <3>1
      <4>2. MappedAt(p)
        BY DEF ArenaInv, MemoryOK
      <4> QED
        BY <4>1, <4>2 DEF MappedAt
    <3>2. CASE b # a
      <4>1. removing'[b] = removing[b]
        BY <1>6, <3>2
      <4>2. MappedAt(removing[b].pool)
        BY <2>4, <4>1 DEF ArenaInv, MemoryOK
      <4> QED
        BY <4>1, <4>2 DEF MappedAt
    <3> QED
      BY <3>1, <3>2
  <2>5. ASSUME NEW x \in Pages, mem[x].kind = "pool"
        PROVE  Held(mem[x].id, x)'
    <3>1. Held(mem[x].id, x)
      BY <2>5 DEF ArenaInv, MemoryOK
    <3>2. CASE \E b \in Arenas : \E q \in pools[b] : q.id = mem[x].id /\ x \in PagesOf(q)
      <4>1. PICK b \in Arenas : \E q \in pools[b] : q.id = mem[x].id /\ x \in PagesOf(q)
        BY <3>2
      <4>2. PICK q \in pools[b] : q.id = mem[x].id /\ x \in PagesOf(q)
        BY <4>1
      <4>3. CASE q = p
        <5>1. /\ removing'[a] # None /\ removing'[a].step = "unmap"
              /\ removing'[a].pool.id = mem[x].id /\ x \in PagesOf(removing'[a].pool)
          BY <1>5, <1>6, <4>2, <4>3
        <5>2. PagesOf(removing'[a].pool) = PagesOf(removing[a].pool)'
          BY DEF PagesOf
        <5> QED
          BY <5>1, <5>2 DEF Held
      <4>4. CASE q # p
        <5>1. q \in pools'[b]
          BY <1>4, <4>4
        <5> QED
          BY <4>2, <5>1 DEF Held
      <4> QED
        BY <4>3, <4>4
    <3>3. CASE \E u \in Threads : thread[u].pc = "mapped" /\ thread[u].id = mem[x].id /\ x \in PagesOf(NewPool(u))
      BY <3>3 DEF Held, NewPool
    <3>4. CASE \E b \in Arenas : /\ removing[b] # None /\ removing[b].step = "unmap"
                       /\ removing[b].pool.id = mem[x].id /\ x \in PagesOf(removing[b].pool)
      <4>1. PICK b \in Arenas : /\ removing[b] # None /\ removing[b].step = "unmap"
                       /\ removing[b].pool.id = mem[x].id /\ x \in PagesOf(removing[b].pool)
        BY <3>4
      <4>2. removing'[b] = removing[b]
        BY <1>6, <4>1
      <4>3. PagesOf(removing[b].pool)' = PagesOf(removing[b].pool)
        BY <4>2 DEF PagesOf
      <4> QED
        BY <4>1, <4>2, <4>3 DEF Held
    <3> QED
      BY <3>1, <3>2, <3>3, <3>4 DEF Held
  <2> QED
    BY <2>2, <2>3, <2>4, <2>5 DEF MemoryOK
<1>f. NamesOK'
  <2> SUFFICES ASSUME NEW i \in names
               PROVE  \/ \E b \in Arenas : \E q \in pools'[b] : q.id = i
                      \/ \E u \in Threads : thread[u].pc # "idle" /\ thread[u].id = i
                      \/ \E b \in Arenas : removing'[b] # None /\ removing'[b].pool.id = i
    BY DEF NamesOK
  <2>1. CASE \E b \in Arenas : \E q \in pools[b] : q.id = i
    <3>1. PICK b \in Arenas : \E q \in pools[b] : q.id = i
      BY <2>1
    <3>2. PICK q \in pools[b] : q.id = i
      BY <3>1
    <3>3. CASE q = p
      BY <1>5, <1>6, <3>2, <3>3
    <3>4. CASE q # p
      BY <1>4, <3>2, <3>4
    <3> QED
      BY <3>3, <3>4
  <2>2. CASE \E b \in Arenas : removing[b] # None /\ removing[b].pool.id = i
    BY <1>6, <2>2
  <2> QED
    BY <2>1, <2>2 DEF ArenaInv, NamesOK
<1>g. RepositoryOK'
  BY DEF ArenaInv, RepositoryOK
<1>h. Cardinality(Used(extents[a] \ {e}, p)) = 0
  <2>1. remaining[p.id] >= Cardinality(Used(extents[a], p))
    BY DEF ArenaInv, CountsOK
  <2>2. Cardinality(Used(extents[a], p)) \in Nat
    BY UsedIsFinite
  <2> QED
    BY <1>1, <2>1, <2>2
<1>i. \A f \in extents[a] \ {e} : ~Inside(f, p)
  <2> SUFFICES ASSUME NEW f \in extents[a] \ {e}, Inside(f, p) PROVE FALSE
    OBVIOUS
  <2>1. f \in ExtentRecords
    BY DEF ArenaInv, Typed
  <2>2. f.base \in PagesOf(f) /\ f.base \in PagesOf(p)
    BY <2>1, ExtentPages
  <2>3. f.base \in Used(extents[a] \ {e}, p)
    BY <2>2 DEF Used
  <2>4. IsFiniteSet(Used(extents[a] \ {e}, p))
    BY UsedIsFinite
  <2>5. Used(extents[a] \ {e}, p) = {}
    BY <1>h, <2>4, FS_EmptySet
  <2> QED
    BY <2>3, <2>5
<1>j. ExtentsOK'
  <2> SUFFICES ASSUME NEW b \in Arenas
               PROVE  /\ \A f \in extents'[b] : \E q \in pools'[b] :
                           Inside(f, q) /\ (life[b] = "live" => q \in known[b])
                      /\ \A f, g \in extents'[b] : f = g \/ Apart(f, g)
                      /\ life[b] = "gone" => extents'[b] = {}
    BY DEF ExtentsOK
  <2>1. /\ \A f \in extents[b] : \E q \in pools[b] :
             Inside(f, q) /\ (life[b] = "live" => q \in known[b])
        /\ \A f, g \in extents[b] : f = g \/ Apart(f, g)
        /\ life[b] = "gone" => extents[b] = {}
    BY DEF ArenaInv, ExtentsOK
  <2>2. CASE b # a
    BY <1>2, <1>4, <2>1, <2>2
  <2>3. CASE b = a
    <3>1. \A f \in extents'[b] : \E q \in pools'[b] : Inside(f, q)
      BY <1>2, <1>4, <1>i, <2>1, <2>3
    <3> QED
      BY <1>2, <2>1, <2>3, <3>1
  <2> QED
    BY <2>2, <2>3
<1>k. CountsOK'
  <2> SUFFICES ASSUME NEW b \in Arenas, NEW q \in pools'[b]
               PROVE  /\ remaining'[q.id] >= Cardinality(Used(extents'[b], q))
                      /\ q.id \notin kept /\ ~Fresh(q) => remaining'[q.id] = Cardinality(Used(extents'[b], q))
    BY DEF CountsOK, Used, Fresh
  <2>1. /\ remaining[q.id] >= Cardinality(Used(extents[b], q))
        /\ q.id \notin kept /\ ~Fresh(q) => remaining[q.id] = Cardinality(Used(extents[b], q))
    BY <1>7 DEF ArenaInv, CountsOK
  <2>2. Used(extents'[b], q) = Used(extents[b], q)
    BY <1>2, <1>7
  <2> QED
    BY <1>7, <2>1, <2>2
<1> QED
  BY <1>a, <1>b, <1>c, <1>d, <1>e, <1>f, <1>g, <1>j, <1>k DEF ArenaInv

(* The destroy hook finds the pool of the range, whose size is at least the  *)
(* range's.                                                                  *)
LEMMA RemoveRangeStep ==
  ASSUME ArenaInv, NEW a \in Arenas, NEW e \in extents[a], RemoveRange(a, e)
  PROVE  ArenaInv'
<1>1. PICK p \in pools[a] :
        /\ e.size \in Nat \ {0} /\ p \in PoolRecords
        /\ Lookup(pools[a], e.base) = p /\ p # None /\ IsSubset(p, e.base, e.size)
        /\ e.size <= Cardinality(Used(extents[a], p))
        /\ Cardinality(Used(extents[a] \ {e}, p)) = Cardinality(Used(extents[a], p)) - e.size
        /\ \A q \in pools[a] : q # p => Used(extents[a] \ {e}, q) = Used(extents[a], q)
  BY ExtentGone
<1>2. /\ remaining[p.id] > 0 /\ remaining[p.id] \in Nat
      /\ remaining[p.id] >= Cardinality(Used(extents[a], p))
  BY <1>1 DEF ArenaInv, PoolsOK, CountsOK, Typed, PoolRecords
<1>3. PICK left \in Nat : /\ left = SizeRemoved(remaining[p.id], e.size)
                          /\ left = remaining[p.id] - e.size
  <2>1. e.size <= remaining[p.id]
    <3>1. Cardinality(Used(extents[a], p)) \in Nat
      BY <1>1, UsedIsFinite
    <3> QED
      BY <1>1, <1>2, <3>1
  <2> QED
    BY <1>1, <1>2, <2>1 DEF SizeRemoved
<1>4. /\ life[a] = "destroying" /\ removing[a] = None
      /\ extents' = [extents EXCEPT ![a] = @ \ {e}]
      /\ remaining' = [remaining EXCEPT ![p.id] = left]
      /\ pools' = IF left > 0 THEN pools ELSE [pools EXCEPT ![a] = @ \ {p}]
      /\ removing' = IF left > 0 THEN removing
                     ELSE [removing EXCEPT ![a] = [pool |-> p, step |-> "unmap"]]
      /\ UNCHANGED <<life, listening, known, mem, names, nextId, thread, idMap, addressMap, kept>>
  BY <1>1, <1>2, <1>3 DEF RemoveRange, owners, repository
<1>5. CASE left > 0
  BY <1>1, <1>3, <1>4, <1>5, RangeRemoved
<1>6. CASE left = 0
  <2>1. remaining[p.id] = e.size
    BY <1>1, <1>2, <1>3, <1>6
  <2>2. remaining' = [remaining EXCEPT ![p.id] = 0] /\ pools' = [pools EXCEPT ![a] = @ \ {p}]
        /\ removing' = [removing EXCEPT ![a] = [pool |-> p, step |-> "unmap"]]
    BY <1>4, <1>6
  <2>3. /\ life[a] = "destroying" /\ removing[a] = None
        /\ extents' = [extents EXCEPT ![a] = @ \ {e}]
        /\ UNCHANGED <<life, listening, known, mem, names, nextId, thread, idMap, addressMap, kept>>
    BY <1>4
  <2>4. p \in PoolRecords /\ e.size \in Nat
    BY <1>1
  <2> QED
    BY <1>1, <2>1, <2>2, <2>3, <2>4, PoolRemoved
<1> QED
  BY <1>3, <1>5, <1>6

(* remove_shm_pool() unmaps pages that nobody else has. *)
LEMMA UnmapStep ==
  ASSUME ArenaInv, NEW a \in Arenas, Unmap(a)
  PROVE  ArenaInv'
<1>1. PICK p \in PoolRecords : /\ removing[a] = [pool |-> p, step |-> "unmap"]
                               /\ p = removing[a].pool /\ removing[a] # None
  BY DEF Unmap, ArenaInv, Typed
<1>2. PICK r \in [pool : PoolRecords, step : {"unmap", "unlink"}] :
        r = [pool |-> p, step |-> "unlink"] /\ r.pool = p /\ r.step = "unlink" /\ r # None
  <2>1. [pool |-> p, step |-> "unlink"] \in [pool : PoolRecords, step : {"unmap", "unlink"}]
    OBVIOUS
  <2> QED
    BY <2>1, ConstantsAssumption
<1>3. /\ \A b \in Arenas : removing'[b] = IF b = a THEN r ELSE removing[b]
      /\ removing' \in [Arenas -> [pool : PoolRecords, step : {"unmap", "unlink"}] \cup {None}]
  <2>1. removing \in [Arenas -> [pool : PoolRecords, step : {"unmap", "unlink"}] \cup {None}]
    BY DEF ArenaInv, Typed
  <2>2. [removing[a] EXCEPT !.step = "unlink"] = r
    BY <1>1, <1>2
  <2>3. removing' = [removing EXCEPT ![a] = r]
    BY <2>1, <2>2 DEF Unmap
  <2> QED
    BY <2>1, <2>3
<1>4. \A x \in Pages : mem'[x] = IF x \in PagesOf(p) THEN Nothing ELSE mem[x]
  BY <1>1 DEF Unmap, Unmapped
<1>5. UNCHANGED <<life, listening, pools, known, extents, remaining, names, nextId, thread,
                  idMap, addressMap, kept>>
  BY DEF Unmap, owners, repository
<1>6. \A b \in Arenas : /\ removing'[b] # None <=> removing[b] # None
                        /\ removing[b] # None => removing'[b].pool = removing[b].pool
                        /\ removing'[b] # None /\ removing'[b].step = "unmap" => b # a /\ removing'[b] = removing[b]
  BY <1>1, <1>2, <1>3
<1>7. /\ \A b \in Arenas : \A q \in pools[b] : q.id # p.id
      /\ \A b \in Arenas : b # a /\ removing[b] # None => removing[b].pool.id # p.id
      /\ \A t \in Threads : thread[t].pc # "idle" => thread[t].id # p.id
  BY <1>1 DEF ArenaInv, RemovingOK, ThreadsOK
<1>a. Typed'
  BY <1>3, <1>5 DEF ArenaInv, Typed
<1>b. PoolsOK'
  BY <1>5 DEF ArenaInv, PoolsOK
<1>c. RemovingOK'
  <2> SUFFICES ASSUME NEW b \in Arenas, removing'[b] # None
               PROVE  /\ life[b] = "destroying"
                      /\ removing'[b].pool.arena = b
                      /\ removing'[b].pool.id < nextId /\ removing'[b].pool.id \in names
                      /\ \A c \in Arenas : \A q \in pools[c] : q.id # removing'[b].pool.id
                      /\ \A c \in Arenas : c # b /\ removing'[c] # None => removing'[c].pool.id # removing'[b].pool.id
    BY <1>5 DEF RemovingOK
  <2>1. /\ life[b] = "destroying"
        /\ removing[b].pool.arena = b
        /\ removing[b].pool.id < nextId /\ removing[b].pool.id \in names
        /\ \A c \in Arenas : \A q \in pools[c] : q.id # removing[b].pool.id
        /\ \A c \in Arenas : c # b /\ removing[c] # None => removing[c].pool.id # removing[b].pool.id
    BY <1>6 DEF ArenaInv, RemovingOK
  <2> QED
    BY <1>6, <2>1
<1>d. ThreadsOK'
  <2>1. \A t \in Threads : thread[t].pc # "idle" =>
          \A b \in Arenas : removing'[b] # None => removing'[b].pool.id # thread[t].id
    BY <1>6 DEF ArenaInv, ThreadsOK
  <2> QED
    BY <1>5, <2>1 DEF ArenaInv, ThreadsOK, NewPool
<1>e. MemoryOK'
  <2>1. MappedAt(p)
    BY <1>1 DEF ArenaInv, MemoryOK
  <2>2. \A x \in Pages : \A i, o : mem[x] = PoolPage(i, o) /\ i # p.id => mem'[x] = mem[x]
    <3>1. \A i, o : PoolPage(i, o).id = i
      BY DEF PoolPage
    <3> QED
      BY <1>4, <2>1, <3>1 DEF MappedAt
  <2>3. \A u : \A x \in Pages : mem[x] = Reserved(u) => mem'[x] = mem[x]
    <3>1. \A i, o, u : PoolPage(i, o).kind # Reserved(u).kind
      BY DEF PoolPage, Reserved
    <3> QED
      BY <1>4, <2>1, <3>1 DEF MappedAt
  <2>4. \A q : MappedAt(q) /\ q.id # p.id => MappedAt(q)'
    BY <2>2 DEF MappedAt
  <2>5. \A b \in Arenas : \A q \in pools[b] : MappedAt(q)'
    BY <1>7, <2>4 DEF ArenaInv, MemoryOK
  <2>6. \A u \in Threads : ThreadMemory(u)'
    <3> SUFFICES ASSUME NEW u \in Threads PROVE ThreadMemory(u)'
      OBVIOUS
    <3>1. ThreadMemory(u)
      BY DEF ArenaInv, MemoryOK
    <3>2. (thread[u].pc = "mapped" => MappedAt(NewPool(u)))'
      <4>1. PICK n : n = NewPool(u) /\ n = NewPool(u)' /\ n.id = thread[u].id
        <5>1. NewPool(u)' = NewPool(u) /\ NewPool(u).id = thread[u].id
          BY <1>5 DEF NewPool
        <5> QED
          BY <5>1
      <4>2. thread[u].pc = "mapped" => MappedAt(n)'
        BY <1>7, <2>4, <3>1, <4>1 DEF ThreadMemory
      <4>3. MappedAt(n)' = MappedAt(NewPool(u))'
        BY <4>1 DEF MappedAt, PagesOf
      <4> QED
        BY <1>5, <4>2, <4>3
    <3>3. (/\ thread[u].pc = "reserved" =>
                ReservedAt(u, thread[u].base .. (thread[u].base + thread[u].size + thread[u].align - 2))
           /\ thread[u].pc = "trimmed" =>
                ReservedAt(u, thread[u].base .. (thread[u].base + thread[u].size - 1)))'
      BY <1>5, <2>3, <3>1 DEF ThreadMemory, ReservedAt
    <3> QED
      BY <3>2, <3>3 DEF ThreadMemory
  <2>7. ASSUME NEW b \in Arenas, removing'[b] # None, removing'[b].step = "unmap"
        PROVE  MappedAt(removing[b].pool)'
    <3>1. b # a /\ removing'[b] = removing[b] /\ removing[b] # None
      BY <1>6, <2>7
    <3>2. PICK q : q = removing[b].pool /\ q = removing'[b].pool
      BY <3>1
    <3>3. MappedAt(q) /\ q.id # p.id
      BY <1>7, <2>7, <3>1, <3>2 DEF ArenaInv, MemoryOK
    <3> QED
      BY <2>2, <3>2, <3>3 DEF MappedAt
  <2>8. ASSUME NEW x \in Pages, mem'[x].kind = "pool"
        PROVE  Held(mem[x].id, x)'
    <3>1. x \notin PagesOf(p) /\ mem'[x] = mem[x]
      <4>1. Nothing.kind # "pool"
        BY DEF Nothing
      <4> QED
        BY <1>4, <2>8, <4>1
    <3>2. Held(mem[x].id, x)
      BY <2>8, <3>1 DEF ArenaInv, MemoryOK
    <3>3. CASE \E b \in Arenas : \E q \in pools[b] : q.id = mem[x].id /\ x \in PagesOf(q)
      BY <1>5, <3>1, <3>3 DEF Held
    <3>4. CASE \E u \in Threads : thread[u].pc = "mapped" /\ thread[u].id = mem[x].id /\ x \in PagesOf(NewPool(u))
      BY <1>5, <3>1, <3>4 DEF Held, NewPool
    <3>5. CASE \E b \in Arenas : /\ removing[b] # None /\ removing[b].step = "unmap"
                       /\ removing[b].pool.id = mem[x].id /\ x \in PagesOf(removing[b].pool)
      <4>1. PICK b \in Arenas : /\ removing[b] # None /\ removing[b].step = "unmap"
                       /\ removing[b].pool.id = mem[x].id /\ x \in PagesOf(removing[b].pool)
        BY <3>5
      <4>2. b # a
        BY <1>1, <3>1, <4>1
      <4>3. removing'[b] = removing[b]
        BY <1>3, <4>2
      <4>4. PagesOf(removing[b].pool)' = PagesOf(removing[b].pool)
        BY <4>3 DEF PagesOf
      <4> QED
        BY <3>1, <4>1, <4>3, <4>4 DEF Held
    <3> QED
      BY <3>2, <3>3, <3>4, <3>5 DEF Held
  <2> QED
    BY <1>5, <2>5, <2>6, <2>7, <2>8 DEF MemoryOK
<1>f. NamesOK'
  <2> SUFFICES ASSUME NEW i \in names
               PROVE  \/ \E b \in Arenas : \E q \in pools[b] : q.id = i
                      \/ \E u \in Threads : thread[u].pc # "idle" /\ thread[u].id = i
                      \/ \E b \in Arenas : removing'[b] # None /\ removing'[b].pool.id = i
    BY <1>5 DEF NamesOK
  <2> QED
    BY <1>6 DEF ArenaInv, NamesOK
<1>g. RepositoryOK' /\ ExtentsOK'
  BY <1>5 DEF ArenaInv, RepositoryOK, ExtentsOK
<1>h. CountsOK'
  BY <1>5 DEF ArenaInv, CountsOK, Fresh
<1> QED
  BY <1>a, <1>b, <1>c, <1>d, <1>e, <1>f, <1>g, <1>h DEF ArenaInv

(* The SHM object is removed last, when nothing of it is mapped. *)
LEMMA RemoveObjectStep ==
  ASSUME ArenaInv, NEW a \in Arenas, RemoveObject(a)
  PROVE  ArenaInv'
<1>1. PICK i : /\ i = removing[a].pool.id /\ removing[a] # None /\ removing[a].step = "unlink"
               /\ names' = names \ {i}
  BY DEF RemoveObject
<1>2. /\ \A b \in Arenas : removing'[b] = IF b = a THEN None ELSE removing[b]
      /\ removing' \in [Arenas -> [pool : PoolRecords, step : {"unmap", "unlink"}] \cup {None}]
  BY DEF RemoveObject, ArenaInv, Typed
<1>3. UNCHANGED <<life, listening, pools, known, extents, remaining, mem, nextId, thread,
                  idMap, addressMap, kept>>
  BY DEF RemoveObject, owners, repository
<1>4. \A b \in Arenas : removing'[b] # None => b # a /\ removing'[b] = removing[b]
  BY <1>2
<1>5. /\ \A b \in Arenas : \A q \in pools[b] : q.id # i
      /\ \A b \in Arenas : b # a /\ removing[b] # None => removing[b].pool.id # i
      /\ \A t \in Threads : thread[t].pc # "idle" => thread[t].id # i
  BY <1>1 DEF ArenaInv, RemovingOK, ThreadsOK
<1>a. Typed'
  BY <1>2, <1>3 DEF ArenaInv, Typed
<1>b. PoolsOK'
  BY <1>1, <1>3, <1>5 DEF ArenaInv, PoolsOK
<1>c. RemovingOK'
  <2> SUFFICES ASSUME NEW b \in Arenas, removing'[b] # None
               PROVE  /\ life[b] = "destroying"
                      /\ removing'[b].pool.arena = b
                      /\ removing'[b].pool.id < nextId /\ removing'[b].pool.id \in names'
                      /\ \A c \in Arenas : \A q \in pools[c] : q.id # removing'[b].pool.id
                      /\ \A c \in Arenas : c # b /\ removing'[c] # None => removing'[c].pool.id # removing'[b].pool.id
    BY <1>3 DEF RemovingOK
  <2>1. removing'[b] = removing[b] /\ b # a
    BY <1>4
  <2>2. /\ life[b] = "destroying"
        /\ removing[b].pool.arena = b
        /\ removing[b].pool.id < nextId /\ removing[b].pool.id \in names
        /\ \A c \in Arenas : \A q \in pools[c] : q.id # removing[b].pool.id
        /\ \A c \in Arenas : c # b /\ removing[c] # None => removing[c].pool.id # removing[b].pool.id
    BY <2>1 DEF ArenaInv, RemovingOK
  <2> QED
    BY <1>1, <1>4, <1>5, <2>1, <2>2
<1>d. ThreadsOK'
  <2> SUFFICES ASSUME NEW u \in Threads, thread[u].pc # "idle"
        PROVE
    /\ thread[u].arena \in Arenas /\ life[thread[u].arena] = "live"
    /\ thread[u].id \in Ids /\ thread[u].id < nextId /\ thread[u].id \in names'
    /\ \A v \in Threads : v # u /\ thread[v].pc # "idle" => thread[v].id # thread[u].id
    /\ \A b \in Arenas : removing'[b] # None => removing'[b].pool.id # thread[u].id
    /\ thread[u].pc # "registered" =>
         \A b \in Arenas : \A q \in pools[b] : q.id # thread[u].id
    /\ thread[u].pc = "registered" =>
         /\ NewPool(u) \in pools[thread[u].arena] /\ NewPool(u) \notin known[thread[u].arena]
         /\ remaining[thread[u].id] = thread[u].size
    BY <1>3 DEF ThreadsOK, NewPool
  <2>1. thread[u].id \in names'
    BY <1>1, <1>5 DEF ArenaInv, ThreadsOK
  <2>2. \A b \in Arenas : removing'[b] # None => removing'[b].pool.id # thread[u].id
    BY <1>4 DEF ArenaInv, ThreadsOK
  <2> QED
    BY <2>1, <2>2 DEF ArenaInv, ThreadsOK
<1>e. MemoryOK'
  <2>1. \A b \in Arenas : \A q \in pools[b] : MappedAt(q)'
    BY <1>3 DEF ArenaInv, MemoryOK, MappedAt
  <2>2. \A u \in Threads : ThreadMemory(u)'
    BY <1>3 DEF ArenaInv, MemoryOK, ThreadMemory, MappedAt, ReservedAt, NewPool
  <2>3. (\A b \in Arenas : removing[b] # None /\ removing[b].step = "unmap" => MappedAt(removing[b].pool))'
    BY <1>3, <1>4 DEF ArenaInv, MemoryOK, MappedAt
  <2>4. ASSUME NEW x \in Pages, mem[x].kind = "pool"
        PROVE  Held(mem[x].id, x)'
    <3>1. Held(mem[x].id, x)
      BY <2>4 DEF ArenaInv, MemoryOK
    <3>2. \A b \in Arenas : removing[b] # None /\ removing[b].step = "unmap" => removing'[b] = removing[b]
      BY <1>1, <1>2
    <3> QED
      BY <1>3, <3>1, <3>2 DEF Held, NewPool
  <2> QED
    BY <1>3, <2>1, <2>2, <2>3, <2>4 DEF MemoryOK
<1>f. NamesOK'
  <2> SUFFICES ASSUME NEW j \in names, j # i
               PROVE  \/ \E b \in Arenas : \E q \in pools[b] : q.id = j
                      \/ \E u \in Threads : thread[u].pc # "idle" /\ thread[u].id = j
                      \/ \E b \in Arenas : removing'[b] # None /\ removing'[b].pool.id = j
    BY <1>1, <1>3 DEF NamesOK
  <2> QED
    BY <1>1, <1>2 DEF ArenaInv, NamesOK
<1>g. RepositoryOK' /\ ExtentsOK'
  BY <1>3 DEF ArenaInv, RepositoryOK, ExtentsOK
<1>h. CountsOK'
  BY <1>3 DEF ArenaInv, CountsOK, Fresh
<1> QED
  BY <1>a, <1>b, <1>c, <1>d, <1>e, <1>f, <1>g, <1>h DEF ArenaInv

(* Nothing exists at first. *)
LEMMA InitArena == Init => ArenaInv
<1> SUFFICES ASSUME Init PROVE ArenaInv
  OBVIOUS
<1>1. Typed
  <2>1. Idle \in ThreadRecords
    BY DEF Idle, ThreadRecords, Steps
  <2> QED
    BY <2>1 DEF Init, Typed
<1>2. PoolsOK /\ RemovingOK /\ NamesOK /\ RepositoryOK /\ ExtentsOK /\ CountsOK
  BY DEF Init, PoolsOK, RemovingOK, NamesOK, RepositoryOK, ExtentsOK, CountsOK
<1>3. \A t \in Threads : thread[t].pc = "idle"
  BY DEF Init, Idle
<1>4. ThreadsOK
  BY <1>3 DEF ThreadsOK
<1>5. MemoryOK
  <2>1. \A x \in Pages : mem[x].kind # "pool"
    BY DEF Init, Nothing
  <2>2. \A t \in Threads : ThreadMemory(t)
    BY <1>3 DEF ThreadMemory
  <2> QED
    BY <2>1, <2>2 DEF Init, MemoryOK
<1> QED
  BY <1>1, <1>2, <1>4, <1>5 DEF ArenaInv

LEMMA ArenaStep == ArenaInv /\ [Next]_vars => ArenaInv'
<1> SUFFICES ASSUME ArenaInv, [Next]_vars PROVE ArenaInv'
  OBVIOUS
<1>1. CASE UNCHANGED vars
  BY <1>1, StutterStep DEF vars, owners
<1>2. ASSUME NEW a \in Arenas,
             \/ CreateArena(a) \/ AddListener(a) \/ Construct(a) \/ DropObject(a)
             \/ DestroyListener(a) \/ DropSession(a)
             \/ BeginDestroy(a) \/ BeginRemoval(a) \/ EndDestroy(a)
             \/ Unmap(a) \/ RemoveObject(a)
      PROVE  ArenaInv'
  BY <1>2, OwnerSteps, AddListenerStep, UnmapStep, RemoveObjectStep
<1>3. ASSUME NEW a \in Arenas, NEW p \in known[a], AnnounceRemoval(a, p) PROVE ArenaInv'
  BY <1>3, AnnounceRemovalStep
<1>4. ASSUME NEW a \in Arenas, NEW e \in extents[a],
             \/ RemoveRange(a, e) \/ DecommitFails(a, e)
             \/ \E n \in 1 .. e.size : Split(a, e, n)
             \/ \E f \in extents[a] : Merge(a, e, f)
      PROVE  ArenaInv'
  BY <1>4, RemoveRangeStep, DecommitFailsStep, SplitStep, MergeStep
<1>5. ASSUME NEW t \in Threads,
             \/ \E a \in Arenas : \/ CreateObjectFails(t, a)
                                  \/ \E r \in Requests : CreateObject(t, a, r)
             \/ \E x \in Pages : Map(t, x) \/ Reserve(t, x)
             \/ Trim(t) \/ MapFixed(t) \/ MapFixedFails(t) \/ MapFails(t)
             \/ Register(t) \/ Notify(t)
      PROVE  ArenaInv'
  BY <1>5, ObjectSteps, MapSteps, ReserveSteps, RegisterStep, NotifyStep
<1> QED
  BY <1>1, <1>2, <1>3, <1>4, <1>5 DEF Next

LEMMA ArenaIsSound == Spec => []ArenaInv
BY InitArena, ArenaStep, PTL DEF Spec

-----------------------------------------------------------------------------
(* from_address() is exact for the pools of the repository. *)
THEOREM LookupAlwaysExact == Spec => []LookupIsExact
BY ArenaIsSound, InvLookup, PTL

(* What the repository translates is mapped, to that pool. *)
THEOREM TranslatedAlwaysMapped == Spec => []TranslatedIsMapped
BY ArenaIsSound, InvTranslated, PTL

(* The memory that jemalloc has from a live arena with the listener can be   *)
(* translated: insert() never fails.                                         *)
THEOREM MemoryAlwaysTranslated == Spec => []MemoryIsTranslated
BY ArenaIsSound, InvMemory, PTL

(* The hooks work on the file offsets of the pages jemalloc means. *)
THEOREM HooksAlwaysFindPages == Spec => []HooksFindPages
BY ArenaIsSound, InvHooks, PTL

(* A destroyed arena has left nothing but what could not be decommitted. *)
THEOREM NothingOfArenaIsLeft == Spec => []NothingOfArenaLeft
BY ArenaIsSound, InvNothingLeft, PTL

(* What a step may do to the page table. *)
Replaces(x) == mem'[x] # mem[x] =>
       \/ mem[x] = Nothing \/ mem'[x] = Nothing
       \/ \E t \in Threads : /\ mem[x] = Reserved(t)
                             /\ thread[t].pc = "trimmed"
                             /\ mem'[x].id = thread[t].id

LEMMA StepReplaces == ArenaInv /\ [Next]_vars => [\A x \in Pages : Replaces(x)]_vars
<1> SUFFICES ASSUME ArenaInv, Next, NEW x \in Pages, mem'[x] # mem[x]
             PROVE  \/ mem[x] = Nothing \/ mem'[x] = Nothing
                    \/ \E t \in Threads : /\ mem[x] = Reserved(t)
                                          /\ thread[t].pc = "trimmed"
                                          /\ mem'[x].id = thread[t].id
  BY DEF Replaces
<1>1. ASSUME NEW a \in Arenas, Unmap(a) PROVE mem'[x] = Nothing
  BY <1>1 DEF Unmap, Unmapped
<1>2. ASSUME NEW t \in Threads, NEW b \in Pages, Map(t, b) PROVE mem[x] = Nothing
  BY <1>2 DEF Map, Mapped, Free
<1>3. ASSUME NEW t \in Threads, NEW b \in Pages, Reserve(t, b) PROVE mem[x] = Nothing
  BY <1>3 DEF Reserve, Free
<1>4. ASSUME NEW t \in Threads, Trim(t) PROVE mem'[x] = Nothing
  BY <1>4 DEF Trim, Trimmed, Unmapped
<1>5. ASSUME NEW t \in Threads, MapFixed(t)
      PROVE  mem[x] = Reserved(t) /\ thread[t].pc = "trimmed" /\ mem'[x].id = thread[t].id
  <2>1. /\ thread[t].pc = "trimmed"
        /\ mem'[x] = IF x \in thread[t].base .. (thread[t].base + thread[t].size - 1)
                     THEN PoolPage(thread[t].id, x - thread[t].base) ELSE mem[x]
    BY <1>5 DEF MapFixed, Mapped
  <2>2. ReservedAt(t, thread[t].base .. (thread[t].base + thread[t].size - 1))
    BY <2>1 DEF ArenaInv, MemoryOK, ThreadMemory
  <2>3. PoolPage(thread[t].id, x - thread[t].base).id = thread[t].id
    BY DEF PoolPage
  <2> QED
    BY <2>1, <2>2, <2>3 DEF ReservedAt
<1>6. CASE UNCHANGED mem
  BY <1>6
<1>7. ASSUME NEW a \in Arenas,
             \/ CreateArena(a) \/ AddListener(a) \/ Construct(a) \/ DropObject(a)
             \/ DestroyListener(a) \/ DropSession(a)
             \/ BeginDestroy(a) \/ BeginRemoval(a) \/ EndDestroy(a) \/ RemoveObject(a)
             \/ \E p \in known[a] : AnnounceRemoval(a, p)
      PROVE  UNCHANGED mem
  BY <1>7 DEF CreateArena, AddListener, Construct, DropObject, DestroyListener, DropSession,
       BeginDestroy, BeginRemoval, EndDestroy, RemoveObject, AnnounceRemoval
<1>8. ASSUME NEW a \in Arenas, NEW e \in extents[a],
             \/ RemoveRange(a, e) \/ DecommitFails(a, e)
             \/ \E n \in 1 .. e.size : Split(a, e, n)
             \/ \E f \in extents[a] : Merge(a, e, f)
      PROVE  UNCHANGED mem
  BY <1>8 DEF RemoveRange, DecommitFails, Split, Merge
<1>9. ASSUME NEW t \in Threads,
             \/ \E a \in Arenas : \/ CreateObjectFails(t, a)
                                  \/ \E r \in Requests : CreateObject(t, a, r)
             \/ MapFixedFails(t) \/ MapFails(t) \/ Register(t) \/ Notify(t)
      PROVE  UNCHANGED mem
  BY <1>9 DEF CreateObjectFails, CreateObject, MapFixedFails, MapFails, Register, Notify
<1> QED
  BY <1>1, <1>2, <1>3, <1>4, <1>5, <1>6, <1>7, <1>8, <1>9 DEF Next

(* No mapping replaces another's, with MAP_FIXED neither. *)
THEOREM NothingIsEverReplaced == Spec => NothingIsReplaced
<1>1. ArenaInv /\ [Next]_vars => [\A x \in Pages : Replaces(x)]_vars
  BY StepReplaces
<1>2. Spec => [][\A x \in Pages : Replaces(x)]_vars
  BY <1>1, ArenaIsSound, PTL DEF Spec
<1> QED
  BY <1>2 DEF NothingIsReplaced, Replaces

=============================================================================
