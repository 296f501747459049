-------------------------- MODULE PageStates_proofs --------------------------
(***************************************************************************)
(* Proofs about PageStates: whatever the system calls answer, committed    *)
(* memory is accessible, memory taken to be zero is, data of live objects  *)
(* is kept and removed ranges hold no memory.                              *)
(***************************************************************************)
EXTENDS PageStates, TLAPS

PagesOfPool(p) == Base[p] .. (Base[p] + PoolSize - 1)

Extents == [addr : Nat, size : Nat \ {0},
            at : {"growing", "retained", "committing", "active", "freed", "punched", "unfreed",
                  "dying", "dead", "removed", "stuck"},
            committed : BOOLEAN, zeroed : BOOLEAN]

Typed ==
  /\ mapped \subseteq Pools
  /\ prot \in [Addresses -> {"none", "rw", "unmapped"}]
  /\ content \in [Pools -> [Offsets -> {"hole", "zero", "data"}]]
  /\ extents \subseteq Extents
  /\ written \subseteq Addresses

(* An extent is part of one pool. *)
Within(e, p) == Base[p] <= e.addr /\ e.addr + e.size <= Base[p] + PoolSize

Apart(e, f) == e.addr + e.size <= f.addr \/ f.addr + f.size <= e.addr

(* Extents are parts of mapped pools, and they do not overlap. *)
Placed ==
  /\ \A e \in extents : \E p \in mapped : Within(e, p)
  /\ \A e, f \in extents : e = f \/ Apart(e, f)

(* What jemalloc knows of an extent agrees with its pages.  Memory that is   *)
(* not committed was never written, or was punched before it was protected;  *)
(* a page is written only while the extent is active.                        *)
Agrees(e) ==
  /\ e.at \in {"active", "freed", "punched", "unfreed"} => e.committed
  /\ (e.committed /\ e.at \notin {"dying", "dead", "removed", "stuck"})
       => \A a \in PagesOf(e) : prot[a] = "rw"
  /\ (~e.committed \/ e.at \in {"punched", "dead", "removed"})
       => \A a \in PagesOf(e) : ContentAt(a) = "hole"
  /\ e.at # "active" => \A a \in PagesOf(e) : a \notin written
  /\ e.zeroed => \A a \in PagesOf(e) : a \notin written => ContentAt(a) # "data"
  /\ e.at = "active" => \A a \in PagesOf(e) : a \in written => ContentAt(a) = "data"

(* Nothing is left of pools that are not mapped. *)
UnmappedIsEmpty ==
  \A p \in Pools \ mapped : \A a \in PagesOfPool(p) : a \notin written /\ ContentAt(a) = "hole"

PagesInv ==
  /\ Typed
  /\ Placed
  /\ \A e \in extents : Agrees(e)
  /\ UnmappedIsEmpty

-----------------------------------------------------------------------------
(* Addresses, pools and file offsets. *)

(* Pools do not overlap, so an address of a pool is in no other. *)
LEMMA PoolOfPage ==
  ASSUME NEW p \in Pools, NEW a \in PagesOfPool(p)
  PROVE  PoolAt(a) = p /\ a \in Addresses /\ a \in Nat /\ a - Base[p] \in Offsets
<1>1. Base[p] \in Nat /\ PoolSize \in Nat
  BY ConstantsAssumption DEF Pools
<1>2. a \in Nat /\ Base[p] <= a /\ a < Base[p] + PoolSize
  BY <1>1 DEF PagesOfPool
<1>3. \A q \in Pools : a \in Base[q] .. (Base[q] + PoolSize - 1) => q = p
  BY <1>1, <1>2, ConstantsAssumption DEF Pools
<1>4. a \in Base[p] .. (Base[p] + PoolSize - 1)
  BY DEF PagesOfPool
<1>5. PoolAt(a) = p
  BY <1>3, <1>4 DEF PoolAt
<1>6. a \in Addresses
  BY <1>4 DEF Addresses
<1> QED
  BY <1>1, <1>2, <1>5, <1>6 DEF Offsets

(* Every address is in a pool. *)
LEMMA PageOfPool ==
  ASSUME NEW a \in Addresses
  PROVE  \E p \in Pools : a \in PagesOfPool(p)
BY DEF Addresses, PagesOfPool

(* The pages of an extent, as numbers. *)
LEMMA PagesAreNumbers ==
  ASSUME NEW e \in Extents
  PROVE  \A a : a \in PagesOf(e) <=> a \in Nat /\ e.addr <= a /\ a < e.addr + e.size
BY DEF PagesOf, Extents

(* All pages of an extent are pages of its pool. *)
LEMMA PagesInPool ==
  ASSUME NEW e \in Extents, NEW p \in Pools, Within(e, p)
  PROVE  /\ PagesOf(e) \subseteq PagesOfPool(p) /\ PagesOf(e) \subseteq Addresses
         /\ PoolAt(e.addr) = p
         /\ e.addr - Base[p] \in Nat
<1>1. Base[p] \in Nat /\ PoolSize \in Nat /\ e.addr \in Nat /\ e.size \in Nat \ {0}
  BY ConstantsAssumption DEF Pools, Extents
<1>2. PagesOf(e) \subseteq PagesOfPool(p)
  BY <1>1 DEF PagesOf, PagesOfPool, Within
<1>3. e.addr \in PagesOfPool(p)
  BY <1>1 DEF PagesOfPool, Within
<1> QED
  BY <1>1, <1>2, <1>3, PoolOfPage DEF Within

(* A file operation on some offsets of a pool changes those pages. *)
LEMMA ContentAfter ==
  ASSUME Typed, NEW e \in Extents, NEW p \in Pools, Within(e, p), NEW offs,
         NEW c \in {"hole", "zero", "data"}, content' = WithContent(e, offs, c)
  PROVE  /\ content' \in [Pools -> [Offsets -> {"hole", "zero", "data"}]]
         /\ \A a \in Addresses \ PagesOfPool(p) : ContentAt(a)' = ContentAt(a)
         /\ \A a \in PagesOfPool(p) :
              ContentAt(a)' = IF a - Base[p] \in offs THEN c ELSE ContentAt(a)
<1>1. PoolAt(e.addr) = p
  BY PagesInPool
<1>2. content \in [Pools -> [Offsets -> {"hole", "zero", "data"}]]
  BY DEF Typed
<1>3. content' = [content EXCEPT ![p] = [o \in Offsets |-> IF o \in offs THEN c ELSE content[p][o]]]
  BY <1>1 DEF WithContent
<1>4. content' \in [Pools -> [Offsets -> {"hole", "zero", "data"}]]
  BY <1>2, <1>3
<1>5. \A q \in Pools : q # p => content'[q] = content[q]
  BY <1>2, <1>3
<1>6. \A o \in Offsets : content'[p][o] = IF o \in offs THEN c ELSE content[p][o]
  BY <1>2, <1>3
<1>7. ASSUME NEW a \in Addresses \ PagesOfPool(p)
      PROVE  ContentAt(a)' = ContentAt(a)
  <2>1. PICK q \in Pools : a \in PagesOfPool(q)
    BY PageOfPool
  <2>2. PoolAt(a) = q /\ q # p
    BY <2>1, PoolOfPage
  <2> QED
    BY <2>2, <1>5 DEF ContentAt
<1>8. ASSUME NEW a \in PagesOfPool(p)
      PROVE  ContentAt(a)' = IF a - Base[p] \in offs THEN c ELSE ContentAt(a)
  <2>1. PoolAt(a) = p /\ a - Base[p] \in Offsets
    BY PoolOfPage
  <2> QED
    BY <2>1, <1>6 DEF ContentAt
<1> QED
  BY <1>4, <1>7, <1>8

(* An operation on the file range of an extent changes the extent's pages:   *)
(* compute_pool_and_offset() finds the right ones.                           *)
LEMMA FileRangeIsExact ==
  ASSUME Typed, NEW e \in Extents, NEW p \in Pools, Within(e, p),
         NEW c \in {"hole", "zero", "data"}, content' = WithContent(e, FileRange(e), c)
  PROVE  /\ content' \in [Pools -> [Offsets -> {"hole", "zero", "data"}]]
         /\ \A a \in PagesOf(e) : ContentAt(a)' = c
         /\ \A a \in Addresses \ PagesOf(e) : ContentAt(a)' = ContentAt(a)
<1>1. /\ content' \in [Pools -> [Offsets -> {"hole", "zero", "data"}]]
      /\ \A a \in Addresses \ PagesOfPool(p) : ContentAt(a)' = ContentAt(a)
      /\ \A a \in PagesOfPool(p) :
           ContentAt(a)' = IF a - Base[p] \in FileRange(e) THEN c ELSE ContentAt(a)
  BY ContentAfter
<1>2. PagesOf(e) \subseteq PagesOfPool(p) /\ PoolAt(e.addr) = p /\ e.addr - Base[p] \in Nat
  BY PagesInPool
<1>3. Base[p] \in Nat /\ e.addr \in Nat /\ e.size \in Nat
  BY ConstantsAssumption DEF Pools, Extents
<1>4. FileRange(e) = (e.addr - Base[p]) .. (e.addr - Base[p] + e.size - 1)
  BY <1>2 DEF FileRange
<1>5. \A a \in PagesOfPool(p) : a - Base[p] \in FileRange(e) <=> a \in PagesOf(e)
  BY <1>3, <1>4, PoolOfPage DEF PagesOf
<1> QED
  BY <1>1, <1>2, <1>5

-----------------------------------------------------------------------------
(* What is common to the steps. *)

(* A step that replaces an extent by one with the same pages, and changes    *)
(* nothing but those pages, leaves the other extents as they are.            *)
LEMMA OtherExtentsKept ==
  ASSUME PagesInv, NEW e \in extents, NEW f \in Extents, f.addr = e.addr, f.size = e.size,
         Become(e, f), mapped' = mapped,
         prot' \in [Addresses -> {"none", "rw", "unmapped"}],
         content' \in [Pools -> [Offsets -> {"hole", "zero", "data"}]],
         written' \subseteq Addresses,
         \A a \in Addresses \ PagesOf(e) : /\ prot'[a] = prot[a]
                                           /\ ContentAt(a)' = ContentAt(a)
                                           /\ a \in written' <=> a \in written,
         Agrees(f)'
  PROVE  PagesInv'
<1>1. extents \subseteq Extents /\ e \in Extents /\ mapped \subseteq Pools
  BY DEF PagesInv, Typed
<1>2. extents' = (extents \ {e}) \cup {f}
  BY DEF Become
<1>3. Typed'
  BY <1>1, <1>2 DEF Typed
<1>4. Placed'
  <2>1. \A g \in extents : \E p \in mapped : Within(g, p)
    BY DEF PagesInv, Placed
  <2>2. \A g, h \in extents : g = h \/ Apart(g, h)
    BY DEF PagesInv, Placed
  <2>3. \A p \in Pools : Within(e, p) <=> Within(f, p)
    BY DEF Within
  <2>4. \A g \in extents : Apart(g, e) <=> Apart(g, f)
    BY DEF Apart
  <2>5. \A g \in extents : Apart(e, g) <=> Apart(f, g)
    BY DEF Apart
  <2>6. \A g \in extents' : \E p \in mapped' : Within(g, p)
    BY <1>1, <1>2, <2>1, <2>3
  <2>7. \A g, h \in extents' : g = h \/ Apart(g, h)
    BY <1>2, <2>2, <2>4, <2>5
  <2> QED
    BY <2>6, <2>7 DEF Placed
<1>5. ASSUME NEW g \in extents', g # f
      PROVE  Agrees(g)'
  <2>1. g \in extents /\ g # e /\ Agrees(g) /\ g \in Extents
    BY <1>1, <1>2, <1>5 DEF PagesInv
  <2>2. PICK p \in mapped : Within(g, p)
    BY <2>1 DEF PagesInv, Placed
  <2>3. PagesOf(g) \subseteq Addresses
    BY <1>1, <2>1, <2>2, PagesInPool
  <2>4. Apart(g, e)
    BY <2>1 DEF PagesInv, Placed, Apart
  <2>5. \A a \in PagesOf(g) : a \notin PagesOf(e)
    BY <1>1, <2>1, <2>4 DEF Apart, PagesOf, Extents
  <2>6. \A a \in PagesOf(g) : /\ prot'[a] = prot[a]
                              /\ ContentAt(a)' = ContentAt(a)
                              /\ a \in written' <=> a \in written
    BY <2>3, <2>5
  <2> QED
    BY <2>1, <2>6 DEF Agrees
<1>6. UnmappedIsEmpty'
  <2> SUFFICES ASSUME NEW p \in Pools \ mapped, NEW a \in PagesOfPool(p)
               PROVE  a \notin written' /\ ContentAt(a)' = "hole"
    BY DEF UnmappedIsEmpty
  <2>1. a \notin written /\ ContentAt(a) = "hole"
    BY DEF PagesInv, UnmappedIsEmpty
  <2>2. PICK q \in mapped : Within(e, q)
    BY DEF PagesInv, Placed
  <2>3. PagesOf(e) \subseteq PagesOfPool(q)
    BY <1>1, <2>2, PagesInPool
  <2>4. a \notin PagesOfPool(q)
    BY <1>1, PoolOfPage
  <2>5. a \in Addresses
    BY PoolOfPage
  <2> QED
    BY <2>1, <2>3, <2>4, <2>5
<1> QED
  BY <1>3, <1>4, <1>5, <1>6 DEF PagesInv

(* What the invariant says of one extent. *)
LEMMA OneExtent ==
  ASSUME PagesInv, NEW e \in extents
  PROVE  /\ Typed /\ e \in Extents /\ Agrees(e)
         /\ \E p \in Pools : Within(e, p)
         /\ PagesOf(e) \subseteq Addresses
<1>1. Typed /\ e \in Extents /\ Agrees(e) /\ mapped \subseteq Pools
  BY DEF PagesInv, Typed
<1>2. PICK p \in mapped : Within(e, p)
  BY DEF PagesInv, Placed
<1> QED
  BY <1>1, <1>2, PagesInPool

(* Steps that only change what jemalloc knows of an extent. *)
LEMMA RelabelStep ==
  ASSUME PagesInv, NEW e \in extents, NEW f \in Extents, f.addr = e.addr, f.size = e.size,
         Become(e, f), UNCHANGED <<mapped, prot, content, written>>, Agrees(f)
  PROVE  PagesInv'
<1>1. Typed
  BY DEF PagesInv
<1>2. \A a : ContentAt(a)' = ContentAt(a)
  BY DEF ContentAt
<1>3. Agrees(f)'
  BY <1>2 DEF Agrees
<1>4. /\ prot' \in [Addresses -> {"none", "rw", "unmapped"}]
      /\ content' \in [Pools -> [Offsets -> {"hole", "zero", "data"}]]
      /\ written' \subseteq Addresses
  BY <1>1 DEF Typed
<1> QED
  BY <1>2, <1>3, <1>4, OtherExtentsKept

(* Steps that only change the protection of an extent. *)
LEMMA ProtectStep ==
  ASSUME PagesInv, NEW e \in extents, NEW f \in Extents, f.addr = e.addr, f.size = e.size,
         Become(e, f), UNCHANGED <<mapped, content, written>>,
         NEW x \in {"none", "rw"}, Mprotect(e, x),
         f.committed => x = "rw" \/ f.at = "removed",
         f.at \in {"active", "freed", "punched", "unfreed"} => f.committed,
         (~f.committed \/ f.at \in {"punched", "dead", "removed"})
           => \A a \in PagesOf(e) : ContentAt(a) = "hole",
         f.at # "active" /\ \A a \in PagesOf(e) : a \notin written,
         f.zeroed => \A a \in PagesOf(e) : ContentAt(a) # "data"
  PROVE  PagesInv'
<1>1. Typed /\ PagesOf(e) \subseteq Addresses
  BY OneExtent
<1>2. PagesOf(f) = PagesOf(e)
  BY DEF PagesOf
<1>3. \A a : ContentAt(a)' = ContentAt(a)
  BY DEF ContentAt
<1>4. prot' = [a \in Addresses |-> IF a \in PagesOf(e) THEN x ELSE prot[a]]
  BY DEF Mprotect, WithProt
<1>5. prot' \in [Addresses -> {"none", "rw", "unmapped"}]
  BY <1>1, <1>4 DEF Typed
<1>6. \A a \in Addresses \ PagesOf(e) : prot'[a] = prot[a]
  BY <1>4
<1>7. Agrees(f)'
  <2>1. \A a \in PagesOf(e) : prot'[a] = x
    BY <1>1, <1>4
  <2> QED
    BY <1>2, <1>3, <2>1 DEF Agrees
<1>8. /\ content' \in [Pools -> [Offsets -> {"hole", "zero", "data"}]]
      /\ written' \subseteq Addresses
  BY <1>1 DEF Typed
<1> QED
  BY <1>3, <1>5, <1>6, <1>7, <1>8, OtherExtentsKept

(* Steps that may punch a hole where an extent is, and leave the rest of the *)
(* object alone, as far as fallocate() got.                                  *)
LEMMA PunchStep ==
  ASSUME PagesInv, NEW e \in extents, NEW f \in Extents, f.addr = e.addr, f.size = e.size,
         Become(e, f), UNCHANGED <<mapped, prot, written>>,
         f.committed = e.committed, e.at # "active", f.at # "active",
         \/ PurgeForced(e)
         \/ /\ PurgeForcedFails(e) \/ UNCHANGED content
            /\ f.committed /\ f.at \notin {"punched", "dead", "removed"}
            /\ f.zeroed => e.zeroed,
         f.at \in {"freed", "punched", "unfreed"} => f.committed,
         f.at \notin {"dying", "dead", "removed", "stuck"}
           => e.at \notin {"dying", "dead", "removed", "stuck"}
  PROVE  PagesInv'
<1>1. Typed /\ e \in Extents /\ Agrees(e) /\ PagesOf(e) \subseteq Addresses
  BY OneExtent
<1>2. PICK p \in Pools : Within(e, p)
  BY OneExtent
<1>3. PagesOf(f) = PagesOf(e)
  BY DEF PagesOf
<1>4. /\ prot' \in [Addresses -> {"none", "rw", "unmapped"}]
      /\ written' \subseteq Addresses
  BY <1>1 DEF Typed
<1>5. ASSUME content' = WithContent(e, FileRange(e), "hole")
      PROVE  /\ content' \in [Pools -> [Offsets -> {"hole", "zero", "data"}]]
             /\ \A a \in PagesOf(e) : ContentAt(a)' = "hole"
             /\ \A a \in Addresses \ PagesOf(e) : ContentAt(a)' = ContentAt(a)
  BY <1>1, <1>2, <1>5, FileRangeIsExact
<1>6. ASSUME content' = WithContent(e, {}, "hole")
      PROVE  /\ content' \in [Pools -> [Offsets -> {"hole", "zero", "data"}]]
             /\ \A a \in Addresses : ContentAt(a)' = ContentAt(a)
  <2>1. /\ content' \in [Pools -> [Offsets -> {"hole", "zero", "data"}]]
        /\ \A a \in Addresses \ PagesOfPool(p) : ContentAt(a)' = ContentAt(a)
        /\ \A a \in PagesOfPool(p) :
             ContentAt(a)' = IF a - Base[p] \in {} THEN "hole" ELSE ContentAt(a)
    BY <1>1, <1>2, <1>6, ContentAfter
  <2> QED
    BY <2>1
<1>7. ASSUME content' = content
      PROVE  /\ content' \in [Pools -> [Offsets -> {"hole", "zero", "data"}]]
             /\ \A a \in Addresses : ContentAt(a)' = ContentAt(a)
  BY <1>1, <1>7 DEF ContentAt, Typed
<1>8. CASE PurgeForced(e)
  <2>1. /\ content' \in [Pools -> [Offsets -> {"hole", "zero", "data"}]]
        /\ \A a \in PagesOf(e) : ContentAt(a)' = "hole"
        /\ \A a \in Addresses \ PagesOf(e) : ContentAt(a)' = ContentAt(a)
    BY <1>5, <1>8 DEF PurgeForced
  <2>2. Agrees(f)'
    BY <1>1, <1>3, <2>1 DEF Agrees
  <2> QED
    BY <1>4, <2>1, <2>2, OtherExtentsKept
<1>9. CASE /\ PurgeForcedFails(e) \/ UNCHANGED content
           /\ f.committed /\ f.at \notin {"punched", "dead", "removed"}
           /\ f.zeroed => e.zeroed
  <2>1. \/ content' = WithContent(e, FileRange(e), "hole")
        \/ content' = WithContent(e, {}, "hole")
        \/ content' = content
    BY <1>9 DEF PurgeForcedFails
  <2>2. /\ content' \in [Pools -> [Offsets -> {"hole", "zero", "data"}]]
        /\ \A a \in PagesOf(e) : ContentAt(a)' = "hole" \/ ContentAt(a)' = ContentAt(a)
        /\ \A a \in Addresses \ PagesOf(e) : ContentAt(a)' = ContentAt(a)
    BY <1>1, <1>5, <1>6, <1>7, <2>1
  <2>3. Agrees(f)'
    BY <1>1, <1>3, <1>9, <2>2 DEF Agrees
  <2> QED
    BY <1>4, <2>2, <2>3, OtherExtentsKept
<1> QED
  BY <1>8, <1>9

-----------------------------------------------------------------------------
(* Each step keeps the invariant. *)

(* create_shm_pool(): nothing is known of the pool's pages but that they     *)
(* hold no memory.                                                           *)
LEMMA CreateStep ==
  ASSUME PagesInv, NEW p \in Pools, NEW commit \in BOOLEAN, CreateShmPool(p, commit)
  PROVE  PagesInv'
<1>a. PICK c \in BOOLEAN : c = MapCommitted(commit)
  BY DEF MapCommitted
<1>b. PICK e : e = [addr |-> Base[p], size |-> PoolSize, at |-> "growing",
                    committed |-> c, zeroed |-> c]
  OBVIOUS
<1>1. /\ p \notin mapped /\ mapped' = mapped \cup {p}
      /\ prot' = [a \in Addresses |-> IF a \in PagesOf(e) THEN (IF c THEN "rw" ELSE "none") ELSE prot[a]]
      /\ extents' = extents \cup {e}
      /\ content' = content /\ written' = written
  BY <1>a, <1>b DEF CreateShmPool, Zeroed, WithProt
<1>2. Typed /\ extents \subseteq Extents /\ mapped \subseteq Pools
  BY DEF PagesInv, Typed
<1>3. Base[p] \in Nat /\ PoolSize \in Nat \ {0}
  BY ConstantsAssumption DEF Pools
<1>4. /\ e.addr = Base[p] /\ e.size = PoolSize /\ e.at = "growing"
      /\ e.committed = c /\ e.zeroed = c
  BY <1>b
<1>5. e \in Extents /\ Within(e, p)
  BY <1>3, <1>b DEF Extents, Within
<1>6. PagesOf(e) = PagesOfPool(p) /\ PagesOf(e) \subseteq Addresses
  <2>1. PagesOf(e) = PagesOfPool(p)
    BY <1>4 DEF PagesOf, PagesOfPool
  <2> QED
    BY <1>5, <2>1, PagesInPool
<1>7. Typed'
  <2>1. prot' \in [Addresses -> {"none", "rw", "unmapped"}]
    BY <1>1, <1>2 DEF Typed
  <2> QED
    BY <1>1, <1>2, <1>5, <2>1 DEF Typed
<1>8. \A g \in extents : \E q \in mapped : Within(g, q)
  BY DEF PagesInv, Placed
<1>9. ASSUME NEW g \in extents
      PROVE  Apart(g, e) /\ Apart(e, g) /\ \A a \in PagesOf(g) : a \in Addresses /\ a \notin PagesOf(e)
  <2>1. PICK q \in mapped : Within(g, q)
    BY <1>8
  <2>2. q \in Pools /\ q # p /\ Base[q] \in Nat
    BY <1>1, <1>2, ConstantsAssumption DEF Pools
  <2>3. Base[p] + PoolSize <= Base[q] \/ Base[q] + PoolSize <= Base[p]
    BY <2>2, ConstantsAssumption DEF Pools
  <2>4. g \in Extents /\ g.addr \in Nat /\ g.size \in Nat
    BY <1>2 DEF Extents
  <2>5. Apart(g, e) /\ Apart(e, g)
    BY <1>3, <1>4, <2>1, <2>2, <2>3, <2>4 DEF Within, Apart
  <2>6. PagesOf(g) \subseteq PagesOfPool(q) /\ PagesOf(g) \subseteq Addresses
    BY <2>1, <2>2, <2>4, PagesInPool
  <2>7. \A a \in PagesOf(g) : a \notin PagesOfPool(p)
    BY <2>2, <2>6, PoolOfPage
  <2> QED
    BY <1>6, <2>5, <2>6, <2>7
<1>10. Placed'
  <2>1. \A g, h \in extents : g = h \/ Apart(g, h)
    BY DEF PagesInv, Placed
  <2>2. \A g \in extents' : \E q \in mapped' : Within(g, q)
    BY <1>1, <1>5, <1>8
  <2>3. \A g, h \in extents' : g = h \/ Apart(g, h)
    BY <1>1, <1>9, <2>1
  <2> QED
    BY <2>2, <2>3 DEF Placed
<1>11. \A a : ContentAt(a)' = ContentAt(a)
  BY <1>1 DEF ContentAt
<1>12. ASSUME NEW g \in extents
       PROVE  Agrees(g)'
  <2>1. Agrees(g)
    BY DEF PagesInv
  <2>2. \A a \in PagesOf(g) : prot'[a] = prot[a]
    BY <1>1, <1>9
  <2> QED
    BY <1>1, <1>11, <2>1, <2>2 DEF Agrees
<1>13. Agrees(e)'
  <2>1. \A a \in PagesOf(e) : a \notin written /\ ContentAt(a) = "hole"
    BY <1>1, <1>6 DEF PagesInv, UnmappedIsEmpty
  <2>2. c => \A a \in PagesOf(e) : prot'[a] = "rw"
    BY <1>1, <1>6
  <2> QED
    BY <1>1, <1>4, <1>11, <2>1, <2>2 DEF Agrees
<1>14. UnmappedIsEmpty'
  BY <1>1, <1>11 DEF PagesInv, UnmappedIsEmpty
<1> QED
  BY <1>1, <1>7, <1>10, <1>12, <1>13, <1>14 DEF PagesInv

(* Taking and keeping an extent. *)
LEMMA TakeStep ==
  ASSUME PagesInv, NEW e \in extents, Take(e) \/ Retain(e)
  PROVE  PagesInv'
<1>1. e \in Extents /\ Agrees(e)
  BY OneExtent
<1>2. ASSUME NEW x \in {"committing", "retained"}, Become(e, [e EXCEPT !.at = x]),
             e.at \in {"growing", "retained"}, UNCHANGED <<mapped, prot, content, written>>
      PROVE  PagesInv'
  <2> DEFINE f == [e EXCEPT !.at = x]
  <2>1. /\ f \in Extents /\ f.addr = e.addr /\ f.size = e.size /\ f.at = x
        /\ f.committed = e.committed /\ f.zeroed = e.zeroed
    BY <1>1 DEF Extents
  <2>2. Become(e, f)
    BY <1>2
  <2> HIDE DEF f
  <2>3. PagesOf(f) = PagesOf(e)
    BY <2>1 DEF PagesOf
  <2>4. Agrees(f)
    BY <1>1, <1>2, <2>1, <2>3 DEF Agrees
  <2> QED
    BY <1>2, <2>1, <2>2, <2>4, RelabelStep
<1> QED
  BY <1>2 DEF Take, Retain

(* commit_memory_pages(), whether it succeeds or not. *)
LEMMA CommitStep ==
  ASSUME PagesInv, NEW e \in extents, Commit(e)
  PROVE  PagesInv'
<1>1. e \in Extents /\ Agrees(e)
  BY OneExtent
<1>2. e.at = "committing" /\ ~e.committed /\ UNCHANGED <<mapped, content, written>>
  BY DEF Commit
<1>3. (\A a \in PagesOf(e) : ContentAt(a) = "hole" /\ a \notin written)
  BY <1>1, <1>2 DEF Agrees
<1>4. CASE Mprotect(e, "rw") /\ Become(e, [e EXCEPT !.committed = TRUE])
  <2> DEFINE f == [e EXCEPT !.committed = TRUE]
  <2>1. /\ f \in Extents /\ f.addr = e.addr /\ f.size = e.size /\ f.at = "committing" /\ f.committed
    BY <1>1, <1>2 DEF Extents
  <2>2. Become(e, f)
    BY <1>4
  <2> HIDE DEF f
  <2> QED
    BY <1>2, <1>3, <1>4, <2>1, <2>2, ProtectStep
<1>5. CASE Become(e, [e EXCEPT !.at = "retained"]) /\ UNCHANGED prot
  <2> DEFINE f == [e EXCEPT !.at = "retained"]
  <2>1. /\ f \in Extents /\ f.addr = e.addr /\ f.size = e.size /\ f.at = "retained"
        /\ f.committed = e.committed /\ f.zeroed = e.zeroed
    BY <1>1 DEF Extents
  <2>2. Become(e, f)
    BY <1>5
  <2> HIDE DEF f
  <2>3. PagesOf(f) = PagesOf(e)
    BY <2>1 DEF PagesOf
  <2>4. Agrees(f)
    BY <1>1, <1>2, <2>1, <2>3 DEF Agrees
  <2> QED
    BY <1>2, <1>5, <2>1, <2>2, <2>4, RelabelStep
<1> QED
  BY <1>4, <1>5 DEF Commit

(* jemalloc hands an extent out, cleared or not. *)
LEMMA HandOutStep ==
  ASSUME PagesInv, NEW e \in extents, NEW zero \in BOOLEAN, HandOut(e, zero)
  PROVE  PagesInv'
<1> DEFINE f == [e EXCEPT !.at = "active", !.zeroed = zero]
<1>1. Typed /\ e \in Extents /\ Agrees(e) /\ PagesOf(e) \subseteq Addresses
  BY OneExtent
<1>2. PICK p \in Pools : Within(e, p)
  BY OneExtent
<1>3. /\ e.at = "committing" /\ e.committed /\ Become(e, f) /\ written' = written \ PagesOf(e)
      /\ mapped' = mapped /\ prot' = prot
      /\ content' = IF zero /\ ~e.zeroed THEN WithContent(e, FileRange(e), "zero") ELSE content
  BY DEF HandOut
<1>4. /\ f \in Extents /\ f.addr = e.addr /\ f.size = e.size /\ f.at = "active"
      /\ f.committed = e.committed /\ f.zeroed = zero
  BY <1>1 DEF Extents
<1> HIDE DEF f
<1>5. PagesOf(f) = PagesOf(e)
  BY <1>4 DEF PagesOf
<1>6. /\ content' \in [Pools -> [Offsets -> {"hole", "zero", "data"}]]
      /\ zero => \A a \in PagesOf(e) : ContentAt(a)' # "data"
      /\ \A a \in Addresses \ PagesOf(e) : ContentAt(a)' = ContentAt(a)
  <2>1. CASE zero /\ ~e.zeroed
    <3>1. content' = WithContent(e, FileRange(e), "zero")
      BY <1>3, <2>1
    <3>2. /\ content' \in [Pools -> [Offsets -> {"hole", "zero", "data"}]]
          /\ \A a \in PagesOf(e) : ContentAt(a)' = "zero"
          /\ \A a \in Addresses \ PagesOf(e) : ContentAt(a)' = ContentAt(a)
      BY <1>1, <1>2, <3>1, FileRangeIsExact
    <3> QED
      BY <3>2
  <2>2. CASE ~(zero /\ ~e.zeroed)
    <3>1. content' = content
      BY <1>3, <2>2
    <3>2. \A a : ContentAt(a)' = ContentAt(a)
      BY <3>1 DEF ContentAt
    <3>3. e.zeroed => \A a \in PagesOf(e) : ContentAt(a) # "data"
      BY <1>1, <1>3 DEF Agrees
    <3> QED
      BY <1>1, <2>2, <3>1, <3>2, <3>3 DEF Typed
  <2> QED
    BY <2>1, <2>2
<1>7. Agrees(f)'
  BY <1>1, <1>3, <1>4, <1>5, <1>6 DEF Agrees
<1>8. prot' \in [Addresses -> {"none", "rw", "unmapped"}] /\ written' \subseteq Addresses
  BY <1>1, <1>3 DEF Typed
<1> QED
  BY <1>3, <1>4, <1>6, <1>7, <1>8, OtherExtentsKept

(* The application writes a page. *)
LEMMA WriteStep ==
  ASSUME PagesInv, NEW e \in extents, NEW x \in Addresses, Write(e, x)
  PROVE  PagesInv'
<1>1. Typed /\ e \in Extents /\ Agrees(e) /\ PagesOf(e) \subseteq Addresses
  BY OneExtent
<1>2. PICK p \in Pools : Within(e, p)
  BY OneExtent
<1>3. /\ e.at = "active" /\ x \in PagesOf(e) /\ written' = written \cup {x}
      /\ mapped' = mapped /\ prot' = prot /\ extents' = extents
      /\ content' = WithContent(e, {x - Base[PoolAt(x)]}, "data")
  BY DEF Write
<1>4. PagesOf(e) \subseteq PagesOfPool(p)
  BY <1>1, <1>2, PagesInPool
<1>5. PoolAt(x) = p /\ x \in Nat /\ Base[p] \in Nat
  BY <1>3, <1>4, PoolOfPage, ConstantsAssumption DEF Pools
<1>6. PICK offs \in {{x - Base[p]}} : content' = WithContent(e, offs, "data")
  BY <1>3, <1>5
<1>7. /\ content' \in [Pools -> [Offsets -> {"hole", "zero", "data"}]]
      /\ \A a \in Addresses \ PagesOfPool(p) : ContentAt(a)' = ContentAt(a)
      /\ \A a \in PagesOfPool(p) :
           ContentAt(a)' = IF a - Base[p] \in offs THEN "data" ELSE ContentAt(a)
  <2>1. Typed /\ e \in Extents /\ Within(e, p) /\ content' = WithContent(e, offs, "data")
    BY <1>1, <1>2, <1>6
  <2> QED
    BY <2>1, ContentAfter
<1>8. \A a \in PagesOfPool(p) : a - Base[p] \in offs <=> a = x
  BY <1>5, <1>6, PoolOfPage
<1>9. \A a \in Addresses : ContentAt(a)' = IF a = x THEN "data" ELSE ContentAt(a)
  BY <1>3, <1>4, <1>7, <1>8
<1>10. Agrees(e)'
  BY <1>1, <1>3, <1>9 DEF Agrees
<1>11. /\ prot' \in [Addresses -> {"none", "rw", "unmapped"}]
       /\ written' \subseteq Addresses
  BY <1>1, <1>3 DEF Typed
<1>12. Become(e, e)
  BY <1>3 DEF Become
<1> QED
  BY <1>1, <1>3, <1>7, <1>9, <1>10, <1>11, <1>12, OtherExtentsKept

(* The application frees the extent. *)
LEMMA DallocStep ==
  ASSUME PagesInv, NEW e \in extents, Dalloc(e)
  PROVE  PagesInv'
<1> DEFINE f == [e EXCEPT !.at = "freed", !.zeroed = FALSE]
<1>1. Typed /\ e \in Extents /\ Agrees(e)
  BY OneExtent
<1>2. /\ e.at = "active" /\ Become(e, f) /\ written' = written \ PagesOf(e)
      /\ mapped' = mapped /\ prot' = prot /\ content' = content
  BY DEF Dalloc
<1>3. /\ f \in Extents /\ f.addr = e.addr /\ f.size = e.size /\ f.at = "freed"
      /\ f.committed = e.committed /\ ~f.zeroed
  BY <1>1 DEF Extents
<1> HIDE DEF f
<1>4. PagesOf(f) = PagesOf(e)
  BY <1>3 DEF PagesOf
<1>5. \A a : ContentAt(a)' = ContentAt(a)
  BY <1>2 DEF ContentAt
<1>6. Agrees(f)'
  BY <1>1, <1>2, <1>3, <1>4 DEF Agrees
<1>7. /\ prot' \in [Addresses -> {"none", "rw", "unmapped"}]
      /\ content' \in [Pools -> [Offsets -> {"hole", "zero", "data"}]]
      /\ written' \subseteq Addresses
  BY <1>1, <1>2 DEF Typed
<1> QED
  BY <1>2, <1>3, <1>5, <1>6, <1>7, OtherExtentsKept

(* decommit() until mprotect(), for a free or a dying extent. *)
LEMMA DecommitStep ==
  ASSUME PagesInv, NEW e \in extents, e.committed, NEW next, NEW force \in BOOLEAN,
         \/ e.at = "freed" /\ next = "punched" /\ ~force
         \/ e.at = "dying" /\ next = "dead" /\ force,
         Decommit(e, next, force), UNCHANGED <<mapped, written>>
  PROVE  PagesInv'
<1>1. e \in Extents /\ Agrees(e)
  BY OneExtent
<1>2. ASSUME NEW x \in {"punched", "dead", "stuck", "unfreed"}
      PROVE  LET f == [e EXCEPT !.at = x]
             IN  /\ f \in Extents /\ f.addr = e.addr /\ f.size = e.size /\ f.at = x
                 /\ f.committed = e.committed /\ f.zeroed = e.zeroed
  BY <1>1 DEF Extents
<1>3. ASSUME NEW x \in {"punched", "dead", "stuck", "unfreed"}, Become(e, [e EXCEPT !.at = x]),
             x = "dead" \/ x = "stuck" => force,
             x = "punched" \/ x = "unfreed" => ~force,
             UNCHANGED prot,
             \/ PurgeForced(e)
             \/ (PurgeForcedFails(e) \/ UNCHANGED content) /\ x \in {"stuck", "unfreed"}
      PROVE  PagesInv'
  <2> DEFINE f == [e EXCEPT !.at = x]
  <2>1. /\ f \in Extents /\ f.addr = e.addr /\ f.size = e.size /\ f.at = x
        /\ f.committed = e.committed /\ f.zeroed = e.zeroed
    BY <1>2
  <2>2. Become(e, f)
    BY <1>3
  <2> HIDE DEF f
  <2> QED
    BY <1>1, <1>3, <2>1, <2>2, PunchStep
<1>4. CASE PurgeForced(e) /\ Become(e, [e EXCEPT !.at = next]) /\ UNCHANGED prot
  BY <1>3, <1>4
<1>5. CASE /\ PurgeForcedFails(e) /\ UNCHANGED prot
           /\ Become(e, [e EXCEPT !.at = IF force THEN "stuck" ELSE "unfreed"])
  <2>1. CASE force
    BY <1>3, <1>5, <2>1
  <2>2. CASE ~force
    BY <1>3, <1>5, <2>2
  <2> QED
    BY <2>1, <2>2
<1>6. CASE ~force /\ Become(e, [e EXCEPT !.at = "unfreed"]) /\ UNCHANGED <<prot, content>>
  BY <1>3, <1>6
<1> QED
  BY <1>4, <1>5, <1>6 DEF Decommit

(* decommit_memory_pages(): freed extents are committed. *)
LEMMA DecommitMemoryStep ==
  ASSUME PagesInv, NEW e \in extents, DecommitMemoryPages(e)
  PROVE  PagesInv'
<1>1. e.at = "freed" /\ e.committed
  BY OneExtent DEF DecommitMemoryPages, Agrees
<1>2. Decommit(e, "punched", FALSE) /\ UNCHANGED <<mapped, written>>
  BY DEF DecommitMemoryPages
<1> QED
  BY <1>1, <1>2, DecommitStep

(* decommit() from mprotect(): the memory is gone already. *)
LEMMA EndDecommitStep ==
  ASSUME PagesInv, NEW e \in extents, EndDecommit(e)
  PROVE  PagesInv'
<1>1. e \in Extents /\ Agrees(e)
  BY OneExtent
<1>2. e.at = "punched" /\ UNCHANGED <<mapped, content, written>>
  BY DEF EndDecommit
<1>3. \A a \in PagesOf(e) : ContentAt(a) = "hole" /\ a \notin written
  BY <1>1, <1>2 DEF Agrees
<1>4. CASE /\ Mprotect(e, "none")
           /\ Become(e, [e EXCEPT !.at = "retained", !.committed = FALSE, !.zeroed = TRUE])
  <2> DEFINE f == [e EXCEPT !.at = "retained", !.committed = FALSE, !.zeroed = TRUE]
  <2>1. /\ f \in Extents /\ f.addr = e.addr /\ f.size = e.size /\ f.at = "retained"
        /\ ~f.committed /\ f.zeroed
    BY <1>1 DEF Extents
  <2>2. Become(e, f)
    BY <1>4
  <2> HIDE DEF f
  <2> QED
    BY <1>2, <1>3, <1>4, <2>1, <2>2, ProtectStep
<1>5. CASE MprotectFails /\ Become(e, [e EXCEPT !.at = "unfreed"])
  <2> DEFINE f == [e EXCEPT !.at = "unfreed"]
  <2>1. /\ f \in Extents /\ f.addr = e.addr /\ f.size = e.size /\ f.at = "unfreed"
        /\ f.committed = e.committed /\ f.zeroed = e.zeroed
    BY <1>1 DEF Extents
  <2>2. Become(e, f) /\ UNCHANGED prot
    BY <1>5 DEF MprotectFails
  <2> HIDE DEF f
  <2>3. PagesOf(f) = PagesOf(e)
    BY <2>1 DEF PagesOf
  <2>4. Agrees(f)
    BY <1>1, <1>2, <2>1, <2>3 DEF Agrees
  <2> QED
    BY <1>2, <2>1, <2>2, <2>4, RelabelStep
<1> QED
  BY <1>4, <1>5 DEF EndDecommit

(* purge_forced_memory_pages(): only a complete purge counts as zeroing. *)
LEMMA PurgeStep ==
  ASSUME PagesInv, NEW e \in extents, PurgeForcedMemoryPages(e)
  PROVE  PagesInv'
<1>1. e \in Extents /\ Agrees(e)
  BY OneExtent
<1>2. e.at = "unfreed" /\ e.committed /\ UNCHANGED <<mapped, prot, written>>
  BY <1>1 DEF PurgeForcedMemoryPages, Agrees
<1>3. ASSUME NEW z \in BOOLEAN, Become(e, [e EXCEPT !.at = "retained", !.zeroed = z]),
             PurgeForced(e) \/ (PurgeForcedFails(e) /\ ~z)
      PROVE  PagesInv'
  <2> DEFINE f == [e EXCEPT !.at = "retained", !.zeroed = z]
  <2>1. /\ f \in Extents /\ f.addr = e.addr /\ f.size = e.size /\ f.at = "retained"
        /\ f.committed = e.committed /\ f.zeroed = z
    BY <1>1 DEF Extents
  <2>2. Become(e, f)
    BY <1>3
  <2> HIDE DEF f
  <2> QED
    BY <1>2, <1>3, <2>1, <2>2, PunchStep
<1> QED
  BY <1>3 DEF PurgeForcedMemoryPages

(* remove_shm_pool() decommits the range, if it is committed. *)
LEMMA DestroyStep ==
  ASSUME PagesInv, NEW e \in extents, DestroyExtent(e)
  PROVE  PagesInv'
<1>1. e \in Extents /\ Agrees(e)
  BY OneExtent
<1>2. e.at = "dying" /\ UNCHANGED <<mapped, written>>
  BY DEF DestroyExtent, Destroy
<1>3. CASE e.committed
  <2>1. Decommit(e, "dead", TRUE)
    BY <1>3 DEF DestroyExtent, Destroy
  <2> QED
    BY <1>2, <1>3, <2>1, DecommitStep
<1>4. CASE ~e.committed
  <2> DEFINE f == [e EXCEPT !.at = "removed"]
  <2>1. /\ f \in Extents /\ f.addr = e.addr /\ f.size = e.size /\ f.at = "removed"
        /\ f.committed = e.committed /\ f.zeroed = e.zeroed
    BY <1>1 DEF Extents
  <2>2. Become(e, f) /\ UNCHANGED <<prot, content>>
    BY <1>4 DEF DestroyExtent, Destroy
  <2> HIDE DEF f
  <2>3. PagesOf(f) = PagesOf(e)
    BY <2>1 DEF PagesOf
  <2>4. Agrees(f)
    BY <1>1, <1>2, <1>4, <2>1, <2>3 DEF Agrees
  <2> QED
    BY <1>2, <2>1, <2>2, <2>4, RelabelStep
<1> QED
  BY <1>3, <1>4

(* The rest of it: what cannot be protected stays. *)
LEMMA EndDestroyStep ==
  ASSUME PagesInv, NEW e \in extents, EndDestroy(e)
  PROVE  PagesInv'
<1>1. e \in Extents /\ Agrees(e)
  BY OneExtent
<1>2. e.at = "dead" /\ UNCHANGED <<mapped, content, written>>
  BY DEF EndDestroy
<1>3. \A a \in PagesOf(e) : ContentAt(a) = "hole" /\ a \notin written
  BY <1>1, <1>2 DEF Agrees
<1>4. ASSUME NEW x \in {"removed", "stuck"}
      PROVE  LET f == [e EXCEPT !.at = x]
             IN  /\ f \in Extents /\ f.addr = e.addr /\ f.size = e.size /\ f.at = x
                 /\ f.committed = e.committed /\ f.zeroed = e.zeroed
  BY <1>1 DEF Extents
<1>5. CASE Mprotect(e, "none") /\ Become(e, [e EXCEPT !.at = "removed"])
  <2> DEFINE f == [e EXCEPT !.at = "removed"]
  <2>1. f \in Extents /\ f.addr = e.addr /\ f.size = e.size /\ f.at = "removed"
    BY <1>4
  <2>2. Become(e, f)
    BY <1>5
  <2> HIDE DEF f
  <2> QED
    BY <1>2, <1>3, <1>5, <2>1, <2>2, ProtectStep
<1>6. CASE MprotectFails /\ Become(e, [e EXCEPT !.at = "stuck"])
  <2> DEFINE f == [e EXCEPT !.at = "stuck"]
  <2>1. /\ f \in Extents /\ f.addr = e.addr /\ f.size = e.size /\ f.at = "stuck"
        /\ f.committed = e.committed /\ f.zeroed = e.zeroed
    BY <1>4
  <2>2. Become(e, f) /\ UNCHANGED prot
    BY <1>6 DEF MprotectFails
  <2> HIDE DEF f
  <2>3. PagesOf(f) = PagesOf(e)
    BY <2>1 DEF PagesOf
  <2>4. Agrees(f)
    BY <1>1, <1>2, <2>1, <2>3 DEF Agrees
  <2> QED
    BY <1>2, <2>1, <2>2, <2>4, RelabelStep
<1> QED
  BY <1>5, <1>6 DEF EndDestroy

(* What is true of an extent is true of each part of it. *)
LEMMA AgreesOfPart ==
  ASSUME NEW e, NEW f, Agrees(e), PagesOf(f) \subseteq PagesOf(e),
         f.at = e.at, f.committed = e.committed, f.zeroed = e.zeroed
  PROVE  Agrees(f)
BY DEF Agrees

(* Steps on extents alone. *)
LEMMA ExtentsStep ==
  ASSUME PagesInv, UNCHANGED <<mapped, prot, content, written>>,
         extents' \subseteq Extents, Placed', \A g \in extents' : Agrees(g)
  PROVE  PagesInv'
<1>1. \A a : ContentAt(a)' = ContentAt(a)
  BY DEF ContentAt
<1>2. \A g \in extents' : Agrees(g)'
  BY <1>1 DEF Agrees
<1>3. Typed'
  BY DEF PagesInv, Typed
<1>4. UnmappedIsEmpty'
  BY <1>1 DEF PagesInv, UnmappedIsEmpty
<1> QED
  BY <1>2, <1>3, <1>4 DEF PagesInv

(* An extent is divided. *)
LEMMA SplitStep ==
  ASSUME PagesInv, NEW e \in extents, NEW n \in 1..PoolSize, Split(e, n)
  PROVE  PagesInv'
<1> DEFINE f == [e EXCEPT !.size = n]
           g == [e EXCEPT !.addr = @ + n, !.size = @ - n]
<1>1. e \in Extents /\ Agrees(e)
  BY OneExtent
<1>2. /\ n \in 1..(e.size - 1) /\ extents' = (extents \ {e}) \cup {f, g}
      /\ UNCHANGED <<mapped, prot, content, written>>
  BY DEF Split
<1>3. e.addr \in Nat /\ e.size \in Nat /\ n \in Nat /\ 0 < n /\ n < e.size
  BY <1>1, <1>2 DEF Extents
<1>4. /\ f.addr = e.addr /\ f.size = n
      /\ f.at = e.at /\ f.committed = e.committed /\ f.zeroed = e.zeroed
  BY <1>1 DEF Extents
<1>5. /\ g.addr = e.addr + n /\ g.size = e.size - n
      /\ g.at = e.at /\ g.committed = e.committed /\ g.zeroed = e.zeroed
  BY <1>1 DEF Extents
<1>6. f \in Extents /\ g \in Extents
  <2>1. n \in Nat \ {0} /\ e.addr + n \in Nat /\ e.size - n \in Nat \ {0}
    BY <1>3
  <2>2. f \in Extents
    BY <1>1, <2>1 DEF Extents
  <2>3. g \in Extents
    BY <1>1, <2>1 DEF Extents
  <2> QED
    BY <2>2, <2>3
<1> HIDE DEF f, g
<1>7. Agrees(f) /\ Agrees(g)
  <2>1. PagesOf(f) \subseteq PagesOf(e)
    BY <1>3, <1>4 DEF PagesOf
  <2>2. PagesOf(g) \subseteq PagesOf(e)
    BY <1>3, <1>5 DEF PagesOf
  <2> QED
    BY <1>1, <1>4, <1>5, <2>1, <2>2, AgreesOfPart
<1>8. extents' \subseteq Extents /\ \A h \in extents' : Agrees(h)
  BY <1>2, <1>6, <1>7 DEF PagesInv, Typed
<1>9. Placed'
  <2>1. PICK p \in mapped : Within(e, p)
    BY DEF PagesInv, Placed
  <2>2. Base[p] \in Nat /\ PoolSize \in Nat
    BY <2>1, ConstantsAssumption DEF PagesInv, Typed, Pools
  <2>3. Within(f, p) /\ Within(g, p)
    BY <1>3, <1>4, <1>5, <2>1, <2>2 DEF Within
  <2>4. ASSUME NEW h \in extents, h # e
        PROVE  Apart(f, h) /\ Apart(g, h) /\ Apart(h, f) /\ Apart(h, g)
    <3>1. Apart(e, h)
      BY <2>4 DEF PagesInv, Placed
    <3>2. h.addr \in Nat /\ h.size \in Nat
      BY DEF PagesInv, Typed, Extents
    <3> QED
      BY <1>3, <1>4, <1>5, <3>1, <3>2 DEF Apart
  <2>5. Apart(f, g) /\ Apart(g, f)
    BY <1>3, <1>4, <1>5 DEF Apart
  <2>6. \A h, k \in extents : h = k \/ Apart(h, k)
    BY DEF PagesInv, Placed
  <2>7. \A h, k \in extents' : h = k \/ Apart(h, k)
    BY <1>2, <2>4, <2>5, <2>6
  <2>8. \A h \in extents' : \E q \in mapped' : Within(h, q)
    BY <1>2, <2>1, <2>3 DEF PagesInv, Placed
  <2> QED
    BY <2>7, <2>8 DEF Placed
<1> QED
  BY <1>2, <1>8, <1>9, ExtentsStep

(* Two extents become one: both are in the same pool. *)
LEMMA MergeStep ==
  ASSUME PagesInv, NEW e \in extents, NEW f \in extents, Merge(e, f)
  PROVE  PagesInv'
<1> DEFINE g == [e EXCEPT !.size = @ + f.size, !.zeroed = @ /\ f.zeroed]
<1>1. e \in Extents /\ Agrees(e) /\ f \in Extents /\ Agrees(f)
  BY OneExtent
<1>2. /\ e.at = "retained" /\ f.at = "retained" /\ e.committed = f.committed
      /\ PoolAt(e.addr) = PoolAt(f.addr) /\ e.addr + e.size = f.addr
      /\ extents' = (extents \ {e, f}) \cup {g}
      /\ UNCHANGED <<mapped, prot, content, written>>
  BY DEF Merge
<1>3. e.addr \in Nat /\ e.size \in Nat \ {0} /\ f.addr \in Nat /\ f.size \in Nat \ {0}
  BY <1>1 DEF Extents
<1>4. /\ g.addr = e.addr /\ g.size = e.size + f.size
      /\ g.at = e.at /\ g.committed = e.committed
  BY <1>1 DEF Extents
<1>5. g.zeroed = (e.zeroed /\ f.zeroed)
  BY <1>1 DEF Extents
<1>6. g \in Extents
  <2>1. e.size + f.size \in Nat \ {0}
    BY <1>3
  <2>2. (e.zeroed /\ f.zeroed) \in BOOLEAN
    OBVIOUS
  <2> QED
    BY <1>1, <2>1, <2>2 DEF Extents
<1> HIDE DEF g
<1>7. \A a \in PagesOf(g) : a \in PagesOf(e) \/ a \in PagesOf(f)
  BY <1>2, <1>3, <1>4 DEF PagesOf
<1>8. Agrees(g)
  BY <1>1, <1>2, <1>4, <1>5, <1>7 DEF Agrees
<1>9. extents' \subseteq Extents /\ \A h \in extents' : Agrees(h)
  BY <1>2, <1>6, <1>8 DEF PagesInv, Typed
<1>10. Placed'
  <2>1. PICK p \in mapped : Within(e, p)
    BY DEF PagesInv, Placed
  <2>2. PICK q \in mapped : Within(f, q)
    BY DEF PagesInv, Placed
  <2>3. p \in Pools /\ q \in Pools
    BY DEF PagesInv, Typed
  <2>4. p = q
    BY <1>1, <1>2, <2>1, <2>2, <2>3, PagesInPool
  <2>5. Base[p] \in Nat /\ PoolSize \in Nat
    BY <2>3, ConstantsAssumption DEF Pools
  <2>6. Within(g, p)
    BY <1>2, <1>3, <1>4, <2>1, <2>2, <2>4, <2>5 DEF Within
  <2>7. ASSUME NEW h \in extents, h # e, h # f
        PROVE  Apart(g, h) /\ Apart(h, g)
    <3>1. Apart(e, h) /\ Apart(f, h)
      BY <2>7 DEF PagesInv, Placed
    <3>2. h.addr \in Nat /\ h.size \in Nat \ {0}
      BY DEF PagesInv, Typed, Extents
    <3> QED
      BY <1>2, <1>3, <1>4, <3>1, <3>2 DEF Apart
  <2>8. \A h, k \in extents : h = k \/ Apart(h, k)
    BY DEF PagesInv, Placed
  <2>9. \A h, k \in extents' : h = k \/ Apart(h, k)
    BY <1>2, <2>7, <2>8
  <2>10. \A h \in extents' : \E r \in mapped' : Within(h, r)
    BY <1>2, <2>1, <2>6 DEF PagesInv, Placed
  <2> QED
    BY <2>9, <2>10 DEF Placed
<1> QED
  BY <1>2, <1>9, <1>10, ExtentsStep

(* The arena is about to be destroyed. *)
LEMMA BeginDestroyStep ==
  ASSUME PagesInv, BeginDestroy
  PROVE  PagesInv'
<1> DEFINE D(e) == IF e.at = "retained" THEN [e EXCEPT !.at = "dying"] ELSE e
<1>1. /\ \A e \in extents : e.at \in {"retained", "removed"}
      /\ extents' = {D(e) : e \in extents}
      /\ UNCHANGED <<mapped, prot, content, written>>
  BY DEF BeginDestroy
<1>2. ASSUME NEW e \in extents
      PROVE  /\ D(e) \in Extents /\ D(e).addr = e.addr /\ D(e).size = e.size
             /\ Agrees(D(e))
  <2>1. e \in Extents /\ Agrees(e)
    BY OneExtent
  <2>2. CASE e.at = "retained"
    <3> DEFINE f == [e EXCEPT !.at = "dying"]
    <3>1. D(e) = f
      BY <2>2
    <3>2. /\ f \in Extents /\ f.addr = e.addr /\ f.size = e.size /\ f.at = "dying"
          /\ f.committed = e.committed /\ f.zeroed = e.zeroed
      BY <2>1 DEF Extents
    <3> HIDE DEF f, D
    <3>3. PagesOf(f) = PagesOf(e)
      BY <3>2 DEF PagesOf
    <3>4. Agrees(f)
      BY <2>1, <2>2, <3>2, <3>3 DEF Agrees
    <3> QED
      BY <3>1, <3>2, <3>4
  <2>3. CASE e.at # "retained"
    <3>1. D(e) = e
      BY <2>3
    <3> HIDE DEF D
    <3> QED
      BY <2>1, <3>1
  <2> QED
    BY <2>2, <2>3
<1> HIDE DEF D
<1>3. extents' \subseteq Extents /\ \A g \in extents' : Agrees(g)
  BY <1>1, <1>2
<1>4. Placed'
  <2>1. ASSUME NEW g \in extents'
        PROVE  \E q \in mapped' : Within(g, q)
    <3>1. PICK e \in extents : g = D(e)
      BY <1>1
    <3>2. PICK q \in mapped : Within(e, q)
      BY DEF PagesInv, Placed
    <3>3. Within(g, q)
      BY <1>2, <3>1, <3>2 DEF Within
    <3> QED
      BY <1>1, <3>3
  <2>2. ASSUME NEW g \in extents', NEW h \in extents'
        PROVE  g = h \/ Apart(g, h)
    <3>1. PICK e \in extents : g = D(e)
      BY <1>1
    <3>2. PICK f \in extents : h = D(f)
      BY <1>1
    <3>3. e = f \/ Apart(e, f)
      BY DEF PagesInv, Placed
    <3>4. /\ g.addr = e.addr /\ g.size = e.size
          /\ h.addr = f.addr /\ h.size = f.size
      BY <1>2, <3>1, <3>2
    <3>5. Apart(e, f) => Apart(g, h)
      BY <3>4 DEF Apart
    <3> QED
      BY <3>1, <3>2, <3>3, <3>5
  <2> QED
    BY <2>1, <2>2 DEF Placed
<1> QED
  BY <1>1, <1>3, <1>4, ExtentsStep

(* The last range of a pool is removed, and the pool with it. *)
LEMMA UnmapStep ==
  ASSUME PagesInv, NEW p \in Pools, Unmap(p)
  PROVE  PagesInv'
<1> DEFINE S == {e \in extents : PoolAt(e.addr) = p}
<1>1. /\ p \in mapped /\ mapped' = mapped \ {p} /\ written' = written
      /\ \A e \in S : e.at = "removed"
      /\ Whole(p, S)
      /\ prot' = [a \in Addresses |-> IF PoolAt(a) = p THEN "unmapped" ELSE prot[a]]
      /\ content' = [content EXCEPT ![p] = [o \in Offsets |-> "hole"]]
      /\ extents' = extents \ S
  BY DEF Unmap
<1>2. Typed /\ extents \subseteq Extents /\ mapped \subseteq Pools
  BY DEF PagesInv, Typed
<1>3. Typed'
  <2>1. prot' \in [Addresses -> {"none", "rw", "unmapped"}]
    BY <1>1, <1>2 DEF Typed
  <2>2. content' \in [Pools -> [Offsets -> {"hole", "zero", "data"}]]
    BY <1>1, <1>2 DEF Typed
  <2> QED
    BY <1>1, <1>2, <2>1, <2>2 DEF Typed
<1>4. \A q \in Pools : q # p => content'[q] = content[q]
  BY <1>1, <1>2 DEF Typed
<1>5. \A o \in Offsets : content'[p][o] = "hole"
  BY <1>1, <1>2 DEF Typed
<1>6. ASSUME NEW q \in Pools, q # p, NEW a \in PagesOfPool(q)
      PROVE  prot'[a] = prot[a] /\ ContentAt(a)' = ContentAt(a)
  <2>1. PoolAt(a) = q /\ a \in Addresses
    BY PoolOfPage
  <2> QED
    BY <1>1, <1>4, <1>6, <2>1 DEF ContentAt
<1>7. ASSUME NEW e \in extents'
      PROVE  Agrees(e)' /\ \E q \in mapped' : Within(e, q)
  <2>1. e \in extents /\ PoolAt(e.addr) # p /\ e \in Extents /\ Agrees(e)
    BY <1>1, <1>2 DEF PagesInv
  <2>2. PICK q \in mapped : Within(e, q)
    BY <2>1 DEF PagesInv, Placed
  <2>3. q \in Pools /\ q # p /\ PagesOf(e) \subseteq PagesOfPool(q)
    BY <1>2, <2>1, <2>2, PagesInPool
  <2>4. \A a \in PagesOf(e) : prot'[a] = prot[a] /\ ContentAt(a)' = ContentAt(a)
    BY <1>6, <2>3
  <2>5. Agrees(e)'
    BY <1>1, <2>1, <2>4 DEF Agrees
  <2> QED
    BY <1>1, <2>2, <2>3, <2>5
<1>8. Placed'
  BY <1>1, <1>7 DEF PagesInv, Placed
<1>9. UnmappedIsEmpty'
  <2> SUFFICES ASSUME NEW q \in Pools \ mapped', NEW a \in PagesOfPool(q)
               PROVE  a \notin written' /\ ContentAt(a)' = "hole"
    BY DEF UnmappedIsEmpty
  <2>1. CASE q = p
    <3>1. a \in UNION {PagesOf(e) : e \in S}
      BY <1>1, <2>1 DEF Whole, PagesOfPool
    <3>2. PICK e \in S : a \in PagesOf(e)
      BY <3>1
    <3>3. a \notin written
      BY <1>1, <3>2 DEF PagesInv, Agrees
    <3>4. PoolAt(a) = p /\ a - Base[p] \in Offsets
      BY <2>1, PoolOfPage
    <3> QED
      BY <1>1, <1>5, <3>3, <3>4 DEF ContentAt
  <2>2. CASE q # p
    <3>1. a \notin written /\ ContentAt(a) = "hole"
      BY <1>1, <2>2 DEF PagesInv, UnmappedIsEmpty
    <3> QED
      BY <1>1, <1>6, <2>2, <3>1
  <2> QED
    BY <2>1, <2>2
<1> QED
  BY <1>3, <1>7, <1>8, <1>9 DEF PagesInv

-----------------------------------------------------------------------------
(* The inductive invariant holds in every state. *)
LEMMA PagesInvAlways == Spec => []PagesInv
<1>1. Init => PagesInv
  <2> SUFFICES ASSUME Init PROVE PagesInv
    OBVIOUS
  <2>1. Typed /\ Placed
    BY DEF Init, Typed, Placed
  <2>2. UnmappedIsEmpty
    <3> SUFFICES ASSUME NEW p \in Pools, NEW a \in PagesOfPool(p)
                 PROVE  a \notin written /\ ContentAt(a) = "hole"
      BY DEF UnmappedIsEmpty
    <3>1. PoolAt(a) = p /\ a - Base[p] \in Offsets
      BY PoolOfPage
    <3> QED
      BY <3>1 DEF Init, ContentAt
  <2> QED
    BY <2>1, <2>2 DEF PagesInv, Init
<1>2. PagesInv /\ [Next]_vars => PagesInv'
  <2> SUFFICES ASSUME PagesInv, [Next]_vars PROVE PagesInv'
    OBVIOUS
  <2>1. ASSUME NEW e \in extents, Take(e) \/ Retain(e) \/ Commit(e) \/ \E zero \in BOOLEAN : HandOut(e, zero)
        PROVE  PagesInv'
    BY <2>1, TakeStep, CommitStep, HandOutStep
  <2>2. ASSUME NEW e \in extents,
               \/ \E a \in Addresses : Write(e, a)
               \/ Dalloc(e) \/ DecommitMemoryPages(e) \/ EndDecommit(e) \/ PurgeForcedMemoryPages(e)
        PROVE  PagesInv'
    BY <2>2, WriteStep, DallocStep, DecommitMemoryStep, EndDecommitStep, PurgeStep
  <2>3. ASSUME NEW e \in extents,
               \/ \E n \in 1..PoolSize : Split(e, n)
               \/ \E f \in extents : Merge(e, f)
               \/ DestroyExtent(e) \/ EndDestroy(e)
        PROVE  PagesInv'
    BY <2>3, SplitStep, MergeStep, DestroyStep, EndDestroyStep
  <2>4. CASE UNCHANGED vars
    <3>1. \A a : ContentAt(a)' = ContentAt(a)
      BY <2>4 DEF vars, ContentAt
    <3> QED
      BY <2>4, <3>1 DEF vars, PagesInv, Typed, Placed, Agrees, UnmappedIsEmpty
  <2> QED
    BY <2>1, <2>2, <2>3, <2>4, CreateStep, UnmapStep, BeginDestroyStep DEF Next
<1> QED
  BY <1>1, <1>2, PTL DEF Spec

(* Memory that jemalloc believes to be committed is accessible, whichever of *)
(* the system calls under decommit() fail.                                   *)
THEOREM CommittedAlwaysAccessible == Spec => []CommittedIsAccessible
<1>1. PagesInv => CommittedIsAccessible
  BY DEF PagesInv, Agrees, CommittedIsAccessible
<1> QED
  BY <1>1, PagesInvAlways, PTL

(* Memory that jemalloc takes to be zero holds no data of earlier objects.   *)
THEOREM ZeroedAlwaysZero == Spec => []ZeroedIsZero
<1>1. PagesInv => ZeroedIsZero
  BY DEF PagesInv, Agrees, ZeroedIsZero
<1> QED
  BY <1>1, PagesInvAlways, PTL

(* The file offsets of decommit and purge are those of the extent: no data   *)
(* of a live object is lost.                                                 *)
THEOREM LiveDataAlwaysKept == Spec => []LiveDataKept
<1>1. PagesInv => LiveDataKept
  BY DEF PagesInv, Agrees, LiveDataKept
<1> QED
  BY <1>1, PagesInvAlways, PTL

(* A removed range holds no physical memory while its pool lives on.         *)
THEOREM RemovedNeverHoldsMemory == Spec => []RemovedHoldsNoMemory
<1>1. PagesInv => RemovedHoldsNoMemory
  BY DEF PagesInv, Agrees, RemovedHoldsNoMemory
<1> QED
  BY <1>1, PagesInvAlways, PTL

=============================================================================
