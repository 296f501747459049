----------------------------- MODULE PageStates -----------------------------
(***************************************************************************)
(* The pages under a jemalloc arena: what the hooks of Shm_pool_collection *)
(* and Jemalloc_pages do to the mapping and to the SHM object when         *)
(* jemalloc commits, decommits, purges and destroys its extents, and what  *)
(* jemalloc concludes from their answers.                                  *)
(*                                                                         *)
(* Addresses are page numbers of one process.  Protection belongs to an    *)
(* address, contents belong to a page of the SHM object.                   *)
(***************************************************************************)
EXTENDS Naturals

CONSTANTS
  Base,     \* pool -> the address it is mapped at
  PoolSize  \* pages of a pool

ASSUME ConstantsAssumption ==
  /\ PoolSize \in Nat \ {0}
  /\ \A p \in DOMAIN Base : Base[p] \in Nat
  /\ \A p, q \in DOMAIN Base : p = q \/ Base[p] + PoolSize <= Base[q] \/ Base[q] + PoolSize <= Base[p]

Pools == DOMAIN Base
Offsets == 0..(PoolSize - 1)
Addresses == UNION {Base[p] .. (Base[p] + PoolSize - 1) : p \in Pools}

(* Steps of an extent: "active" in use, "retained" kept by jemalloc for   *)
(* later, "growing" just mapped, "committing" before commit, "freed",     *)
(* "punched", "unfreed" on the way back, "dying" and "dead" once the arena *)
(* is destroyed, "removed", "stuck".                                      *)
VARIABLES
  overcommits, \* os_overcommits
  mapped,      \* pools that are mapped
  prot,        \* address -> "none", "rw", "unmapped"
  content,     \* pool -> file offset -> "hole" (no memory), "zero", "data"
  extents,     \* jemalloc's extents
  written,     \* addresses the application has written since it got them
  destroying   \* the arena is being destroyed

vars == <<overcommits, mapped, prot, content, extents, written, destroying>>

(* pages_boot() reads /proc/sys/vm/overcommit_memory once; tests may set *)
(* os_overcommits before there is any memory.                            *)
Init ==
  /\ overcommits \in BOOLEAN
  /\ mapped = {}
  /\ prot = [a \in Addresses |-> "unmapped"]
  /\ content = [p \in Pools |-> [o \in Offsets |-> "hole"]]
  /\ extents = {} /\ written = {}
  /\ destroying = FALSE

-----------------------------------------------------------------------------
(* Addresses and file offsets. *)

PagesOf(e) == e.addr .. (e.addr + e.size - 1)

PoolAt(a) == CHOOSE p \in Pools : a \in Base[p] .. (Base[p] + PoolSize - 1)

ContentAt(a) == content[PoolAt(a)][a - Base[PoolAt(a)]]

FileRangeFromStart(e) == 0 .. (e.size - 1)   \* mutant: offset in the extent, not in the pool

(* compute_pool_and_offset(): where the extent is in its pool's object. *)
FileRange(e) == (e.addr - Base[PoolAt(e.addr)]) .. (e.addr - Base[PoolAt(e.addr)] + e.size - 1)

WithContent(e, offs, c) ==
  [content EXCEPT ![PoolAt(e.addr)] = [o \in Offsets |-> IF o \in offs THEN c ELSE @[o]]]

WithProt(e, x) == [a \in Addresses |-> IF a \in PagesOf(e) THEN x ELSE prot[a]]

Become(e, f) == extents' = (extents \ {e}) \cup {f}

-----------------------------------------------------------------------------
(* System calls on the pages of an extent. *)

Mprotect(e, x) == prot' = WithProt(e, x)
MprotectFails == UNCHANGED prot

(* purge_forced(): fallocate() punches a hole in the object. *)
PurgeForced(e) == content' = WithContent(e, FileRange(e), "hole")

(* It may fail after part of its work. *)
PurgeForcedFails(e) ==
  \E offs \in {{}, FileRange(e)} : content' = WithContent(e, offs, "hole")

-----------------------------------------------------------------------------
(* Getting memory. *)

(* os_pages_map(): if the system overcommits, pages are mapped accessible. *)
MapCommitted(commit) == overcommits \/ commit

(* *zero = *commit *)
Zeroed(committed) == committed

(* create_shm_pool(), asked for by jemalloc when nothing it retains fits. *)
CreateShmPool(p, commit) ==
  /\ ~destroying
  /\ p \notin mapped
  /\ LET e == [addr |-> Base[p], size |-> PoolSize, at |-> "growing",
               committed |-> MapCommitted(commit), zeroed |-> Zeroed(MapCommitted(commit))]
     IN  /\ mapped' = mapped \cup {p}
         /\ prot' = WithProt(e, IF MapCommitted(commit) THEN "rw" ELSE "none")
         /\ extents' = extents \cup {e}
  /\ UNCHANGED <<overcommits, content, written, destroying>>

(* jemalloc takes an extent for an allocation, or keeps a new one. *)
Take(e) ==
  /\ ~destroying
  /\ e \in extents /\ e.at \in {"growing", "retained"}
  /\ Become(e, [e EXCEPT !.at = "committing"])
  /\ UNCHANGED <<overcommits, mapped, prot, content, written, destroying>>

Retain(e) ==
  /\ e \in extents /\ e.at = "growing"
  /\ Become(e, [e EXCEPT !.at = "retained"])
  /\ UNCHANGED <<overcommits, mapped, prot, content, written, destroying>>

(* commit_memory_pages() refuses if the system overcommits. *)
Commit(e) ==
  /\ e \in extents /\ e.at = "committing" /\ ~e.committed
  /\ \/ /\ ~overcommits
        /\ Mprotect(e, "rw")
        /\ Become(e, [e EXCEPT !.committed = TRUE])
     \/ /\ Become(e, [e EXCEPT !.at = "retained"])
        /\ UNCHANGED prot
  /\ UNCHANGED <<overcommits, mapped, content, written, destroying>>

(* jemalloc hands the extent out; it clears what must be zero and is not *)
(* known to be.                                                          *)
HandOut(e, zero) ==
  /\ e \in extents /\ e.at = "committing" /\ e.committed
  /\ content' = IF zero /\ ~e.zeroed THEN WithContent(e, FileRange(e), "zero") ELSE content
  /\ Become(e, [e EXCEPT !.at = "active", !.zeroed = zero])
  /\ written' = written \ PagesOf(e)
  /\ UNCHANGED <<overcommits, mapped, prot, destroying>>

Write(e, a) ==
  /\ e \in extents /\ e.at = "active" /\ a \in PagesOf(e) \ written
  /\ prot[a] = "rw"
  /\ content' = WithContent(e, {a - Base[PoolAt(a)]}, "data")
  /\ written' = written \cup {a}
  /\ UNCHANGED <<overcommits, mapped, prot, extents, destroying>>

-----------------------------------------------------------------------------
(* Giving it back. *)

(* jemalloc offers the extent: optional_remove_shm_pool() always declines. *)
(* Memory that is not committed is taken to be zero from then on.          *)
Dalloc(e) ==
  /\ e \in extents /\ e.at = "active"
  /\ Become(e, [e EXCEPT !.at = "freed", !.zeroed = FALSE])
  /\ written' = written \ PagesOf(e)
  /\ UNCHANGED <<overcommits, mapped, prot, content, destroying>>

DecommitProtectsFirst(e, next, force) ==     \* mutant: mprotect(), then fallocate()
  \/ /\ force \/ ~overcommits
     /\ prot' = WithProt(e, "none")
     /\ \/ PurgeForced(e) /\ Become(e, [e EXCEPT !.at = next])
        \/ PurgeForcedFails(e) /\ Become(e, [e EXCEPT !.at = IF force THEN "stuck" ELSE "unfreed"])
  \/ /\ ~force /\ overcommits
     /\ Become(e, [e EXCEPT !.at = "unfreed"])
     /\ UNCHANGED <<prot, content>>

DecommitLazily(e, next, force) ==            \* mutant: the hole is not punched
  \/ /\ force \/ ~overcommits
     /\ Become(e, [e EXCEPT !.at = next])
     /\ UNCHANGED <<prot, content>>
  \/ /\ ~force /\ overcommits
     /\ Become(e, [e EXCEPT !.at = "unfreed"])
     /\ UNCHANGED <<prot, content>>

(* Jemalloc_pages::decommit() until mprotect(). *)
Decommit(e, next, force) ==
  \/ /\ force \/ ~overcommits
     /\ PurgeForced(e)
     /\ Become(e, [e EXCEPT !.at = next])
     /\ UNCHANGED prot
  \/ /\ force \/ ~overcommits
     /\ PurgeForcedFails(e)
     /\ Become(e, [e EXCEPT !.at = IF force THEN "stuck" ELSE "unfreed"])
     /\ UNCHANGED prot
  \/ /\ ~force /\ overcommits
     /\ Become(e, [e EXCEPT !.at = "unfreed"])
     /\ UNCHANGED <<prot, content>>

(* decommit_memory_pages() *)
DecommitMemoryPages(e) ==
  /\ e \in extents /\ e.at = "freed"
  /\ Decommit(e, "punched", FALSE)
  /\ UNCHANGED <<overcommits, mapped, written, destroying>>

(* decommit(): the end.  jemalloc purges what it could not decommit. *)
EndDecommit(e) ==
  /\ e \in extents /\ e.at = "punched"
  /\ \/ /\ Mprotect(e, "none")
        /\ Become(e, [e EXCEPT !.at = "retained", !.committed = FALSE, !.zeroed = TRUE])
     \/ /\ MprotectFails
        /\ Become(e, [e EXCEPT !.at = "unfreed"])
  /\ UNCHANGED <<overcommits, mapped, content, written, destroying>>

(* purge_forced_memory_pages() *)
PurgeForcedMemoryPages(e) ==
  /\ e \in extents /\ e.at = "unfreed"
  /\ \/ PurgeForced(e) /\ Become(e, [e EXCEPT !.at = "retained", !.zeroed = TRUE])
     \/ PurgeForcedFails(e) /\ Become(e, [e EXCEPT !.at = "retained", !.zeroed = FALSE])
  /\ UNCHANGED <<overcommits, mapped, prot, written, destroying>>

-----------------------------------------------------------------------------
(* Extents are divided and put together. *)

Split(e, n) ==
  /\ e \in extents /\ e.at \in {"growing", "retained", "active"}
  /\ n \in 1..(e.size - 1)
  /\ extents' = (extents \ {e}) \cup {[e EXCEPT !.size = n],
                                      [e EXCEPT !.addr = @ + n, !.size = @ - n]}
  /\ UNCHANGED <<overcommits, mapped, prot, content, written, destroying>>

(* merge_memory_pages(): not across pools. *)
Merge(e, f) ==
  /\ {e, f} \subseteq extents /\ e.at = "retained" /\ f.at = "retained"
  /\ e.committed = f.committed
  /\ PoolAt(e.addr) = PoolAt(f.addr) /\ e.addr + e.size = f.addr
  /\ extents' = (extents \ {e, f}) \cup {[e EXCEPT !.size = @ + f.size,
                                                   !.zeroed = @ /\ f.zeroed]}
  /\ UNCHANGED <<overcommits, mapped, prot, content, written, destroying>>

-----------------------------------------------------------------------------
(* The arena is destroyed: jemalloc gives every extent to destroy. *)

BeginDestroy ==
  /\ ~destroying
  /\ \A e \in extents : e.at \in {"retained", "removed"}
  /\ destroying' = TRUE
  /\ extents' = {IF e.at = "retained" THEN [e EXCEPT !.at = "dying"] ELSE e : e \in extents}
  /\ UNCHANGED <<overcommits, mapped, prot, content, written>>

DestroyedAsIs(e) ==                          \* mutant: no decommit functor
  /\ e \in extents /\ e.at = "dying"
  /\ Become(e, [e EXCEPT !.at = "removed"])
  /\ UNCHANGED <<prot, content>>

(* remove_shm_pool(): the range is decommitted first, if it is committed; *)
(* a range that cannot be stays in the pool.                              *)
Destroy(e) ==
  /\ e \in extents /\ e.at = "dying"
  /\ IF e.committed THEN Decommit(e, "dead", TRUE)
     ELSE Become(e, [e EXCEPT !.at = "removed"]) /\ UNCHANGED <<prot, content>>

DestroyExtent(e) == Destroy(e) /\ UNCHANGED <<overcommits, mapped, written, destroying>>

EndDestroy(e) ==
  /\ e \in extents /\ e.at = "dead"
  /\ \/ Mprotect(e, "none") /\ Become(e, [e EXCEPT !.at = "removed"])
     \/ MprotectFails /\ Become(e, [e EXCEPT !.at = "stuck"])
  /\ UNCHANGED <<overcommits, mapped, content, written, destroying>>

Whole(p, S) == UNION {PagesOf(e) : e \in S} = Base[p] .. (Base[p] + PoolSize - 1)

(* remove_range_and_pool_if_empty(): with the last range goes the pool. *)
Unmap(p) ==
  /\ p \in mapped
  /\ LET S == {e \in extents : PoolAt(e.addr) = p}
     IN  /\ \A e \in S : e.at = "removed"
         /\ Whole(p, S)
         /\ mapped' = mapped \ {p}
         /\ prot' = [a \in Addresses |-> IF PoolAt(a) = p THEN "unmapped" ELSE prot[a]]
         /\ content' = [content EXCEPT ![p] = [o \in Offsets |-> "hole"]]
         /\ extents' = extents \ S
  /\ UNCHANGED <<overcommits, written, destroying>>

Next ==
  \/ \E p \in Pools : Unmap(p) \/ \E commit \in BOOLEAN : CreateShmPool(p, commit)
  \/ \E e \in extents :
       \/ Take(e) \/ Retain(e) \/ Commit(e) \/ \E zero \in BOOLEAN : HandOut(e, zero)
       \/ \E a \in Addresses : Write(e, a)
       \/ Dalloc(e) \/ DecommitMemoryPages(e) \/ EndDecommit(e) \/ PurgeForcedMemoryPages(e)
       \/ \E n \in 1..PoolSize : Split(e, n)
       \/ \E f \in extents : Merge(e, f)
       \/ DestroyExtent(e) \/ EndDestroy(e)
  \/ BeginDestroy

Spec == Init /\ [][Next]_vars

-----------------------------------------------------------------------------
(* Properties. *)

(* Memory that jemalloc believes to be committed can be read and written,   *)
(* whichever of the system calls under decommit() failed: it uses committed *)
(* extents without asking.                                                  *)
CommittedIsAccessible ==
  \A e \in extents : (e.committed /\ e.at \in {"growing", "retained", "committing", "active"})
                       => \A a \in PagesOf(e) : prot[a] = "rw"

(* Memory that is taken to be zero is: the hooks' answers say no more than *)
(* what the SHM object holds, so calloc()ed objects start out clear.       *)
ZeroedIsZero ==
  \A e \in extents : e.zeroed => \A a \in PagesOf(e) \ written : ContentAt(a) # "data"

(* Nothing that jemalloc does to free extents takes away what the          *)
(* application has written to others of the same pool: the file offsets in *)
(* decommit and purge belong to the extent's addresses.                    *)
LiveDataKept ==
  \A e \in extents : e.at = "active" => \A a \in PagesOf(e) \cap written : ContentAt(a) = "data"

(* Once a range is removed no physical memory is left in it, even though the *)
(* pool it belongs to lives on.                                              *)
RemovedHoldsNoMemory ==
  \A e \in extents : e.at = "removed" => \A a \in PagesOf(e) : ContentAt(a) = "hole"

=============================================================================
