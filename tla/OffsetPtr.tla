----------------------------- MODULE OffsetPtr -----------------------------
(***************************************************************************)
(* Shm_pool_offset_ptr: a pointer in as many bits as a native one that     *)
(* holds null, a raw address, or a pool id and an offset, and that means   *)
(* the same object in processes that map the pool at different addresses.  *)
(*                                                                         *)
(* The 64 bits are kept as a number, with fewer of them: the offset is the *)
(* lowest digit (base OffCount), the pool id the next one (base IdCount),  *)
(* the selector the highest bit.  Addresses have as many bits.             *)
(*                                                                         *)
(* Names carry the module's subject where PoolIdGenerator, which proofs    *)
(* extend together with this module, has the plain ones.                   *)
(***************************************************************************)
EXTENDS Integers, FiniteSets

CONSTANTS
  OffCount,   \* 2^32: values of pool_offset_t and diff_t, half of them negative
  IdCount,    \* 2^31: values of a pool id, 0 among them
  PoolIds,    \* pools of this run
  Size,       \* pool id -> its size
  Owner,      \* the process that allocates
  Processes,  \* it and the ones that borrow
  Places,     \* addresses where a process may map a pool
  RawAddrs,   \* addresses that pointers are constructed from
  Slots,      \* pointer variables
  Counts,     \* numbers of elements that are added to a pointer
  ElemSize    \* sizeof(Pointed_type)

RepCount == 2 * IdCount * OffCount
SelectorBit == IdCount * OffCount
MaxOffset == (OffCount \div 2) - 1

(* An address in canonical form: the bits above the used ones are equal, so *)
(* at least the two highest are.                                           *)
Canonical(a) == a \in 0..(RepCount \div 4 - 1) \cup (3 * (RepCount \div 4))..(RepCount - 1)

(* owner_shm_pool_collection.cpp:131 asserts that a pool is no larger than *)
(* the largest offset.  Pools lie in the lower, user half of the addresses. *)
(* increment() takes its bytes as a diff_t.                                *)
ASSUME PointersAssumption ==
  /\ OffCount \in Nat /\ IdCount \in Nat /\ OffCount >= 4 /\ OffCount % 2 = 0 /\ IdCount >= 2 /\ IdCount % 2 = 0
  /\ PoolIds \subseteq 1..(IdCount - 1)
  /\ Size \in [PoolIds -> 1..MaxOffset]
  /\ Owner \in Processes
  /\ Places \subseteq Nat
  /\ \A a \in Places : a > OffCount \div 2 /\ a + OffCount < RepCount \div 4
  /\ \A a \in RawAddrs : Canonical(a)
  /\ Counts \subseteq Int /\ ElemSize \in Nat \ {0}
  /\ \A n \in Counts : n * ElemSize \in -(OffCount \div 2)..MaxOffset

VARIABLES
  at,      \* process -> pool id -> its base address, 0 if not in the repository
  ptr,     \* slot -> [proc, raw, rep]: where it lives, S_RAW_OK, m_rep
  meaning  \* slot -> what a native pointer would point to (the reference)

pointerVars == <<at, ptr, meaning>>

-----------------------------------------------------------------------------
(* The bit-fields. *)

(* Two's complement in the width of an offset. *)
Signed(d) == IF d > MaxOffset THEN d - OffCount ELSE d

Selector(rep) == rep \div SelectorBit

IdField(rep) == (rep % SelectorBit) \div OffCount

OffsetField(rep) == Signed(rep % OffCount)

OffsetRep(id, off) == SelectorBit + id * OffCount + (off % OffCount)

RawRep(a) == a % SelectorBit

(* get() of a raw pointer: the selector becomes a copy of the bit below it. *)
RawAddress(rep) == IF rep >= SelectorBit \div 2 THEN rep + SelectorBit ELSE rep

-----------------------------------------------------------------------------
(* The repository, as the pointers see it. *)

ToAddress(p, id, off) ==
  IF id \notin PoolIds \/ at[p][id] = 0 THEN 0 ELSE at[p][id] + off

Known(p) == {i \in PoolIds : at[p][i] # 0}

(* The entry at the address or before it, if the address is in its range. *)
FromAddress(p, a) ==
  LET below == {i \in Known(p) : at[p][i] <= a}
      found == {i \in below : /\ \A j \in below : at[p][j] <= at[p][i]
                              /\ a < at[p][i] + Size[i]}
  IN  IF found = {} THEN [id |-> 0, off |-> 0]
      ELSE LET i == CHOOSE i \in found : TRUE IN [id |-> i, off |-> a - at[p][i]]

-----------------------------------------------------------------------------
(* Shm_pool_offset_ptr_data. *)

FromVoid(p, raw, a) ==
  LET f == FromAddress(p, a)
  IN  IF a = 0 THEN 0
      ELSE IF f.id # 0 THEN OffsetRep(f.id, f.off)
      ELSE IF raw THEN RawRep(a) ELSE 0

Get(x) ==
  IF x.rep = 0 THEN 0
  ELSE IF x.raw /\ Selector(x.rep) = 0 THEN RawAddress(x.rep)
  ELSE ToAddress(x.proc, IdField(x.rep), OffsetField(x.rep))

IsRaw(x) == x.raw /\ Selector(x.rep) = 0 /\ x.rep # 0

Bool(x) == x.rep # 0

IncrementCarrying(raw, rep, bytes) ==  \* mutant: one addition on all the bits
  IF raw \/ rep # 0 THEN (rep + bytes) % RepCount ELSE rep

IncrementNull(raw, rep, bytes) ==      \* mutant: an offset-only null is incremented too
  IF raw /\ Selector(rep) = 0
  THEN (rep + bytes) % RepCount
  ELSE rep - (rep % OffCount) + ((rep + bytes) % OffCount)

Increment(raw, rep, bytes) ==
  IF raw /\ Selector(rep) = 0 THEN (rep + bytes) % RepCount
  ELSE IF rep = 0 THEN rep
  ELSE rep - (rep % OffCount) + ((rep + bytes) % OffCount)

-----------------------------------------------------------------------------
(* Shm_pool_offset_ptr: comparison and difference go through get(). *)

LessBits(x, y) == x.rep < y.rep  \* mutant: compares the representations

Less(x, y) == Get(x) < Get(y)

Equal(x, y) == Get(x) = Get(y)

Minus(x, y) == (Get(x) - Get(y)) \div ElemSize

-----------------------------------------------------------------------------
(* The reference: a native pointer is an object of a pool, or an address;  *)
(* 0 is null.  Nothing is promised of the ones that overflowed.            *)

InPool(i, off) == [kind |-> "object", pool |-> i, at |-> off]
Address(a) == [kind |-> "address", pool |-> 0, at |-> a]
Overflowed == [kind |-> "overflowed", pool |-> 0, at |-> 0]

NativeAddress(m, p) ==
  IF m.kind = "address" THEN m.at
  ELSE IF at[p][m.pool] = 0 THEN 0 ELSE at[p][m.pool] + m.at

NativeAt(p, raw, a) ==
  IF \E i \in Known(p) : a \in at[p][i]..(at[p][i] + Size[i] - 1)
  THEN LET i == CHOOSE i \in Known(p) : a \in at[p][i]..(at[p][i] + Size[i] - 1)
       IN  InPool(i, a - at[p][i])
  ELSE IF raw THEN Address(a) ELSE Address(0)

NativePlus(m, raw, bytes) ==
  IF m = Address(0) /\ ~raw THEN m
  ELSE LET n == [m EXCEPT !.at = @ + bytes]
       IN  IF \/ m.kind = "object" /\ n.at \in -(OffCount \div 2)..MaxOffset
              \/ m.kind = "address" /\ Canonical(n.at)
           THEN n ELSE Overflowed

Promised(s) == meaning[s] # Overflowed

-----------------------------------------------------------------------------
PointersInit ==
  /\ at = [p \in Processes |-> [i \in PoolIds |-> 0]]
  /\ ptr = [s \in Slots |-> [proc |-> Owner, raw |-> TRUE, rep |-> 0]]
  /\ meaning = [s \in Slots |-> Address(0)]

(* A pool is mapped where there is room and put into the repository. *)
Register(p, i, a) ==
  /\ at[p][i] = 0
  /\ \A j \in Known(p) : a + Size[i] <= at[p][j] \/ at[p][j] + Size[j] <= a
  /\ at' = [at EXCEPT ![p][i] = a]
  /\ UNCHANGED <<ptr, meaning>>

Erase(p, i) ==
  /\ at[p][i] # 0
  /\ at' = [at EXCEPT ![p][i] = 0]
  /\ UNCHANGED <<ptr, meaning>>

Assign(s, x, m) ==
  /\ ptr' = [ptr EXCEPT ![s] = x]
  /\ meaning' = [meaning EXCEPT ![s] = m]
  /\ UNCHANGED at

(* The constructor from void*, pointer_to() and the default constructor. *)
(* Only the owner's type stores raw pointers.                            *)
Construct(s, p, raw, a) ==
  /\ raw => p = Owner
  /\ Assign(s, [proc |-> p, raw |-> raw, rep |-> FromVoid(p, raw, a)], NativeAt(p, raw, a))

(* Copying within a type, and to the same pointed type, copies the bits. *)
Copy(s, t) ==
  /\ s # t /\ Promised(s)
  /\ Assign(t, ptr[s], meaning[s])

(* To another pointed type, or to one with the other S_RAW_OK, by way of get(). *)
Convert(s, t, raw) ==
  LET x == ptr[s]
  IN  /\ Promised(s)
      /\ raw => x.proc = Owner
      /\ Assign(t, [x EXCEPT !.raw = raw, !.rep = FromVoid(x.proc, raw, Get(x))],
                NativeAt(x.proc, raw, NativeAddress(meaning[s], x.proc)))

(* A pointer stored in shared memory is read by a borrower, whose pointer *)
(* type is offset-only.  What is stored there does not point outside it.  *)
View(s, t, p) ==
  /\ s # t /\ Promised(s)
  /\ ptr[s].proc = Owner /\ p # Owner /\ ~IsRaw(ptr[s])
  /\ Assign(t, [proc |-> p, raw |-> FALSE, rep |-> ptr[s].rep], meaning[s])

(* operator+=, -=, ++ and --. *)
Advance(s, n) ==
  LET bytes == n * ElemSize
  IN  /\ Promised(s)
      /\ Assign(s, [ptr[s] EXCEPT !.rep = Increment(ptr[s].raw, @, bytes)],
                NativePlus(meaning[s], ptr[s].raw, bytes))

PointersNext ==
  \/ \E p \in Processes, i \in PoolIds, a \in Places : Register(p, i, a)
  \/ \E p \in Processes, i \in PoolIds : Erase(p, i)
  \/ \E s \in Slots, p \in Processes, raw \in BOOLEAN, a \in RawAddrs : Construct(s, p, raw, a)
  \/ \E s, t \in Slots : Copy(s, t)
  \/ \E s, t \in Slots, raw \in BOOLEAN : Convert(s, t, raw)
  \/ \E s, t \in Slots, p \in Processes : View(s, t, p)
  \/ \E s \in Slots, n \in Counts : Advance(s, n)

PointersSpec == PointersInit /\ [][PointersNext]_pointerVars

-----------------------------------------------------------------------------
(* Properties. *)

(* After any sequence of constructions, copies, conversions, reads from    *)
(* shared memory and arithmetic, and wherever the pools are mapped by now, *)
(* get() is the address a native pointer would have: of the same object of *)
(* the pool in whichever process asks, also just outside the pool, as      *)
(* shm_pool_repository_singleton.hpp:62 allows; null once the pool is gone.*)
GetIsNative ==
  \A s \in Slots : Promised(s) => Get(ptr[s]) = NativeAddress(meaning[s], ptr[s].proc)

(* Two pointers of a process into one pool compare and subtract like their *)
(* offsets (a loop up to an end() that lies at the end of the pool stops), *)
(* while the pool is mapped.                                               *)
ComparedAsOffsets ==
  \A s, t \in Slots :
    LET m == meaning[s] n == meaning[t] p == ptr[s].proc
    IN  m.kind = "object" /\ n.kind = "object" /\ m.pool = n.pool /\ ptr[t].proc = p /\ at[p][m.pool] # 0
          => /\ Less(ptr[s], ptr[t]) <=> m.at < n.at
             /\ Equal(ptr[s], ptr[t]) <=> m.at = n.at
             /\ Minus(ptr[s], ptr[t]) = (m.at - n.at) \div ElemSize

(* A pointer that cannot be raw is null or an offset into a pool with a     *)
(* non-zero id, which get() takes for granted (its test is disabled).       *)
OffsetOnly ==
  \A s \in Slots : ~ptr[s].raw /\ ptr[s].rep # 0
    => Selector(ptr[s].rep) = 1 /\ IdField(ptr[s].rep) \in PoolIds

(* The documentation of operator bool: false if and only if get() is null. *)
BoolIsGet ==
  \A s \in Slots : Promised(s) => (Bool(ptr[s]) <=> Get(ptr[s]) # 0)

=============================================================================
