------------------------- MODULE OffsetPtrData_proofs -------------------------
(***************************************************************************)
(* Shm_pool_offset_ptr_data: the ids that generate_pool_id() gives out,    *)
(* for any number of threads and processes and any width of the counter;   *)
(* the bits of the pointers that carry them, for any widths of their       *)
(* fields, any pools and any processes that map them.                      *)
(***************************************************************************)
EXTENDS PoolIdGenerator, OffsetPtr, TLAPS

-----------------------------------------------------------------------------
(* The counter: PoolIdGenerator. *)

(* Clearing the top bit of a counter leaves it alone or takes Half away.     *)
LEMMA IdOfCases ==
  ASSUME NEW n \in Counter
  PROVE  /\ n < Half => IdOf(n) = n
         /\ n >= Half => IdOf(n) = n - Half
BY ConstantsAssumption DEF IdOf, Counter

(* ++ wraps around after the last value of the counter.                      *)
LEMMA IncrementedCases ==
  ASSUME NEW n \in Counter
  PROVE  /\ n < 2 * Half - 1 => Incremented(n) = n + 1
         /\ n = 2 * Half - 1 => Incremented(n) = 0
BY ConstantsAssumption DEF Incremented, Counter

(* What a call stores is again a counter, and its id is the one returned: the *)
(* next one, or 1 when the next one would be 0.                              *)
LEMMA StoredCases ==
  ASSUME NEW n \in Counter
  PROVE  /\ Stored(n) \in Counter
         /\ IdOf(Incremented(n)) # 0 => /\ IdOf(Incremented(n)) = IdOf(n) + 1
                                        /\ IdOf(Stored(n)) = IdOf(n) + 1
         /\ IdOf(Incremented(n)) = 0 => IdOf(Stored(n)) = 1 /\ IdOf(n) = Half - 1
         /\ IdOf(n) \in 0 .. Half - 1
<1> USE ConstantsAssumption
<1>1. CASE n < Half - 1
  <2>1. Incremented(n) = n + 1 /\ n + 1 \in Counter
    BY <1>1, IncrementedCases DEF Counter
  <2>2. IdOf(n) = n /\ IdOf(n + 1) = n + 1
    BY <1>1, <2>1, IdOfCases DEF Counter
  <2> QED  BY <1>1, <2>1, <2>2 DEF Stored, Counter
<1>2. CASE n = Half - 1
  <2>1. Incremented(n) = n + 1 /\ n + 1 \in Counter
    BY <1>2, IncrementedCases DEF Counter
  <2>2. Incremented(n + 1) = n + 2 /\ n + 2 \in Counter
    BY <1>2, <2>1, IncrementedCases DEF Counter
  <2>3. IdOf(n) = n /\ IdOf(n + 1) = 0 /\ IdOf(n + 2) = 1
    BY <1>2, <2>1, <2>2, IdOfCases DEF Counter
  <2> QED  BY <1>2, <2>1, <2>2, <2>3 DEF Stored, Counter
<1>3. CASE n >= Half /\ n < 2 * Half - 1
  <2>1. Incremented(n) = n + 1 /\ n + 1 \in Counter
    BY <1>3, IncrementedCases DEF Counter
  <2>2. IdOf(n) = n - Half /\ IdOf(n + 1) = n + 1 - Half
    BY <1>3, <2>1, IdOfCases DEF Counter
  <2> QED  BY <1>3, <2>1, <2>2 DEF Stored, Counter
<1>4. CASE n = 2 * Half - 1
  <2>1. Incremented(n) = 0 /\ 0 \in Counter /\ 1 \in Counter
    BY <1>4, IncrementedCases DEF Counter
  <2>2. Incremented(0) = 1
    BY <2>1, IncrementedCases DEF Counter
  <2>3. IdOf(n) = Half - 1 /\ IdOf(0) = 0 /\ IdOf(1) = 1
    BY <1>4, <2>1, IdOfCases DEF Counter
  <2> QED  BY <1>4, <2>1, <2>2, <2>3 DEF Stored, Counter
<1> QED  BY <1>1, <1>2, <1>3, <1>4 DEF Counter

-----------------------------------------------------------------------------

(* Who may touch the object and the counter, and that nobody draws an id     *)
(* before the object exists.                                                 *)
Guarded ==
  /\ \A t \in Threads : pc[t] \in Holding => mutex = t
  /\ \A t \in Threads : pc[t] = "store" => loaded[t] = counter
  /\ \A t \in Threads : pc[t] \in {"map", "increment", "load", "store"} => object # "none"
  /\ \A p \in Procs : once[p] = "done" => object # "none"

(* No id is out before the counter is stored, and afterwards none beyond the *)
(* counter.                                                                  *)
Behind ==
  /\ object = "none" => issued = {}
  /\ \A t \in Threads : pc[t] \in {"truncate", "store1"} => issued = {}
  /\ \A r \in issued : r.n <= calls /\ r.id \in 1 .. Half - 1
  /\ \A r \in issued : r.round < round \/ (r.round = round /\ r.id <= IdOf(counter))

IInv == TypeOK /\ Guarded /\ Behind /\ IdsDiffer

(* The steps of one thread that leave counter and history alone, and the     *)
(* ends of processes.                                                        *)
QuietStep ==
  \/ \E t \in Threads : \/ Call(t) \/ CallOnce(t) \/ Lock(t) \/ Open(t)
                        \/ Create(t) \/ Truncate(t) \/ Map(t) \/ Load(t)
                        \/ Throw(t)
  \/ \E p \in Procs : Die(p)

LEMMA TypeQuiet == TypeOK /\ QuietStep => TypeOK'
<1> SUFFICES ASSUME TypeOK, QuietStep PROVE TypeOK'
  OBVIOUS
<1> USE ConstantsAssumption DEF TypeOK, Holding, history
<1>1. ASSUME NEW t \in Threads, Call(t) \/ CallOnce(t) \/ Lock(t)
      PROVE  TypeOK'
  BY <1>1 DEF Call, CallOnce, Lock
<1>2. ASSUME NEW t \in Threads, Open(t) \/ Create(t) \/ Truncate(t) \/ Map(t)
      PROVE  TypeOK'
  BY <1>2 DEF Open, Create, Truncate, Map
<1>3. ASSUME NEW t \in Threads, Load(t) \/ Throw(t)
      PROVE  TypeOK'
  BY <1>3 DEF Load, Throw, Kill
<1>4. ASSUME NEW p \in Procs, Die(p)
      PROVE  TypeOK'
  BY <1>4 DEF Die, Kill
<1> QED  BY <1>1, <1>2, <1>3, <1>4 DEF QuietStep

LEMMA GuardedQuiet == TypeOK /\ Guarded /\ QuietStep => Guarded'
<1> SUFFICES ASSUME TypeOK, Guarded, QuietStep PROVE Guarded'
  OBVIOUS
<1> USE ConstantsAssumption DEF TypeOK, Holding, history, Guarded
<1>1. ASSUME NEW t \in Threads, Call(t) \/ CallOnce(t) \/ Lock(t)
      PROVE  Guarded'
  BY <1>1 DEF Call, CallOnce, Lock
<1>2. ASSUME NEW t \in Threads, Open(t) \/ Create(t) \/ Truncate(t) \/ Map(t)
      PROVE  Guarded'
  BY <1>2 DEF Open, Create, Truncate, Map
<1>3. ASSUME NEW t \in Threads, Load(t) \/ Throw(t)
      PROVE  Guarded'
  BY <1>3 DEF Load, Throw, Kill
<1>4. ASSUME NEW p \in Procs, Die(p)
      PROVE  Guarded'
  BY <1>4 DEF Die, Kill
<1> QED  BY <1>1, <1>2, <1>3, <1>4 DEF QuietStep

LEMMA BehindQuiet == TypeOK /\ Behind /\ IdsDiffer /\ QuietStep => Behind' /\ IdsDiffer'
<1> SUFFICES ASSUME TypeOK, Behind, IdsDiffer, QuietStep PROVE Behind' /\ IdsDiffer'
  OBVIOUS
<1>1. counter' = counter /\ calls' = calls /\ round' = round /\ issued' = issued
  BY DEF QuietStep, Call, CallOnce, Lock, Open, Create, Truncate, Map, Load,
         Throw, Die, history
<1>2. IdsDiffer'
  BY <1>1 DEF IdsDiffer
<1>3. object' = "none" => object = "none"
  BY DEF QuietStep, Call, CallOnce, Lock, Open, Create, Truncate, Map, Load,
         Throw, Die
<1>4. \A u \in Threads : pc'[u] \in {"truncate", "store1"} => issued = {}
  <2> USE DEF TypeOK, Behind
  <2>1. ASSUME NEW t \in Threads, Call(t) \/ CallOnce(t) \/ Lock(t) \/ Open(t)
        PROVE  \A u \in Threads : pc'[u] \in {"truncate", "store1"} => issued = {}
    BY <2>1 DEF Call, CallOnce, Lock, Open
  <2>2. ASSUME NEW t \in Threads, Create(t) \/ Truncate(t) \/ Map(t) \/ Load(t)
        PROVE  \A u \in Threads : pc'[u] \in {"truncate", "store1"} => issued = {}
    BY <2>2 DEF Create, Truncate, Map, Load
  <2>3. ASSUME NEW p \in Procs, Kill(p)
        PROVE  \A u \in Threads : pc'[u] \in {"truncate", "store1"} => issued = {}
    BY <2>3 DEF Kill
  <2>4. ASSUME NEW t \in Threads, Throw(t)
        PROVE  \A u \in Threads : pc'[u] \in {"truncate", "store1"} => issued = {}
    BY <2>3, <2>4, ConstantsAssumption DEF Throw
  <2>5. ASSUME NEW p \in Procs, Die(p)
        PROVE  \A u \in Threads : pc'[u] \in {"truncate", "store1"} => issued = {}
    BY <2>3, <2>5 DEF Die
  <2> HIDE DEF TypeOK, Behind
  <2> QED  BY <2>1, <2>2, <2>4, <2>5, Zenon DEF QuietStep
<1> QED  BY <1>1, <1>2, <1>3, <1>4 DEF Behind

(* The first id. *)
LEMMA Store1Step ==
  ASSUME IInv, NEW t \in Threads, Store1(t)
  PROVE  IInv'
<1> USE ConstantsAssumption DEF IInv
<1>1. 1 \in Counter /\ IdOf(1) = 1
  BY IdOfCases DEF Counter
<1>2. issued = {}
  BY DEF Store1, Behind
<1>3. issued' = {[n |-> calls + 1, id |-> 1, round |-> round]}
  BY <1>2 DEF Store1, Issue
<1>4. TypeOK'
  <2>1. calls' \in Nat /\ round' \in Nat /\ counter' \in Counter
    BY <1>1 DEF TypeOK, Store1, Issue
  <2>2. issued' \in SUBSET [n : Nat, id : Nat, round : Nat]
    BY <1>3 DEF TypeOK
  <2>3. /\ pc' \in [Threads -> {"idle", "once", "init", "map", "increment", "dead"} \cup Holding]
        /\ once' \in [Procs -> {"no", "running", "done"}]
    BY DEF TypeOK, Store1, Holding
  <2> QED  BY <2>1, <2>2, <2>3 DEF TypeOK, Store1
<1>5. Guarded'
  BY DEF Guarded, Store1, TypeOK, Holding
<1>6. Behind'
  BY <1>1, <1>3 DEF Behind, Guarded, Store1, Issue, TypeOK, Holding
<1>7. IdsDiffer'
  BY <1>3 DEF IdsDiffer
<1> QED  BY <1>4, <1>5, <1>6, <1>7

(* Every other id. *)
LEMMA StoreStep ==
  ASSUME IInv, NEW t \in Threads, Store(t)
  PROVE  IInv'
<1> USE ConstantsAssumption DEF IInv
<1>1. loaded[t] = counter /\ counter \in Counter /\ mutex = t /\ object # "none"
  BY DEF Store, Guarded, TypeOK, Holding
<1>2. /\ counter' \in Counter /\ IdOf(counter') \in 1 .. Half - 1
      /\ issued' = issued \cup {[n |-> calls + 1, id |-> IdOf(counter'), round |-> round']}
      /\ \/ round' = round /\ IdOf(counter') = IdOf(counter) + 1
         \/ round' = round + 1
      /\ round' \in Nat /\ calls' = calls + 1
  BY <1>1, StoredCases DEF Store, Issue, TypeOK
<1>3. TypeOK'
  BY <1>2 DEF TypeOK, Store, Holding
<1>4. Guarded'
  BY <1>1 DEF Guarded, Store, TypeOK, Holding
<1>5. \A r \in issued : r.n <= calls /\ r.n \in Nat /\ r.round \in Nat /\ r.id \in Nat
  BY DEF Behind, TypeOK
<1>6. \A r \in issued : r.round < round' \/ (r.round = round' /\ r.id < IdOf(counter'))
  BY <1>1, <1>2, <1>5, StoredCases DEF Behind, TypeOK
<1>7. Behind'
  <2>1. object' # "none" /\ \A u \in Threads : pc'[u] \notin {"truncate", "store1"}
    BY <1>1 DEF Store, Guarded, TypeOK, Holding
  <2>2. calls \in Nat
    BY DEF TypeOK
  <2> QED  BY <1>2, <1>5, <1>6, <2>1, <2>2 DEF Behind
<1>8. IdsDiffer'
  BY <1>2, <1>5, <1>6 DEF IdsDiffer
<1> QED  BY <1>3, <1>4, <1>7, <1>8

LEMMA InvariantStep == IInv /\ [Next]_vars => IInv'
<1> SUFFICES ASSUME IInv, [Next]_vars PROVE IInv'
  OBVIOUS
<1>1. CASE QuietStep
  BY <1>1, TypeQuiet, GuardedQuiet, BehindQuiet DEF IInv
<1>2. CASE \E t \in Threads : Store1(t)
  BY <1>2, Store1Step
<1>3. CASE \E t \in Threads : Store(t)
  BY <1>3, StoreStep
<1>4. CASE UNCHANGED vars
  BY <1>4 DEF vars, history, IInv, TypeOK, Guarded, Behind, IdsDiffer
<1> QED  BY <1>1, <1>2, <1>3, <1>4 DEF Next, QuietStep

LEMMA InvariantInit == Init => IInv
<1> SUFFICES ASSUME Init PROVE IInv
  OBVIOUS
<1>1. TypeOK
  <2>1. loaded \in [Threads -> Counter] /\ counter \in Counter
    BY ConstantsAssumption DEF Init, Counter
  <2>2. failed \in BOOLEAN
    BY DEF Init
  <2> QED  BY <2>1, <2>2 DEF Init, TypeOK
<1>2. Guarded
  BY ConstantsAssumption DEF Init, Guarded, Holding
<1>3. Behind /\ IdsDiffer
  BY DEF Init, Behind, IdsDiffer
<1> QED  BY <1>1, <1>2, <1>3 DEF IInv

(* No two calls of generate_pool_id(), in whatever threads and processes,    *)
(* return the same id unless the ids started again in between: for any width *)
(* of the counter, also when processes are killed or abort in the middle.    *)
THEOREM IdsAlwaysDiffer == Spec => [](TypeOK /\ IdsDiffer)
<1>1. IInv => TypeOK /\ IdsDiffer
  BY DEF IInv
<1> QED  BY <1>1, InvariantInit, InvariantStep, PTL DEF Spec

-----------------------------------------------------------------------------

(* An object that exists without a counter belongs to the thread that is     *)
(* making it, which has the mutex, dead or alive.                            *)
Made ==
  /\ \A p \in Procs : once[p] = "done" => object = "set"
  /\ \A t \in Threads : /\ pc[t] = "truncate" => object = "created"
                        /\ pc[t] = "store1" => object = "sized"
  /\ object \in {"created", "sized"} =>
       mutex \in Threads /\ pc[mutex] \in {"truncate", "store1", "dead"}

(* Every id up to the counter's has been drawn in this round, and every id   *)
(* in the rounds before.                                                     *)
Complete ==
  /\ object # "set" => round = 0
  /\ \A k \in 0 .. round - 1 : \A i \in 1 .. Half - 1 :
       \E r \in issued : r.id = i /\ r.round = k
  /\ object = "set" => \A i \in 1 .. IdOf(counter) :
       \E r \in issued : r.id = i /\ r.round = round

LEMMA MadeStep ==
  ASSUME ~failed', IInv, IInv', Made, OpenedIsInitialised, Next
  PROVE  Made' /\ OpenedIsInitialised'
<1> USE ConstantsAssumption
    DEF IInv, TypeOK, Holding, history, Guarded, Made, OpenedIsInitialised, Opened
<1>1. ASSUME NEW t \in Threads, Call(t) \/ CallOnce(t)
      PROVE  Made' /\ OpenedIsInitialised'
  BY <1>1 DEF Call, CallOnce
<1>2. ASSUME NEW t \in Threads, Lock(t)
      PROVE  Made' /\ OpenedIsInitialised'
  BY <1>2 DEF Lock
<1>3. ASSUME NEW t \in Threads, Open(t)
      PROVE  Made' /\ OpenedIsInitialised'
  BY <1>3 DEF Open
<1>4. ASSUME NEW t \in Threads, Create(t) \/ Truncate(t)
      PROVE  Made' /\ OpenedIsInitialised'
  BY <1>4 DEF Create, Truncate
<1>5. ASSUME NEW t \in Threads, Map(t) \/ Load(t)
      PROVE  Made' /\ OpenedIsInitialised'
  BY <1>5 DEF Map, Load
<1>6. ASSUME NEW t \in Threads, Store1(t)
      PROVE  Made' /\ OpenedIsInitialised'
  BY <1>6 DEF Store1
<1>7. ASSUME NEW t \in Threads, Store(t)
      PROVE  Made' /\ OpenedIsInitialised'
  BY <1>7 DEF Store
<1>8. ASSUME NEW p \in Procs, Die(p)
      PROVE  Made' /\ OpenedIsInitialised'
  BY <1>8 DEF Die, Kill
<1>9. ~ \E t \in Threads : Throw(t)
  BY DEF Throw
<1> HIDE DEF IInv, Made, OpenedIsInitialised
<1> QED  BY <1>1, <1>2, <1>3, <1>4, <1>5, <1>6, <1>7, <1>8, <1>9 DEF Next

LEMMA CompleteStep ==
  ASSUME ~failed, IInv, Made, OpenedIsInitialised, Complete, Next
  PROVE  Complete'
<1> USE ConstantsAssumption
<1>1. CASE QuietStep
  <2>1. counter' = counter /\ round' = round /\ issued' = issued
    BY <1>1 DEF QuietStep, Call, CallOnce, Lock, Open, Create, Truncate, Map,
                Load, Throw, Die, history
  <2>2. object' = "set" <=> object = "set"
    <3>1. CASE \E t \in Threads : Create(t) \/ Truncate(t)
      BY <3>1 DEF Create, Truncate, Made
    <3>2. CASE object' = object
      BY <3>2
    <3> QED  BY <1>1, <3>1, <3>2 DEF QuietStep, Call, CallOnce, Lock, Open, Map,
                                     Load, Throw, Die
  <2> QED  BY <2>1, <2>2 DEF Complete
<1>2. ASSUME NEW t \in Threads, Store1(t)
      PROVE  Complete'
  <2>1. 1 \in Counter /\ IdOf(1) = 1 /\ counter' = 1 /\ object' = "set"
    BY <1>2, IdOfCases DEF Counter, Store1
  <2>2. round = 0 /\ round' = 0
    BY <1>2 DEF Store1, Issue, Made, Complete
  <2>3. issued' = {[n |-> calls + 1, id |-> 1, round |-> 0]}
    BY <1>2, <2>2 DEF Store1, Issue, IInv, Behind
  <2>4. IdOf(counter') = 1
    BY <2>1
  <2>5. \E r \in issued' : r.id = 1 /\ r.round = 0
    BY <2>3
  <2> QED  BY <2>1, <2>2, <2>4, <2>5 DEF Complete
<1>3. ASSUME NEW t \in Threads, Store(t)
      PROVE  Complete'
  <2>1. loaded[t] = counter /\ counter \in Counter /\ object = "set" /\ object' = "set"
    BY <1>3 DEF Store, IInv, Guarded, TypeOK, Holding, OpenedIsInitialised, Opened
  <2>2. round \in Nat /\ IdOf(counter) \in 0 .. Half - 1
    BY <2>1, StoredCases DEF IInv, TypeOK
  <2>3. issued' = issued \cup {[n |-> calls + 1, id |-> IdOf(counter'), round |-> round']}
    BY <1>3, <2>1, StoredCases DEF Store, Issue
  <2>4. /\ \A r \in issued : r \in issued'
        /\ \E r \in issued' : r.id = IdOf(counter') /\ r.round = round'
    <3> DEFINE drawn == [n |-> calls + 1, id |-> IdOf(counter'), round |-> round']
    <3>1. drawn.id = IdOf(counter') /\ drawn.round = round'
      OBVIOUS
    <3>2. drawn \in issued' /\ \A r \in issued : r \in issued'
      BY <2>3
    <3> QED  BY <3>1, <3>2, Zenon
  <2>5. CASE IdOf(Incremented(counter)) # 0
    <3>1. IdOf(counter') = IdOf(counter) + 1 /\ round' = round
      BY <1>3, <2>1, <2>5, StoredCases DEF Store, Issue
    <3>4. \A i \in 1 .. IdOf(counter') : \E r \in issued' : r.id = i /\ r.round = round'
      BY <2>1, <2>2, <2>4, <3>1 DEF Complete
    <3>5. \A k \in 0 .. round' - 1 : \A i \in 1 .. Half - 1 :
            \E r \in issued' : r.id = i /\ r.round = k
      BY <2>4, <3>1 DEF Complete
    <3> QED  BY <2>1, <3>4, <3>5 DEF Complete
  <2>6. CASE IdOf(Incremented(counter)) = 0
    <3>1. IdOf(counter') = 1 /\ IdOf(counter) = Half - 1 /\ round' = round + 1
      BY <1>3, <2>1, <2>6, StoredCases DEF Store, Issue
    <3>3. \A i \in 1 .. IdOf(counter') : \E r \in issued' : r.id = i /\ r.round = round'
      BY <2>4, <3>1
    <3>4. \A k \in 0 .. round' - 1 : k = round \/ k \in 0 .. round - 1
      BY <2>2, <3>1
    <3>5. \A k \in 0 .. round' - 1 : \A i \in 1 .. Half - 1 :
            \E r \in issued : r.id = i /\ r.round = k
      BY <2>1, <3>1, <3>4 DEF Complete
    <3> QED  BY <2>1, <2>4, <3>3, <3>5 DEF Complete
  <2> QED  BY <2>5, <2>6
<1> QED  BY <1>1, <1>2, <1>3 DEF Next, QuietStep

(* A failure is not forgotten. *)
LEMMA FailedStep == [Next]_vars /\ failed => failed'
BY DEF Next, vars, history, Call, CallOnce, Lock, Open, Create, Truncate, Store1,
       Map, Load, Store, Throw, Die

(* Unless a bipc operation fails while the counter is being made, no process *)
(* ever reads a counter that was not stored, and ids start again from 1 only *)
(* when all of them have been used, also when processes are killed.          *)
LEMMA CounterIsSound == Spec => [](OpenedIsInitialised /\ AllIdsUsedFirst)
<1> DEFINE Sound == Made /\ OpenedIsInitialised /\ Complete
           J == IInv /\ (~failed => Sound)
<1>1. Init => J
  <2>1. Init => Sound
    BY ConstantsAssumption DEF Init, Made, OpenedIsInitialised, Opened, Complete
  <2> QED  BY <2>1, InvariantInit
<1>2. J /\ [Next]_vars => J'
  <2>1. CASE UNCHANGED vars
    BY <2>1 DEF vars, history, IInv, TypeOK, Guarded, Behind, IdsDiffer, Made,
                OpenedIsInitialised, Opened, Complete
  <2>2. CASE Next
    BY <2>2, InvariantStep, MadeStep, CompleteStep, FailedStep
  <2> QED  BY <2>1, <2>2
<1>3. J => OpenedIsInitialised /\ AllIdsUsedFirst
  BY DEF IInv, Behind, Complete, AllIdsUsedFirst, OpenedIsInitialised
<1> HIDE DEF J
<1> QED  BY <1>1, <1>2, <1>3, PTL DEF Spec

(* Whoever has opened the counter's object finds a counter that was stored,  *)
(* unless a bipc operation failed while it was being made.                   *)
THEOREM OpenedAlwaysInitialised == Spec => []OpenedIsInitialised
BY CounterIsSound, PTL

(* Ids start again from 1 only when all of them have been used, for any      *)
(* width of the counter.                                                     *)
THEOREM AllIdsAlwaysUsedFirst == Spec => []AllIdsUsedFirst
BY CounterIsSound, PTL

-----------------------------------------------------------------------------
(* The bits: OffsetPtr. *)

(* A number in base n has its last digit as remainder. *)
LEMMA DivMod ==
  ASSUME NEW n \in Nat \ {0}, NEW k \in Int, NEW r \in 0..(n - 1)
  PROVE  (k * n + r) \div n = k /\ (k * n + r) % n = r
PROOF OBVIOUS

(* Every number has a last digit. *)
LEMMA DivModOf ==
  ASSUME NEW n \in Nat \ {0}, NEW x \in Int
  PROVE  /\ x \div n \in Int /\ x % n \in 0..(n - 1)
         /\ x = (x \div n) * n + (x % n)
PROOF OBVIOUS

(* A multiple of the base does not change the lowest digit. *)
LEMMA ModPlus ==
  ASSUME NEW n \in Nat \ {0}, NEW k \in Int, NEW x \in Int
  PROVE  (k * n + x) % n = x % n
PROOF
<1>1. PICK q \in Int, r \in 0..(n - 1) : x = q * n + r
  BY DivModOf
<1>2. k * n + x = (k + q) * n + r
  BY <1>1
<1>3. k + q \in Int
  OBVIOUS
<1>4. ((k + q) * n + r) % n = r /\ (q * n + r) % n = r
  BY <1>3, DivMod
<1> QED
  BY <1>1, <1>2, <1>4

(* The selector bit and the offset's sign bit split their ranges in half. *)
LEMMA Sizes ==
  /\ OffCount \in Nat /\ OffCount >= 4 /\ OffCount = 2 * (OffCount \div 2) /\ OffCount \div 2 \in Nat
  /\ SelectorBit \in Nat /\ SelectorBit >= 2 * OffCount
  /\ SelectorBit = 2 * (SelectorBit \div 2) /\ SelectorBit \div 2 \in Nat
  /\ RepCount = 2 * SelectorBit
  /\ RepCount \div 4 = SelectorBit \div 2
PROOF
<1>1. /\ OffCount \in Nat /\ OffCount >= 4 /\ OffCount = 2 * (OffCount \div 2) /\ OffCount \div 2 \in Nat
      /\ IdCount \in Nat /\ IdCount >= 2
  BY PointersAssumption
<1> DEFINE h == OffCount \div 2
<1>2. SelectorBit \in Nat /\ SelectorBit = 2 * (IdCount * h) /\ IdCount * h \in Nat
  BY <1>1 DEF SelectorBit
<1>3. SelectorBit >= 2 * OffCount
  BY <1>1 DEF SelectorBit
<1>4. RepCount = 2 * SelectorBit
  BY <1>1 DEF SelectorBit, RepCount
<1> DEFINE S == SelectorBit
           g == IdCount * h
<1>5. S \div 2 = g /\ (2 * S) \div 4 = g
  <2> HIDE DEF g
  <2> QED BY <1>2 DEF g
<1> QED
  BY <1>1, <1>2, <1>3, <1>4, <1>5

(* Pools lie between the lowest offset and the end of the user's half. *)
LEMMA PlacesAreLow ==
  \A a \in Places : a \in Nat /\ a > OffCount \div 2 /\ a + OffCount < RepCount \div 4
PROOF
  BY PointersAssumption

(* The fields of an offset pointer are what was put into them. *)
LEMMA Fields ==
  ASSUME NEW id \in PoolIds, NEW o \in 0..(OffCount - 1),
         NEW rep, rep = SelectorBit + id * OffCount + o
  PROVE  /\ rep \in SelectorBit..(RepCount - 1) /\ rep # 0
         /\ Selector(rep) = 1 /\ IdField(rep) = id /\ rep % OffCount = o
PROOF
<1> USE Sizes
<1> DEFINE S == SelectorBit
           r == id * OffCount + o
<1>1. id \in 1..(IdCount - 1) /\ IdCount \in Nat /\ OffCount \in Nat \ {0}
  BY PointersAssumption
<1>2. id * OffCount \in Nat /\ id * OffCount <= (IdCount - 1) * OffCount
  BY <1>1
<1>3. (IdCount - 1) * OffCount = S - OffCount
  BY <1>1 DEF SelectorBit
<1>4. r \in 0..(S - 1) /\ rep = 1 * S + r /\ S \in Nat \ {0}
  BY <1>2, <1>3
<1>5. rep \in S..(RepCount - 1) /\ rep # 0
  <2> HIDE DEF r, S
  <2> QED BY <1>4 DEF S
<1>6. rep \div S = 1 /\ rep % S = r
  <2> HIDE DEF r, S
  <2>1. (1 * S + r) \div S = 1 /\ (1 * S + r) % S = r
    BY <1>4, DivMod
  <2> QED
    BY <1>4, <2>1
<1>7. r \div OffCount = id
  BY <1>1, DivMod
<1>8. rep = (IdCount + id) * OffCount + o
  BY <1>1 DEF SelectorBit
<1>9. rep % OffCount = o
  <2>1. IdCount + id \in Int
    BY <1>1
  <2>2. ((IdCount + id) * OffCount + o) % OffCount = o
    BY <1>1, <2>1, DivMod
  <2> QED
    BY <1>8, <2>2
<1> QED
  BY <1>5, <1>6, <1>7, <1>9 DEF Selector, IdField

(* Two's complement of an offset gives the offset back. *)
LEMMA SignedOfOffset ==
  ASSUME NEW off \in -(OffCount \div 2)..MaxOffset
  PROVE  off % OffCount \in 0..(OffCount - 1) /\ Signed(off % OffCount) = off
PROOF
<1> USE Sizes
<1>1. CASE off >= 0
  <2>1. off = 0 * OffCount + off /\ off \in 0..(OffCount - 1)
    BY <1>1 DEF MaxOffset
  <2>2. off % OffCount = off
    BY <2>1, DivMod
  <2> QED
    BY <2>1, <2>2 DEF Signed, MaxOffset
<1>2. CASE off < 0
  <2>1. off = (-1) * OffCount + (off + OffCount) /\ off + OffCount \in 0..(OffCount - 1)
    BY <1>2 DEF MaxOffset
  <2>2. off % OffCount = off + OffCount
    BY <2>1, DivMod
  <2> QED
    BY <1>2, <2>1, <2>2 DEF Signed, MaxOffset
<1> QED
  BY <1>1, <1>2 DEF MaxOffset

(* A raw address comes back from the bits below the selector. *)
LEMMA RawOfCanonical ==
  ASSUME NEW a, Canonical(a)
  PROVE  /\ a \in 0..(RepCount - 1)
         /\ RawRep(a) \in 0..(SelectorBit - 1)
         /\ RawAddress(RawRep(a)) = a
         /\ Selector(RawRep(a)) = 0
         /\ RawRep(a) = 0 <=> a = 0
         /\ RawRep(a) = IF a < SelectorBit THEN a ELSE a - SelectorBit
PROOF
<1> USE Sizes
<1> DEFINE S == SelectorBit
           h == S \div 2
<1>1. S \in Nat \ {0} /\ S = 2 * h /\ h \in Nat \ {0}
  OBVIOUS
<1>2. a \in 0..(h - 1) \cup (3 * h)..(2 * S - 1)
  BY DEF Canonical
<1> HIDE DEF h
<1>3. ASSUME a \in 0..(h - 1)
      PROVE  /\ RawRep(a) = a /\ a \in 0..(S - 1)
             /\ a \in 0..(2 * S - 1) /\ a < S
             /\ RawAddress(a) = a
  <2>1. a = 0 * S + a /\ a \in 0..(S - 1)
    BY <1>1, <1>3
  <2>2. RawRep(a) = a
    BY <1>1, <2>1, DivMod DEF RawRep
  <2> QED
    BY <1>1, <1>3, <2>2 DEF RawAddress, h
<1>4. ASSUME a \in (3 * h)..(2 * S - 1)
      PROVE  /\ RawRep(a) = a - S /\ a - S \in 0..(S - 1)
             /\ a \in 0..(2 * S - 1) /\ a > S
             /\ RawAddress(a - S) = a
  <2> DEFINE r == a - S
  <2>1. a = 1 * S + r /\ r \in 0..(S - 1)
    BY <1>1, <1>4
  <2>2. (1 * S + r) % S = r
    <3> HIDE DEF r, S
    <3> QED BY <1>1, <2>1, DivMod
  <2>3. RawRep(a) = a - S
    BY <2>1, <2>2 DEF RawRep
  <2> QED
    BY <1>1, <1>4, <2>3 DEF RawAddress, h
<1>5. ASSUME NEW r \in 0..(S - 1)
      PROVE  Selector(r) = 0
  <2>1. r = 0 * S + r
    BY <1>1
  <2> QED
    BY <1>1, <2>1, DivMod DEF Selector
<1> QED
  BY <1>1, <1>2, <1>3, <1>4, <1>5

-----------------------------------------------------------------------------
(* The invariant. *)

Meanings == [kind : {"object", "address", "overflowed"}, pool : PoolIds \cup {0}, at : Int]

Typed ==
  /\ at \in [Processes -> [PoolIds -> {0} \cup Places]]
  /\ ptr \in [Slots -> [proc : Processes, raw : BOOLEAN, rep : 0..(RepCount - 1)]]
  /\ meaning \in [Slots -> Meanings]

(* The pools of a process do not overlap. *)
Disjoint ==
  \A p \in Processes : \A i, j \in Known(p) :
    i # j => at[p][i] + Size[i] <= at[p][j] \/ at[p][j] + Size[j] <= at[p][i]

(* The bits of a pointer are those of what it means. *)
Means(x, m) ==
  \/ /\ m.kind = "object" /\ m.pool \in PoolIds
     /\ m.at \in -(OffCount \div 2)..MaxOffset
     /\ x.rep = OffsetRep(m.pool, m.at)
  \/ /\ m = Address(m.at) /\ Canonical(m.at)
     /\ x.raw \/ m.at = 0
     /\ x.rep = RawRep(m.at)

Represented == \A s \in Slots : Promised(s) => Means(ptr[s], meaning[s])

(* An offset pointer that is not null has the selector and the id of a pool, *)
(* also when its offset has overflowed.                                      *)
HasPool(rep) == \E i \in PoolIds, o \in 0..(OffCount - 1) : rep = SelectorBit + i * OffCount + o

OffsetForm == \A s \in Slots : ~ptr[s].raw /\ ptr[s].rep # 0 => HasPool(ptr[s].rep)

PointersInv == Typed /\ Disjoint /\ Represented /\ OffsetForm

-----------------------------------------------------------------------------
(* The operators. *)

(* get() of a pointer is the native address of what it means. *)
LEMMA GetMeans ==
  ASSUME Typed, NEW p \in Processes, NEW x, NEW m, x.proc = p, Means(x, m)
  PROVE  Get(x) = NativeAddress(m, p)
PROOF
<1>1. CASE /\ m.kind = "object" /\ m.pool \in PoolIds
           /\ m.at \in -(OffCount \div 2)..MaxOffset
           /\ x.rep = OffsetRep(m.pool, m.at)
  <2> DEFINE o == m.at % OffCount
  <2>1. o \in 0..(OffCount - 1) /\ Signed(o) = m.at
    BY <1>1, SignedOfOffset
  <2>2. x.rep = SelectorBit + m.pool * OffCount + o
    BY <1>1 DEF OffsetRep
  <2>3. x.rep # 0 /\ Selector(x.rep) = 1 /\ IdField(x.rep) = m.pool /\ x.rep % OffCount = o
    <3> HIDE DEF o
    <3> QED BY <1>1, <2>1, <2>2, Fields
  <2>4. OffsetField(x.rep) = m.at
    BY <2>1, <2>3 DEF OffsetField
  <2>5. Get(x) = ToAddress(p, m.pool, m.at)
    BY <2>3, <2>4 DEF Get
  <2> QED
    BY <1>1, <2>5 DEF ToAddress, NativeAddress
<1>2. CASE /\ m = Address(m.at) /\ Canonical(m.at)
           /\ x.raw \/ m.at = 0
           /\ x.rep = RawRep(m.at)
  <2>1. m.kind = "address"
    BY <1>2 DEF Address
  <2>2. NativeAddress(m, p) = m.at
    BY <2>1 DEF NativeAddress
  <2>3. CASE m.at = 0
    BY <1>2, <2>2, <2>3, RawOfCanonical DEF Get
  <2>4. CASE m.at # 0
    <3>1. /\ x.rep # 0 /\ x.raw /\ Selector(x.rep) = 0
          /\ RawAddress(x.rep) = m.at
      BY <1>2, <2>4, RawOfCanonical
    <3> QED
      BY <2>2, <3>1 DEF Get
  <2> QED
    BY <2>3, <2>4
<1> QED
  BY <1>1, <1>2 DEF Means

(* What a pointer means is a canonical address in every process. *)
LEMMA NativeIsCanonical ==
  ASSUME Typed, NEW p \in Processes, NEW x, NEW m, Means(x, m)
  PROVE  Canonical(NativeAddress(m, p))
PROOF
<1>1. CASE /\ m.kind = "object" /\ m.pool \in PoolIds
           /\ m.at \in -(OffCount \div 2)..MaxOffset
  <2>1. Canonical(0)
    BY Sizes DEF Canonical
  <2>2. CASE at[p][m.pool] = 0
    BY <1>1, <2>1, <2>2 DEF NativeAddress
  <2>3. CASE at[p][m.pool] # 0
    <3> DEFINE b == at[p][m.pool]
    <3>1. b \in Places
      BY <1>1, <2>3 DEF Typed
    <3>2. b \in Nat /\ b > OffCount \div 2 /\ b + OffCount < RepCount \div 4
      BY <3>1, PlacesAreLow
    <3>3. b + m.at \in 0..(RepCount \div 4 - 1)
      BY <1>1, <3>2, Sizes DEF MaxOffset
    <3>4. NativeAddress(m, p) = b + m.at
      BY <1>1, <2>3 DEF NativeAddress
    <3> QED
      BY <3>3, <3>4 DEF Canonical
  <2> QED
    BY <2>2, <2>3
<1>2. CASE m = Address(m.at) /\ Canonical(m.at)
  <2>1. m.kind = "address"
    BY <1>2 DEF Address
  <2> QED
    BY <1>2, <2>1 DEF NativeAddress
<1> QED
  BY <1>1, <1>2 DEF Means

(* The pool that from_address() finds is the one that has the address. *)
LEMMA FromAddressFinds ==
  ASSUME Typed, Disjoint, NEW p \in Processes, NEW a \in Int
  PROVE  /\ \A i \in Known(p) :
              a \in at[p][i]..(at[p][i] + Size[i] - 1)
                => FromAddress(p, a) = [id |-> i, off |-> a - at[p][i]]
         /\ ~(\E i \in Known(p) : a \in at[p][i]..(at[p][i] + Size[i] - 1))
                => FromAddress(p, a).id = 0
PROOF
<1> DEFINE below == {i \in Known(p) : at[p][i] <= a}
           found == {i \in below : /\ \A j \in below : at[p][j] <= at[p][i]
                                   /\ a < at[p][i] + Size[i]}
           Has(i) == a \in at[p][i]..(at[p][i] + Size[i] - 1)
<1>1. ASSUME NEW i \in Known(p)
      PROVE  at[p][i] \in Nat /\ Size[i] \in Nat \ {0} /\ i \in PoolIds
  <2>1. i \in PoolIds
    BY <1>1 DEF Known
  <2>2. at[p][i] \in {0} \cup Places
    BY <2>1 DEF Typed
  <2>3. at[p][i] \in Nat
    BY <2>2, PlacesAreLow
  <2>4. Size[i] \in 1..MaxOffset /\ MaxOffset \in Int
    BY <2>1, PointersAssumption, Sizes DEF MaxOffset
  <2> QED
    BY <2>1, <2>3, <2>4
<1>2. \A i \in found : i \in Known(p) /\ Has(i)
  BY <1>1
<1>3. ASSUME NEW i \in Known(p), Has(i)
      PROVE  found = {i}
  <2>1. i \in below
    BY <1>1, <1>3
  <2>2. ASSUME NEW j \in below, at[p][j] > at[p][i]
        PROVE  FALSE
    <3>1. at[p][j] <= a /\ j # i /\ a < at[p][i] + Size[i]
      BY <1>1, <1>3, <2>2
    <3>2. at[p][i] + Size[i] <= at[p][j] \/ at[p][j] + Size[j] <= at[p][i]
      BY <3>1 DEF Disjoint
    <3> QED
      BY <1>1, <2>2, <3>1, <3>2
  <2>3. i \in found
    BY <1>1, <1>3, <2>1, <2>2
  <2>4. ASSUME NEW j \in found, j # i
        PROVE  FALSE
    <3>1. at[p][i] + Size[i] <= at[p][j] \/ at[p][j] + Size[j] <= at[p][i]
      BY <1>3, <2>4 DEF Disjoint
    <3> QED
      BY <1>1, <1>2, <1>3, <2>4, <3>1
  <2> QED
    BY <2>3, <2>4
<1>4. FromAddress(p, a) = IF found = {} THEN [id |-> 0, off |-> 0]
                          ELSE LET i == CHOOSE i \in found : TRUE
                               IN  [id |-> i, off |-> a - at[p][i]]
  BY DEF FromAddress
<1>5. ASSUME NEW i \in Known(p), Has(i)
      PROVE  FromAddress(p, a) = [id |-> i, off |-> a - at[p][i]]
  <2>1. found = {i}
    BY <1>3, <1>5
  <2> HIDE DEF found
  <2>2. (CHOOSE j \in found : TRUE) = i
    BY <2>1
  <2> QED
    BY <1>4, <2>1, <2>2
<1>6. ASSUME ~(\E i \in Known(p) : Has(i))
      PROVE  FromAddress(p, a).id = 0
  <2>1. found = {}
    BY <1>2, <1>6
  <2> HIDE DEF found
  <2> QED
    BY <1>4, <2>1
<1> QED
  BY <1>5, <1>6

(* The constructor from an address makes the bits of what is there. *)
LEMMA FromVoidMeans ==
  ASSUME Typed, Disjoint, NEW p \in Processes, NEW raw \in BOOLEAN, NEW a, Canonical(a),
         NEW x, x.raw = raw, x.rep = FromVoid(p, raw, a)
  PROVE  /\ Means(x, NativeAt(p, raw, a)) /\ NativeAt(p, raw, a) \in Meanings
         /\ x.rep \in 0..(RepCount - 1)
         /\ ~raw /\ x.rep # 0 => HasPool(x.rep)
PROOF
<1> DEFINE Has(i) == a \in at[p][i]..(at[p][i] + Size[i] - 1)
           m == NativeAt(p, raw, a)
<1> USE Sizes
<1>1. a \in Int /\ a >= 0
  BY RawOfCanonical
<1>2. CASE \E i \in Known(p) : Has(i)
  <2>1. PICK i \in Known(p) : i = (CHOOSE j \in Known(p) : Has(j)) /\ Has(i)
    BY <1>2
  <2> DEFINE off == a - at[p][i]
  <2>2. i \in PoolIds /\ at[p][i] # 0
    BY <2>1 DEF Known
  <2>3. at[p][i] \in Nat /\ at[p][i] > OffCount \div 2 /\ i # 0
    <3>1. at[p][i] \in Places
      BY <2>2 DEF Typed
    <3>2. i # 0
      BY <2>2, PointersAssumption
    <3> QED
      BY <3>1, <3>2, PlacesAreLow
  <2>4. Size[i] \in 1..MaxOffset
    BY <2>2, PointersAssumption
  <2>5. off \in 0..MaxOffset /\ a # 0
    BY <1>1, <2>1, <2>3, <2>4 DEF MaxOffset
  <2>6. m = InPool(i, off)
    BY <1>2, <2>1 DEF NativeAt
  <2>7. FromAddress(p, a) = [id |-> i, off |-> off]
    BY <1>1, <2>1, FromAddressFinds
  <2> HIDE DEF off
  <2>8. x.rep = OffsetRep(i, off)
    BY <2>3, <2>5, <2>7 DEF FromVoid
  <2>9. off \in -(OffCount \div 2)..MaxOffset
    BY <2>5 DEF MaxOffset
  <2>10. off % OffCount \in 0..(OffCount - 1)
    BY <2>9, SignedOfOffset
  <2>11. x.rep = SelectorBit + i * OffCount + (off % OffCount)
    BY <2>8 DEF OffsetRep
  <2>12. HasPool(x.rep)
    BY <2>2, <2>10, <2>11 DEF HasPool
  <2>13. x.rep \in SelectorBit..(RepCount - 1)
    <3> DEFINE o == off % OffCount
    <3> HIDE DEF o
    <3> QED BY <2>2, <2>10, <2>11, Fields DEF o
  <2>14. Means(x, m)
    BY <2>2, <2>6, <2>8, <2>9 DEF Means, InPool
  <2>15. m \in Meanings
    BY <2>2, <2>6, <2>9 DEF InPool, Meanings, MaxOffset
  <2> QED
    BY <2>12, <2>13, <2>14, <2>15
<1>3. CASE ~(\E i \in Known(p) : Has(i))
  <2>1. m = IF raw THEN Address(a) ELSE Address(0)
    BY <1>3 DEF NativeAt
  <2>2. FromAddress(p, a).id = 0
    BY <1>1, <1>3, FromAddressFinds
  <2>3. x.rep = IF a = 0 THEN 0 ELSE IF raw THEN RawRep(a) ELSE 0
    BY <2>2 DEF FromVoid
  <2>4. Canonical(0)
    BY DEF Canonical
  <2>5. RawRep(a) \in 0..(SelectorBit - 1) /\ (a = 0 <=> RawRep(a) = 0) /\ RawRep(0) = 0
    BY <2>4, RawOfCanonical
  <2>6. x.rep \in 0..(RepCount - 1) /\ (~raw => x.rep = 0)
    BY <2>3, <2>5
  <2>7. Means(x, m)
    <3>1. CASE raw
      <4>1. x.rep = RawRep(a) /\ m = Address(a) /\ m.at = a
        BY <2>1, <2>3, <2>5, <3>1 DEF Address
      <4> QED
        BY <3>1, <4>1 DEF Means
    <3>2. CASE ~raw
      <4>1. x.rep = RawRep(0) /\ m = Address(0) /\ m.at = 0
        BY <2>1, <2>3, <2>5, <3>2 DEF Address
      <4> QED
        BY <2>4, <4>1 DEF Means
    <3> QED
      BY <3>1, <3>2
  <2>8. m \in Meanings
    BY <1>1, <2>1 DEF Address, Meanings
  <2> QED
    BY <2>6, <2>7, <2>8
<1> QED
  BY <1>2, <1>3

(* Adding to the offset's digit adds to the offset. *)
LEMMA IncrementOffset ==
  ASSUME NEW id \in PoolIds, NEW off \in -(OffCount \div 2)..MaxOffset,
         NEW bytes \in -(OffCount \div 2)..MaxOffset,
         NEW rep, rep = OffsetRep(id, off)
  PROVE  rep - (rep % OffCount) + ((rep + bytes) % OffCount) = OffsetRep(id, off + bytes)
PROOF
<1> DEFINE O == OffCount
           o == off % O
           q == off \div O
           k == IdCount + id
<1>1. O \in Nat \ {0} /\ off \in Int /\ bytes \in Int /\ k \in Int /\ id \in Int /\ IdCount \in Int
  BY Sizes, PointersAssumption DEF MaxOffset
<1>2. q \in Int /\ o \in 0..(O - 1) /\ off = q * O + o
  BY <1>1, DivModOf
<1>3. SelectorBit + id * O = k * O
  BY <1>1 DEF SelectorBit
<1>4. rep = k * O + o
  BY <1>1, <1>3 DEF OffsetRep
<1> HIDE DEF k, q, o, O
<1>5. rep % O = o
  BY <1>1, <1>2, <1>4, DivMod
<1>6. rep + bytes = (k - q) * O + (off + bytes)
  BY <1>1, <1>2, <1>4
<1>7. (rep + bytes) % O = (off + bytes) % O
  <2>1. k - q \in Int /\ off + bytes \in Int
    BY <1>1, <1>2
  <2>2. ((k - q) * O + (off + bytes)) % O = (off + bytes) % O
    BY <1>1, <2>1, ModPlus
  <2> QED
    BY <1>6, <2>2
<1>8. (off + bytes) % O \in 0..(O - 1)
  BY <1>1
<1>9. OffsetRep(id, off + bytes) = k * O + ((off + bytes) % O)
  BY <1>3 DEF OffsetRep, O
<1>10. rep - o + ((off + bytes) % O) = k * O + ((off + bytes) % O)
  BY <1>1, <1>2, <1>4, <1>8
<1> QED
  BY <1>5, <1>7, <1>9, <1>10 DEF O

(* Arithmetic on the bits does what it does to a native pointer, and keeps *)
(* an offset-only pointer one when its offset overflows.                   *)
LEMMA IncrementMeans ==
  ASSUME NEW x, x.raw \in BOOLEAN, x.rep \in 0..(RepCount - 1),
         NEW m \in Meanings, Means(x, m),
         NEW bytes \in -(OffCount \div 2)..MaxOffset,
         NEW y, y.raw = x.raw, y.rep = Increment(x.raw, x.rep, bytes),
         NEW n, n = NativePlus(m, x.raw, bytes)
  PROVE  /\ n \in Meanings
         /\ y.rep \in 0..(RepCount - 1)
         /\ n # Overflowed => Means(y, n)
         /\ ~x.raw /\ y.rep # 0 => HasPool(y.rep)
PROOF
<1> USE Sizes
<1> DEFINE added == [m EXCEPT !.at = @ + bytes]
<1>1. bytes \in Int /\ m.at \in Int
  BY DEF Meanings, MaxOffset
<1>2. n \in Meanings
  BY <1>1 DEF NativePlus, Meanings, Overflowed
<1>3. added.kind = m.kind /\ added.pool = m.pool /\ added.at = m.at + bytes
  BY DEF Meanings
<1>4. CASE /\ m.kind = "object" /\ m.pool \in PoolIds
           /\ m.at \in -(OffCount \div 2)..MaxOffset
           /\ x.rep = OffsetRep(m.pool, m.at)
  <2> DEFINE o == m.at % OffCount
             o2 == (m.at + bytes) % OffCount
  <2>1. o \in 0..(OffCount - 1) /\ o2 \in 0..(OffCount - 1)
    BY <1>1
  <2>2. x.rep # 0 /\ Selector(x.rep) = 1
    <3>1. x.rep = SelectorBit + m.pool * OffCount + o
      BY <1>4 DEF OffsetRep
    <3> HIDE DEF o
    <3> QED BY <1>4, <2>1, <3>1, Fields
  <2>3. y.rep = OffsetRep(m.pool, m.at + bytes)
    BY <1>4, <2>2, IncrementOffset DEF Increment
  <2>4. y.rep = SelectorBit + m.pool * OffCount + o2
    BY <2>3 DEF OffsetRep
  <2> HIDE DEF o, o2
  <2>5. HasPool(y.rep)
    BY <1>4, <2>1, <2>4 DEF HasPool
  <2>6. y.rep \in SelectorBit..(RepCount - 1)
    BY <1>4, <2>1, <2>4, Fields
  <2>7. ASSUME n # Overflowed
        PROVE  Means(y, n)
    <3>1. m # Address(0)
      BY <1>4 DEF Address
    <3>2. n = added /\ added.at \in -(OffCount \div 2)..MaxOffset
      BY <1>4, <2>7, <3>1 DEF NativePlus
    <3> QED
      BY <1>3, <1>4, <2>3, <3>2 DEF Means
  <2> QED
    BY <1>2, <2>5, <2>6, <2>7
<1>5. CASE m = Address(m.at) /\ Canonical(m.at) /\ ~x.raw /\ m.at = 0 /\ x.rep = RawRep(m.at)
  <2>1. x.rep = 0
    BY <1>5, RawOfCanonical
  <2>2. y.rep = 0
    BY <1>5, <2>1 DEF Increment
  <2>3. n = m
    BY <1>5 DEF NativePlus
  <2> QED
    BY <1>2, <1>5, <2>1, <2>2, <2>3 DEF Means
<1>6. CASE m = Address(m.at) /\ Canonical(m.at) /\ x.raw /\ x.rep = RawRep(m.at)
  <2> DEFINE a == m.at
             c == m.at + bytes
  <2>1. m.kind = "address"
    BY <1>6 DEF Address
  <2>2. Selector(x.rep) = 0 /\ x.rep = IF a < SelectorBit THEN a ELSE a - SelectorBit
    BY <1>6, RawOfCanonical
  <2>3. y.rep = (x.rep + bytes) % RepCount
    BY <1>6, <2>2 DEF Increment
  <2>4. y.rep \in 0..(RepCount - 1)
    BY <1>1, <2>3
  <2>5. ASSUME n # Overflowed
        PROVE  Means(y, n)
    <3>1. n = added /\ Canonical(c)
      BY <1>1, <1>3, <1>6, <2>1, <2>5 DEF NativePlus
    <3>2. n = Address(c)
      <4>1. m.pool = 0
        BY <1>6 DEF Address
      <4>2. added = [kind |-> m.kind, pool |-> m.pool, at |-> c]
        BY DEF Meanings
      <4> QED
        BY <2>1, <3>1, <4>1, <4>2 DEF Address
    <3>3. x.rep + bytes = RawRep(c) /\ RawRep(c) \in 0..(SelectorBit - 1)
      <4>1. RawRep(c) = (IF c < SelectorBit THEN c ELSE c - SelectorBit) /\ RawRep(c) \in 0..(SelectorBit - 1)
        BY <3>1, RawOfCanonical
      <4>2. a < SelectorBit <=> c < SelectorBit
        BY <1>1, <1>6, <3>1 DEF Canonical, MaxOffset
      <4> QED
        BY <1>1, <2>2, <4>1, <4>2
    <3>4. y.rep = RawRep(c)
      <4>1. RawRep(c) = 0 * RepCount + RawRep(c) /\ RawRep(c) \in 0..(RepCount - 1)
        BY <3>3
      <4> QED
        BY <2>3, <3>3, <4>1, DivMod
    <3> QED
      BY <1>6, <3>1, <3>2, <3>4 DEF Means, Address
  <2> QED
    BY <1>2, <1>6, <2>4, <2>5
<1> QED
  BY <1>4, <1>5, <1>6 DEF Means

-----------------------------------------------------------------------------
(* The invariant is kept. *)

(* Assign() keeps the invariant if the bits that it stores mean what it says. *)
LEMMA AssignStep ==
  ASSUME PointersInv, NEW s \in Slots, NEW m \in Meanings,
         NEW x \in [proc : Processes, raw : BOOLEAN, rep : 0..(RepCount - 1)],
         m # Overflowed => Means(x, m), ~x.raw /\ x.rep # 0 => HasPool(x.rep),
         Assign(s, x, m)
  PROVE  PointersInv'
PROOF
<1>1. Typed'
  BY DEF PointersInv, Typed, Assign
<1>2. Disjoint'
  BY DEF PointersInv, Disjoint, Known, Assign
<1>3. ASSUME NEW t \in Slots
      PROVE  /\ Promised(t)' => Means(ptr[t], meaning[t])'
             /\ (~ptr[t].raw /\ ptr[t].rep # 0)' => HasPool(ptr[t].rep)'
  <2>1. CASE t = s
    <3>1. ptr'[t] = x /\ meaning'[t] = m
      BY <2>1 DEF PointersInv, Typed, Assign
    <3> QED
      BY <3>1 DEF Promised, Means, HasPool
  <2>2. CASE t # s
    <3>1. ptr'[t] = ptr[t] /\ meaning'[t] = meaning[t]
      BY <2>2 DEF PointersInv, Typed, Assign
    <3> QED
      BY <3>1 DEF PointersInv, Represented, OffsetForm, Promised, Means, HasPool
  <2> QED
    BY <2>1, <2>2
<1> QED
  BY <1>1, <1>2, <1>3 DEF PointersInv, Represented, OffsetForm

LEMMA RepositoryStep ==
  ASSUME PointersInv, NEW p \in Processes, NEW i \in PoolIds,
         (\E a \in Places : Register(p, i, a)) \/ Erase(p, i)
  PROVE  PointersInv'
PROOF
<1>1. UNCHANGED <<ptr, meaning>>
  BY DEF Register, Erase
<1>2. Represented' /\ OffsetForm'
  BY <1>1 DEF PointersInv, Represented, OffsetForm, Promised, Means, HasPool
<1>3. CASE \E a \in Places : Register(p, i, a)
  <2>1. PICK a \in Places : Register(p, i, a)
    BY <1>3
  <2>2. at' = [at EXCEPT ![p][i] = a]
    BY <2>1 DEF Register
  <2>3. Typed'
    BY <1>1, <2>2 DEF PointersInv, Typed
  <2>4. ASSUME NEW q \in Processes, NEW j \in PoolIds
        PROVE  at'[q][j] = IF q = p /\ j = i THEN a ELSE at[q][j]
    BY <2>2 DEF PointersInv, Typed
  <2>5. Disjoint'
    <3> SUFFICES ASSUME NEW q \in Processes, NEW j \in PoolIds, NEW k \in PoolIds,
                        at'[q][j] # 0, at'[q][k] # 0, j # k
                 PROVE  at'[q][j] + Size[j] <= at'[q][k] \/ at'[q][k] + Size[k] <= at'[q][j]
      BY DEF Disjoint, Known
    <3>1. \A l \in PoolIds : at[p][l] # 0 => a + Size[i] <= at[p][l] \/ at[p][l] + Size[l] <= a
      BY <2>1 DEF Register, Known
    <3>2. at[q][j] # 0 /\ at[q][k] # 0
            => at[q][j] + Size[j] <= at[q][k] \/ at[q][k] + Size[k] <= at[q][j]
      BY DEF PointersInv, Disjoint, Known
    <3> QED
      BY <2>4, <3>1, <3>2
  <2> QED
    BY <1>2, <2>3, <2>5 DEF PointersInv
<1>4. CASE Erase(p, i)
  <2>1. at' = [at EXCEPT ![p][i] = 0]
    BY <1>4 DEF Erase
  <2>2. Typed'
    BY <1>1, <2>1 DEF PointersInv, Typed
  <2>3. \A q \in Processes, j \in PoolIds : at'[q][j] # 0 => at'[q][j] = at[q][j]
    BY <2>1 DEF PointersInv, Typed
  <2>4. Disjoint'
    BY <2>3 DEF PointersInv, Disjoint, Known
  <2> QED
    BY <1>2, <2>2, <2>4 DEF PointersInv
<1> QED
  BY <1>3, <1>4

LEMMA ConstructStep ==
  ASSUME PointersInv, NEW s \in Slots, NEW p \in Processes, NEW raw \in BOOLEAN, NEW a \in RawAddrs,
         Construct(s, p, raw, a)
  PROVE  PointersInv'
PROOF
<1> DEFINE x == [proc |-> p, raw |-> raw, rep |-> FromVoid(p, raw, a)]
           m == NativeAt(p, raw, a)
<1>1. Canonical(a)
  BY PointersAssumption
<1>2. /\ Means(x, m) /\ m \in Meanings /\ x.rep \in 0..(RepCount - 1)
      /\ ~raw /\ x.rep # 0 => HasPool(x.rep)
  <2>1. x.raw = raw /\ x.rep = FromVoid(p, raw, a)
    OBVIOUS
  <2> HIDE DEF x
  <2> QED
    BY <1>1, <2>1, FromVoidMeans DEF PointersInv
<1>3. Assign(s, x, m)
  BY DEF Construct
<1>4. x \in [proc : Processes, raw : BOOLEAN, rep : 0..(RepCount - 1)] /\ x.raw = raw
  BY <1>2
<1> HIDE DEF x, m
<1> QED
  BY <1>2, <1>3, <1>4, AssignStep

LEMMA CopyStep ==
  ASSUME PointersInv, NEW s \in Slots, NEW t \in Slots, Copy(s, t)
  PROVE  PointersInv'
PROOF
<1>1. Assign(t, ptr[s], meaning[s]) /\ Means(ptr[s], meaning[s])
  BY DEF Copy, PointersInv, Represented
<1>2. /\ ptr[s] \in [proc : Processes, raw : BOOLEAN, rep : 0..(RepCount - 1)]
      /\ meaning[s] \in Meanings
      /\ ~ptr[s].raw /\ ptr[s].rep # 0 => HasPool(ptr[s].rep)
  BY DEF PointersInv, Typed, OffsetForm
<1> QED
  BY <1>1, <1>2, AssignStep

LEMMA ConvertStep ==
  ASSUME PointersInv, NEW s \in Slots, NEW t \in Slots, NEW raw \in BOOLEAN, Convert(s, t, raw)
  PROVE  PointersInv'
PROOF
<1> DEFINE x == ptr[s]
           p == x.proc
           a == Get(x)
           y == [x EXCEPT !.raw = raw, !.rep = FromVoid(p, raw, a)]
           m == NativeAt(p, raw, a)
<1>1. /\ x \in [proc : Processes, raw : BOOLEAN, rep : 0..(RepCount - 1)]
      /\ Means(x, meaning[s])
  BY DEF Convert, PointersInv, Represented, Typed
<1>2. p \in Processes
  BY <1>1
<1>3. a = NativeAddress(meaning[s], p) /\ Canonical(a)
  BY <1>1, <1>2, GetMeans, NativeIsCanonical DEF PointersInv
<1>4. Assign(t, y, m)
  BY <1>3 DEF Convert
<1>5. y.raw = raw /\ y.rep = FromVoid(p, raw, a) /\ y.proc = p
  BY <1>1
<1>6. /\ Means(y, m) /\ m \in Meanings /\ y.rep \in 0..(RepCount - 1)
      /\ ~raw /\ y.rep # 0 => HasPool(y.rep)
  <2> HIDE DEF y, a, p
  <2> QED
    BY <1>2, <1>3, <1>5, FromVoidMeans DEF PointersInv
<1>7. y \in [proc : Processes, raw : BOOLEAN, rep : 0..(RepCount - 1)]
  BY <1>1, <1>5, <1>6
<1> HIDE DEF y, m, a, p
<1> QED
  BY <1>4, <1>5, <1>6, <1>7, AssignStep

LEMMA ViewStep ==
  ASSUME PointersInv, NEW s \in Slots, NEW t \in Slots, NEW p \in Processes, View(s, t, p)
  PROVE  PointersInv'
PROOF
<1> DEFINE y == [proc |-> p, raw |-> FALSE, rep |-> ptr[s].rep]
           m == meaning[s]
<1>1. /\ ptr[s] \in [proc : Processes, raw : BOOLEAN, rep : 0..(RepCount - 1)] /\ m \in Meanings
      /\ Means(ptr[s], m) /\ ~IsRaw(ptr[s])
      /\ ~ptr[s].raw /\ ptr[s].rep # 0 => HasPool(ptr[s].rep)
  BY DEF View, PointersInv, Represented, Typed, OffsetForm
<1>2. Assign(t, y, m)
  BY DEF View
<1>3. Means(y, m) /\ (y.rep # 0 => HasPool(y.rep))
  <2>1. CASE /\ m.kind = "object" /\ m.pool \in PoolIds
             /\ m.at \in -(OffCount \div 2)..MaxOffset
             /\ ptr[s].rep = OffsetRep(m.pool, m.at)
    <3>1. m.at % OffCount \in 0..(OffCount - 1)
      BY <2>1, SignedOfOffset
    <3>2. HasPool(y.rep)
      BY <2>1, <3>1 DEF HasPool, OffsetRep
    <3> QED
      BY <2>1, <3>2 DEF Means
  <2>2. CASE /\ m = Address(m.at) /\ Canonical(m.at)
             /\ ptr[s].raw \/ m.at = 0
             /\ ptr[s].rep = RawRep(m.at)
    <3>1. Selector(ptr[s].rep) = 0 /\ (ptr[s].rep = 0 <=> m.at = 0)
      BY <2>2, RawOfCanonical
    <3>2. ptr[s].rep = 0 /\ m.at = 0
      BY <1>1, <2>2, <3>1 DEF IsRaw
    <3> QED
      BY <2>2, <3>2 DEF Means
  <2> QED
    BY <1>1, <2>1, <2>2 DEF Means
<1>4. y \in [proc : Processes, raw : BOOLEAN, rep : 0..(RepCount - 1)] /\ y.raw = FALSE
  BY <1>1
<1> HIDE DEF y
<1> QED
  BY <1>1, <1>2, <1>3, <1>4, AssignStep

LEMMA AdvanceStep ==
  ASSUME PointersInv, NEW s \in Slots, NEW n \in Counts, Advance(s, n)
  PROVE  PointersInv'
PROOF
<1> DEFINE bytes == n * ElemSize
           x == ptr[s]
           y == [x EXCEPT !.rep = Increment(x.raw, @, bytes)]
           m == NativePlus(meaning[s], x.raw, bytes)
<1>1. /\ x \in [proc : Processes, raw : BOOLEAN, rep : 0..(RepCount - 1)]
      /\ meaning[s] \in Meanings /\ Means(x, meaning[s])
  BY DEF Advance, PointersInv, Represented, Typed
<1>2. bytes \in -(OffCount \div 2)..MaxOffset
  BY PointersAssumption
<1>3. Assign(s, y, m)
  BY DEF Advance
<1>4. y.raw = x.raw /\ y.rep = Increment(x.raw, x.rep, bytes) /\ y.proc = x.proc
  BY <1>1
<1>5. /\ m \in Meanings /\ y.rep \in 0..(RepCount - 1)
      /\ m # Overflowed => Means(y, m)
      /\ ~x.raw /\ y.rep # 0 => HasPool(y.rep)
  <2> HIDE DEF y, bytes
  <2> QED
    BY <1>1, <1>2, <1>4, IncrementMeans
<1>6. y \in [proc : Processes, raw : BOOLEAN, rep : 0..(RepCount - 1)]
  BY <1>1, <1>4, <1>5
<1> HIDE DEF y, m
<1> QED
  BY <1>3, <1>4, <1>5, <1>6, AssignStep

LEMMA PointersInitially == PointersInit => PointersInv
PROOF
<1> SUFFICES ASSUME PointersInit
             PROVE  PointersInv
  OBVIOUS
<1> USE Sizes
<1>1. Typed
  BY PointersAssumption DEF PointersInit, Typed, Meanings, Address
<1>2. Disjoint
  BY DEF PointersInit, Disjoint, Known
<1>3. Canonical(0) /\ RawRep(0) = 0
  <2>1. Canonical(0)
    BY DEF Canonical
  <2> QED
    BY <2>1, RawOfCanonical
<1>4. Represented
  BY <1>3 DEF PointersInit, Represented, Means, Address
<1>5. OffsetForm
  BY DEF PointersInit, OffsetForm
<1> QED
  BY <1>1, <1>2, <1>4, <1>5 DEF PointersInv

LEMMA PointersStep == PointersInv /\ [PointersNext]_pointerVars => PointersInv'
PROOF
<1> SUFFICES ASSUME PointersInv, [PointersNext]_pointerVars
             PROVE  PointersInv'
  OBVIOUS
<1>1. ASSUME NEW p \in Processes, NEW i \in PoolIds, NEW a \in Places, Register(p, i, a)
      PROVE  PointersInv'
  BY <1>1, RepositoryStep
<1>2. ASSUME NEW p \in Processes, NEW i \in PoolIds, Erase(p, i)
      PROVE  PointersInv'
  BY <1>2, RepositoryStep
<1>3. ASSUME NEW s \in Slots, NEW p \in Processes, NEW raw \in BOOLEAN, NEW a \in RawAddrs,
             Construct(s, p, raw, a)
      PROVE  PointersInv'
  BY <1>3, ConstructStep
<1>4. ASSUME NEW s \in Slots, NEW t \in Slots, Copy(s, t)
      PROVE  PointersInv'
  BY <1>4, CopyStep
<1>5. ASSUME NEW s \in Slots, NEW t \in Slots, NEW raw \in BOOLEAN, Convert(s, t, raw)
      PROVE  PointersInv'
  BY <1>5, ConvertStep
<1>6. ASSUME NEW s \in Slots, NEW t \in Slots, NEW p \in Processes, View(s, t, p)
      PROVE  PointersInv'
  BY <1>6, ViewStep
<1>7. ASSUME NEW s \in Slots, NEW n \in Counts, Advance(s, n)
      PROVE  PointersInv'
  BY <1>7, AdvanceStep
<1>8. CASE UNCHANGED pointerVars
  BY <1>8 DEF pointerVars, PointersInv, Typed, Disjoint, Known, Represented, Promised, Means,
              OffsetForm, HasPool
<1> QED
  BY <1>1, <1>2, <1>3, <1>4, <1>5, <1>6, <1>7, <1>8 DEF PointersNext

LEMMA PointersAlways == PointersSpec => []PointersInv
PROOF
  BY PointersInitially, PointersStep, PTL DEF PointersSpec

-----------------------------------------------------------------------------

(* For offsets, ids and addresses of any width, any pools and processes that *)
(* map them where they like: after any constructions, copies, conversions,   *)
(* reads from shared memory and arithmetic, get() is the address that a      *)
(* native pointer would have.                                                *)
THEOREM GetAlwaysNative == PointersSpec => []GetIsNative
PROOF
<1>1. PointersInv => GetIsNative
  <2> SUFFICES ASSUME PointersInv, NEW s \in Slots, Promised(s)
               PROVE  Get(ptr[s]) = NativeAddress(meaning[s], ptr[s].proc)
    BY DEF GetIsNative
  <2>1. Means(ptr[s], meaning[s]) /\ ptr[s].proc \in Processes
    BY DEF PointersInv, Represented, Typed
  <2> QED
    BY <2>1, GetMeans DEF PointersInv
<1> QED
  BY <1>1, PointersAlways, PTL

(* Pointers of one process into one pool that is mapped there compare and *)
(* subtract like their offsets.                                           *)
THEOREM AlwaysComparedAsOffsets == PointersSpec => []ComparedAsOffsets
PROOF
<1>1. PointersInv => ComparedAsOffsets
  <2> SUFFICES ASSUME PointersInv, NEW s \in Slots, NEW t \in Slots,
                      meaning[s].kind = "object", meaning[t].kind = "object",
                      meaning[s].pool = meaning[t].pool, ptr[t].proc = ptr[s].proc,
                      at[ptr[s].proc][meaning[s].pool] # 0
               PROVE  /\ Less(ptr[s], ptr[t]) <=> meaning[s].at < meaning[t].at
                      /\ Equal(ptr[s], ptr[t]) <=> meaning[s].at = meaning[t].at
                      /\ Minus(ptr[s], ptr[t]) = (meaning[s].at - meaning[t].at) \div ElemSize
    BY DEF ComparedAsOffsets
  <2> DEFINE p == ptr[s].proc
             b == at[p][meaning[s].pool]
  <2>1. Promised(s) /\ Promised(t)
    BY DEF Promised, Overflowed
  <2>2. Means(ptr[s], meaning[s]) /\ Means(ptr[t], meaning[t]) /\ p \in Processes
    BY <2>1 DEF PointersInv, Represented, Typed
  <2>3. /\ Get(ptr[s]) = NativeAddress(meaning[s], p)
        /\ Get(ptr[t]) = NativeAddress(meaning[t], p)
    BY <2>2, GetMeans DEF PointersInv
  <2>4. Get(ptr[s]) = b + meaning[s].at /\ Get(ptr[t]) = b + meaning[t].at
    BY <2>3 DEF NativeAddress
  <2>5. meaning[s].at \in Int /\ meaning[t].at \in Int
    BY DEF PointersInv, Typed, Meanings
  <2>6. b \in Int
    <3>1. meaning[s].pool \in PoolIds
      BY <2>2 DEF Means, Address
    <3>2. b \in {0} \cup Places
      BY <2>2, <3>1 DEF PointersInv, Typed
    <3> QED
      BY <3>2, PlacesAreLow
  <2>7. Get(ptr[s]) - Get(ptr[t]) = meaning[s].at - meaning[t].at
    BY <2>4, <2>5, <2>6
  <2> QED
    BY <2>4, <2>5, <2>6, <2>7 DEF Less, Equal, Minus
<1> QED
  BY <1>1, PointersAlways, PTL

(* A pointer that cannot be raw is null or has the selector and a pool's id, *)
(* whatever was added to it.                                                 *)
THEOREM AlwaysOffsetOnly == PointersSpec => []OffsetOnly
PROOF
<1>1. PointersInv => OffsetOnly
  BY Fields DEF PointersInv, OffsetForm, HasPool, OffsetOnly
<1> QED
  BY <1>1, PointersAlways, PTL

=============================================================================
