--------------------------- MODULE PoolIdGenerator ---------------------------
(***************************************************************************)
(* Shm_pool_offset_ptr_data_base::generate_pool_id(): every process of the *)
(* machine draws its pool ids from one counter in a tiny SHM object.  The  *)
(* first call in a process (call_once) finds that object, or makes it,     *)
(* under a named mutex; each call then increments the counter under that   *)
(* mutex.  The mutex is a kernel object: it outlives a process that dies   *)
(* with it locked.                                                         *)
(*                                                                         *)
(* The counter has one bit more than an id.  With Half = 2^31 it is the    *)
(* code's 32-bit one.                                                      *)
(***************************************************************************)
EXTENDS Naturals

CONSTANTS
  Threads,   \* the threads that create pools
  Procs,     \* their processes
  ProcOf,    \* the process of a thread
  NoThread,  \* not a thread
  Half,      \* the number of values an id's bits can hold
  MaxIds     \* bound: ids generated

ASSUME ConstantsAssumption ==
  /\ ProcOf \in [Threads -> Procs]
  /\ NoThread \notin Threads
  /\ Half \in Nat /\ Half > 1
  /\ MaxIds \in Nat

VARIABLES
  pc,       \* where a thread is in generate_pool_id(); "idle" outside, "dead"
  once,     \* s_pool_id_shm_region_init_flag: "no", "running", "done"
  mutex,    \* holder of the named mutex
  object,   \* the SHM object: "none", "created" (size 0), "sized", "set"
  counter,  \* what the object stores
  loaded,   \* the counter as a thread has loaded it into a register
  calls,    \* history: how many ids were generated
  round,    \* history: how often the ids started again from 1
  issued,   \* history: the ids generated, numbered, with their rounds
  failed    \* history: a process has aborted in the initialisation

history == <<calls, round, issued, failed>>
vars    == <<pc, once, mutex, object, counter, loaded, history>>

Counter == 0 .. 2 * Half - 1

(* Mutant: the most significant bit is left in the id. *)
IdOfAllBits(n) == n

(* The id in a counter: << 1 >> 1 clears the most significant bit. *)
IdOf(n) == n % Half

(* ++ on the unsigned counter. *)
Incremented(n) == (n + 1) % (2 * Half)

(* The value stored by a call that loaded n: an id of 0 is skipped. *)
Stored(n) == IF IdOf(Incremented(n)) = 0 THEN Incremented(Incremented(n))
                                         ELSE Incremented(n)

Init ==
  /\ pc = [t \in Threads |-> "idle"]
  /\ once = [p \in Procs |-> "no"]
  /\ mutex = NoThread
  /\ object = "none"
  /\ counter \in Counter  \* memory that nobody has written
  /\ loaded = [t \in Threads |-> 0]
  /\ calls = 0 /\ round = 0 /\ issued = {} /\ failed = FALSE

-----------------------------------------------------------------------------

(* generate_pool_id() is called. *)
Call(t) ==
  /\ pc[t] = "idle"
  /\ calls < MaxIds
  /\ pc' = [pc EXCEPT ![t] = "once"]
  /\ UNCHANGED <<once, mutex, object, counter, loaded, history>>

(* call_once() lets one thread of a process in and has the others wait until *)
(* it is through.                                                            *)
CallOnce(t) ==
  /\ pc[t] = "once"
  /\ \/ /\ once[ProcOf[t]] = "no"
        /\ once' = [once EXCEPT ![ProcOf[t]] = "running"]
        /\ pc' = [pc EXCEPT ![t] = "init"]
     \/ /\ once[ProcOf[t]] = "done"
        /\ pc' = [pc EXCEPT ![t] = "increment"]
        /\ UNCHANGED once
  /\ UNCHANGED <<mutex, object, counter, loaded, history>>

(* Mutant: the counter is incremented without the mutex. *)
LockInitOnly(t) ==
  /\ \/ pc[t] = "init" /\ mutex = NoThread /\ mutex' = t /\ pc' = [pc EXCEPT ![t] = "open"]
     \/ pc[t] = "increment" /\ pc' = [pc EXCEPT ![t] = "load"] /\ UNCHANGED mutex
  /\ UNCHANGED <<once, object, counter, loaded, history>>

(* The named mutex is locked for initialisation, or to increment. *)
Lock(t) ==
  /\ mutex = NoThread
  /\ mutex' = t
  /\ \/ pc[t] = "init" /\ pc' = [pc EXCEPT ![t] = "open"]
     \/ pc[t] = "increment" /\ pc' = [pc EXCEPT ![t] = "load"]
  /\ UNCHANGED <<once, object, counter, loaded, history>>

(* Mutant: the mutex stays locked. *)
OpenLocked(t) ==
  /\ pc[t] = "open"
  /\ object # "none"
  /\ pc' = [pc EXCEPT ![t] = "map"]
  /\ UNCHANGED <<once, mutex, object, counter, loaded, history>>

(* OPEN_ONLY succeeds: somebody made the object.  The mutex is unlocked. *)
Open(t) ==
  /\ pc[t] = "open"
  /\ object # "none"
  /\ pc' = [pc EXCEPT ![t] = "map"]
  /\ mutex' = NoThread
  /\ UNCHANGED <<once, object, counter, loaded, history>>

(* Mutant: the mutex protects the creation only, not the initialisation. *)
CreateUnlocked(t) ==
  /\ pc[t] = "open"
  /\ object = "none"
  /\ object' = "created"
  /\ pc' = [pc EXCEPT ![t] = "truncate"]
  /\ mutex' = NoThread
  /\ UNCHANGED <<once, counter, loaded, history>>

(* OPEN_ONLY does not find it: CREATE_ONLY. *)
Create(t) ==
  /\ pc[t] = "open"
  /\ object = "none"
  /\ object' = "created"
  /\ pc' = [pc EXCEPT ![t] = "truncate"]
  /\ UNCHANGED <<once, mutex, counter, loaded, history>>

Truncate(t) ==
  /\ pc[t] = "truncate"
  /\ object' = "sized"
  /\ pc' = [pc EXCEPT ![t] = "store1"]
  /\ UNCHANGED <<once, mutex, counter, loaded, history>>

(* An id leaves generate_pool_id(). *)
Issue(id, r) ==
  /\ calls' = calls + 1
  /\ round' = r
  /\ issued' = issued \cup {[n |-> calls + 1, id |-> id, round |-> r]}

(* The object is mapped and the counter set to 1, which is also the id that  *)
(* this call returns.                                                        *)
Store1(t) ==
  /\ pc[t] = "store1"
  /\ object' = "set"
  /\ counter' = 1
  /\ Issue(1, round)
  /\ mutex' = NoThread
  /\ once' = [once EXCEPT ![ProcOf[t]] = "done"]
  /\ pc' = [pc EXCEPT ![t] = "idle"]
  /\ UNCHANGED <<loaded, failed>>

(* The opened object is mapped, without the mutex, and call_once() is done. *)
Map(t) ==
  /\ pc[t] = "map"
  /\ once' = [once EXCEPT ![ProcOf[t]] = "done"]
  /\ pc' = [pc EXCEPT ![t] = "increment"]
  /\ UNCHANGED <<mutex, object, counter, loaded, history>>

(* ++id_ref is a load ... *)
Load(t) ==
  /\ pc[t] = "load"
  /\ loaded' = [loaded EXCEPT ![t] = counter]
  /\ pc' = [pc EXCEPT ![t] = "store"]
  /\ UNCHANGED <<once, mutex, object, counter, history>>

(* ... and a store; then the mutex is unlocked and the id returned. *)
Store(t) ==
  LET n == loaded[t]
      skip == IdOf(Incremented(n)) = 0
  IN
  /\ pc[t] = "store"
  /\ counter' = Stored(n)
  /\ Issue(IF skip THEN 1 ELSE IdOf(Incremented(n)), IF skip THEN round + 1 ELSE round)
  /\ mutex' = NoThread
  /\ pc' = [pc EXCEPT ![t] = "idle"]
  /\ UNCHANGED <<once, object, loaded, failed>>

(* A process ends, wherever its threads are. *)
Kill(p) == pc' = [t \in Threads |-> IF ProcOf[t] = p THEN "dead" ELSE pc[t]]

(* A process is killed; nobody unlocks the mutex for it. *)
Die(p) ==
  /\ Kill(p)
  /\ UNCHANGED <<once, mutex, object, counter, loaded, history>>

(* A bipc operation throws in the initialisation: the scoped lock, if any,   *)
(* unlocks the mutex, and the process aborts.                                *)
Throw(t) ==
  /\ pc[t] \in {"init", "open", "truncate", "store1", "map"}
  /\ mutex' = IF mutex = t THEN NoThread ELSE mutex
  /\ Kill(ProcOf[t])
  /\ failed' = TRUE
  /\ UNCHANGED <<once, object, counter, loaded, calls, round, issued>>

Next ==
  \/ \E t \in Threads : \/ Call(t) \/ CallOnce(t) \/ Lock(t) \/ Open(t)
                        \/ Create(t) \/ Truncate(t) \/ Store1(t) \/ Map(t)
                        \/ Load(t) \/ Store(t) \/ Throw(t)
  \/ \E p \in Procs : Die(p)

Spec == Init /\ [][Next]_vars

(* A running thread goes on.  (Call is the application's.)  *)
Fairness ==
  \A t \in Threads : WF_vars(\/ CallOnce(t) \/ Lock(t) \/ Open(t) \/ Create(t)
                             \/ Truncate(t) \/ Store1(t) \/ Map(t) \/ Load(t) \/ Store(t))

FairSpec == Spec /\ Fairness

-----------------------------------------------------------------------------
(* Properties. *)

Holding == {"open", "truncate", "store1", "load", "store"}

(* Every variable keeps its type. *)
TypeOK ==
  /\ pc \in [Threads -> {"idle", "once", "init", "map", "increment", "dead"} \cup Holding]
  /\ once \in [Procs -> {"no", "running", "done"}]
  /\ mutex \in Threads \cup {NoThread}
  /\ object \in {"none", "created", "sized", "set"}
  /\ counter \in Counter
  /\ loaded \in [Threads -> Counter]
  /\ calls \in Nat /\ round \in Nat
  /\ issued \in SUBSET [n : Nat, id : Nat, round : Nat]
  /\ failed \in BOOLEAN

(* No two calls, of any threads and processes, return the same id, unless    *)
(* the ids started again from 1 in between.                                  *)
IdsDiffer ==
  \A q, r \in issued : q.id = r.id /\ q.round = r.round => q = r

(* An id is never 0, which stands for a null or raw pointer, and, unless the *)
(* initialisation failed in some process, the ids start again only when      *)
(* every other one has been used.                                            *)
AllIdsUsedFirst ==
  /\ \A r \in issued : r.id \in 1 .. Half - 1
  /\ ~failed => \A k \in 0 .. round - 1 : \A i \in 1 .. Half - 1 :
                  \E r \in issued : r.id = i /\ r.round = k

(* A thread has found the object and goes on to the counter. *)
Opened(t) == pc[t] \in {"map", "increment", "load", "store"}

(* A thread that found the object and goes on to the counter reads what      *)
(* somebody has stored, never the memory as it was created, as long as the   *)
(* initialisation failed in no process; processes may be killed in it.       *)
OpenedIsInitialised ==
  ~failed => \A t \in Threads : Opened(t) => object = "set"

(* generate_pool_id()'s comment: a pool that exists "was therefore           *)
(* initialized by someone else".                                             *)
ExistingIsInitialised == \A t \in Threads : Opened(t) => object = "set"

(* Every call returns, the ones waiting in call_once() included, unless its  *)
(* process is killed or some process was killed holding the named mutex.     *)
CallReturns ==
  \A t \in Threads :
    pc[t] # "idle" ~> \/ pc[t] \in {"idle", "dead"}
                      \/ mutex \in Threads /\ pc[mutex] = "dead"
=============================================================================
