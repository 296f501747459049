# SHM-jemalloc (ipc_shm_arena_lend): TLA+ models, checks and proofs

Flow-IPC's SHM-jemalloc lets a process construct objects in shared memory with jemalloc
and *lend* them to other processes, which *borrow* them, read them in place, and give them
back. This directory holds TLA+ models of the parts of it that are hard to test, TLC
configurations that check them on small instances, and TLAPS proofs of the properties that
matter most for instances of any size. File names below are relative to `src/src/ipc/`.

## 1. The system

| Part | State it keeps | Operations | Talks to |
| --- | --- | --- | --- |
| `Shm_session` (`session/standalone/shm/arena_lend/jemalloc/shm_session.*`), with `Shm_session_data`, `Lender_collection`, `Borrower_collection` | per peer: lent arenas, lent pools, lent objects with use counts; borrowed collections, pools, objects with use counts; `m_connected`; a serial and a parallel task loop | `lend_arena`, `lend_shm_pool`, `remove_lender_shm_pool`, `lend_object`, `borrow_object`, `return_object`, message handlers, destructor | its peer, by LEND_ARENA and LEND_POOL (synchronous requests), REMOVE_POOL and RETURN_OBJECT (one way); the arena, as its listener; the borrower repository |
| `Ipc_arena` (`shm/arena_lend/jemalloc/ipc_arena.*`) | its pools and its listeners, under one mutex | create and remove pools (called from jemalloc's hooks), add and remove listeners, construct objects | every session it is lent in, with the mutex locked |
| `Borrower_shm_pool_collection_repository` (`session/standalone/shm/arena_lend/`), with `Borrower_shm_pool_repository` | one per process: use counts of owners, collections and pools; the mapped pools | register and deregister each | all sessions of the process |
| `generate_pool_id()` (`shm/arena_lend/detail/shm_pool_offset_ptr_data.cpp`) | one counter per machine, in a SHM object, under a named mutex | draw an id | all processes of the machine |
| `Session_impl` and its client and server variants (`session/detail/shm/arena_lend/jemalloc/`), `Session_server` (`session/shm/arena_lend/jemalloc/`) | the SHM channel, the `Shm_session`, the session's arena; in the server, an arena per client application | log-in, `init_shm`, `reset_shm`, lend and borrow, `cleanup` every 30 seconds | the above, and the peer by the master channel |
| `Owner_shm_pool_collection`, jemalloc's `Shm_pool_collection` (`shm/arena_lend/`) | the address map of an arena's pools, remaining sizes, thread caches | jemalloc's extent hooks, allocate, deallocate | kernel, `Ipc_arena` |
| `Shm_pool_repository` and offset pointers (`shm/arena_lend/`) | process-wide maps from ids and addresses to pools | `to_address`, `from_address`, `insert`, `erase`; pointer arithmetic | pool listeners |

What is hard about it:

* an object's life depends on use counts in two processes, which messages on one channel,
  handles on other channels, four kinds of threads and two destructors change;
* synchronous requests are sent with the arena's mutex locked, and answered by a task loop
  that the peer's destructor stops;
* a request may time out while it is being served; the channel may fail with messages in it;
* sessions that share a process share its mapped pools and end one step at a time;
* the id counter is initialised by whichever process comes first, any of which may die;
* memory is freed through the cache of another thread, in arenas whose ids are used again;
* what jemalloc believes of a page rests on two system calls, each of which may fail;
* a session opens in steps of two processes, each of which waits for the other without a
  timeout;
* a killed process leaves names of SHM objects, which others remove by the pid in the name.

`PROJECT.json` lists these hazards with the lines where they bite and the properties that
would catch them going wrong.

## 2. The modules

| Module | Models |
| --- | --- |
| `ObjectLease` | what lending promises, without pools, sessions or messages |
| `LendBorrow` | one direction of one session: arena, lender, channel, borrower |
| `BorrowerRepository` | the repository and the sessions of a borrowing process |
| `PoolIdGenerator` | `generate_pool_id()` in threads of several processes |
| `SessionTeardown` | arenas, notifying threads and the end of sessions |
| `ArenaPools` | a process's arenas, their pools and extents, the address space, and the repository that translates addresses |
| `OffsetPtr` | offset pointers of several processes, at scaled-down widths |
| `ThreadCache` | thread caches, the references that keep them and their collections, and the memory in them |
| `PageStates` | protection and contents of the pages under jemalloc's extents |
| `SessionSetup` | the log-in of sessions, up to the point where both sides can lend |
| `PoolCleanup` | pool names, killed processes and `cleanup()` |
| `MC...` | instances of these for TLC |
| `LendBorrow_proofs`, `BorrowerRepository_proofs`, `ThreadCache_proofs`, `PageStates_proofs`, `PoolCleanup_proofs`, `ArenaPools_proofs` | theorems of the module in the name |
| `Sessions_proofs` | theorems of `SessionSetup` and `SessionTeardown` |
| `OffsetPtrData_proofs` | theorems of `PoolIdGenerator` and `OffsetPtr` |

Operators that a comment calls a mutant are deliberately wrong versions of the
operator after them; a property is only kept if such a version breaks it. Two proof modules extend
two models each, so one of each pair names its specification after its subject:
`TeardownSpec` and `PointersSpec`, where the others have `Spec`.

### LendBorrow

The lender's arena has pools and the pools have slots, places at which an object can be.
`held` are the objects the application has a `shared_ptr` to, `pins` is
`Lender_collection`'s use count; an object exists while one of them holds it. `handles`
counts the blobs `lend_object()` returned that the borrower has not used yet; they travel by
any channel of the user's, so they are never lost or reordered with anything by the model,
and can be borrowed at any time. `toBorrower` is what is on its way to, or queued in, the
borrower's serial loop, in order; `returns` is what is on its way to the lender's parallel
loop, in no order.

Each operation is an action. `lend_arena()` and `lend_shm_pool()` are cut where they wait for
the response, since other threads run then: `LendArena`, then `LendArenaAccepted` or one of
`RequestRefused`, `RequestFailed`, `RequestTimedOut`; the same for `LendShmPool`. `todo` and
`req` are the thread that notifies the session with the arena's mutex locked.
`return_object()` is cut between deregistering and sending. `LoseInFlight` is the failing
channel: any suffix of what it carries is lost. `MaxUse`, `MaxAttempts` and `Relent` (the slots in which
objects are made more than once) are the only
bounds. `lend_object()` may come before the peer has acknowledged the pool, since the pool is
registered first; `early` remembers the slots with such a handle, until the last of them has been
returned, and only the properties that the rollback at `shm_session.cpp:247` makes impossible for
them leave them out; `DroppedIsReported` is about what that rollback does to them. The constants `Can...` switch faults on; the proofs hold for all their values.
The collection id is left out, since an arena has one collection.

`~Shm_session()` is cut where it can wait. `StopLender` and `StopBorrower` stop both task loops: what
these have not run they never will, and a message that arrives later is dropped by the channel.
`CloseLender` and `CloseBorrower` are the rest, which needs the mutex of the process's own arena
to remove the listener, and comes only when no thread notifies the session. The session objects exist until then
(`lOpen`, `bOpen`), and the channel is closed after that (`PeerGone`). A thread in `lend_arena()`
has a reference to the session (`LendingArena`), so only allocating threads can be waiting by then. The
other direction of the session is a second copy of this module, independent of this one except at this
point: the borrower's destructor waits for threads of its process that notify the *lender* of
pools of the borrower's arena. `bLife = "blocked"` stands for such a thread (`BorrowerNotifies`); it goes
on when the lender's loops run or the channel failed (`BorrowerAnswered`), or by a timeout
(`BorrowerTimedOut`). Other sessions of that process are assumed to be answered. `SessionTeardown` has
both directions and any number of sessions, without what is lent.

The lender may remove a pool with objects lent only as the "degenerate case" that
`remove_lender_shm_pool()` mentions (`CanForce`); `dropped` remembers such pools, and the
guarantees exclude them.

### BorrowerRepository

Every repository operation is atomic, as `m_owner_data_map_mutex` makes it. A session's
destructor is a sequence of actions, one for each call it makes: `BeginClose`, `ClosePool`,
`CloseCollection`, `FinishClose`. `ReceiveArena` and `ReceiveShmPool` may be repeated for a
collection or pool the session already has (up to `MaxRepeats` times), as happens after a
timeout; the code then counts the collection twice and undoes the count of the pool.

### PoolIdGenerator

One action per step of `generate_pool_id()` between which another process can run.
`Half = 2^31` is the code; TLC uses `Half = 4`, so that the counter wraps around twice within
eight calls. The counter's memory is any value until it is stored. A process may be killed
anywhere (`Die`), leaving the mutex locked, or abort because a library call throws in the
initialisation (`Throw`), which unlocks it.

### SessionTeardown

Processes with one arena each, lent in all their sessions. A thread that creates a pool locks
the arena's mutex (`CreatePool`), calls one session after the other (`Request`), and waits for
each peer's answer (`Answer`, `Served`, `TimedOut`). `reset_shm()` is `Reset`, `Destroy`,
`ResetChannel`; the destructor's stopping of the loops is part of `Reset`, or of `Drop` when a
borrowed object held the last reference to the session.

### ArenaPools

Addresses are page numbers; `mem` is the kernel's page table. A thread in `create_shm_pool()`
is cut wherever another thread can change something it depends on: `CreateObject`, then `Map`
or the aligned variant `Reserve`, `Trim`, `MapFixed` (`pages_map_slow()`), then `Register` (the
collection's map), then `Notify` (the arena's mutex: `m_shm_pools`, the listeners, and through
them `Shm_pool_repository::insert()`); `CreateObjectFails`, `MapFails` and `MapFixedFails` are
its errors. `extents` is jemalloc, external: it splits as it likes and merges what
`merge_memory_pages()` lets it. The end of an arena is one action per call of
`~Ipc_arena()`: `BeginDestroy`, `AnnounceRemoval` for each pool, `BeginRemoval`, then the
destroy hook for each extent (`RemoveRange`, or `DecommitFails`), and `Unmap` and
`RemoveObject` when a pool's last range is gone. A live arena never gives a pool back: the
dalloc hook, `optional_remove_shm_pool()`, always declines, so `handle_removed_shm_pool()` is
not reached. `Lookup` is the search both address maps do
with `lower_bound()`; `LookupIsExact` compares it with its meaning.

What is assumed: an arena is destroyed when nothing refers to it and no thread is in it (its
`shared_ptr`); the `Session_server`, which owns the listener of the arenas it makes, outlives
them; a call of a listener that has been destroyed works or ends the process. If mapping over
the reservation fails, the reservation stays. The page protection that the commit and decommit
hooks change is left out, their address arithmetic (`ComputePoolAndOffset`) is not. In `known`,
a pool whose removal was announced is taken out at once, while the destructor's loop leaves
`m_shm_pools` alone; nobody looks at it in between.

### OffsetPtr

A representation is a number with three digits: selector, pool id, offset. `ptr` are pointer
variables with the process they live in and whether their type may store raw addresses
(`CAN_STORE_RAW_PTR`); `at` is each process's repository. `meaning` is a reference that the code
does not have: the object of a pool, or the address, that a native pointer would stand for.
Offsets have 8 values and ids 8, so that arithmetic reaches both ends of an offset, and
addresses of both halves of the address space occur. Pointers are moved only as long as the
result is representable, as the documentation asks, and by as many bytes as a `diff_t` holds, which
is what `increment()` takes.

### ThreadCache

Shared ownership is the point here: a thread's map, the deleters of handles and running calls
refer to `Thread_cache` objects, these and uncached deleters refer to collections, and
`Release` and `DestroyArena` are what happens when the last one goes. `block` is memory of
jemalloc (external): in use, in a cache, or lost because a constructor threw. `construct` and
`delete` have two steps, between which another thread may be in the same cache; `CanOverlap`
allows that. Ids of arenas and caches are reused, the lowest first.

### PageStates

Two pools that lie next to each other. `prot` is what the addresses allow, `content` what the
SHM object holds, and an extent has the flags jemalloc keeps, `committed` and `zeroed`, which it
sets from the hooks' answers. Commit, decommit and forced purge each have their failures;
decommit is cut between `fallocate()` and `mprotect()`. jemalloc itself (which extent it takes,
splits, merges, retains) is external and does what its interface allows.

### SessionSetup

Each session has a thread on either side, in the program counters `cli` and `srv`. `InitAppShm`,
`CreateAppArena` and `AppShmPtr` are `Session_server`'s part under `m_app_shm_mutex`;
`ConnectPair`, `HandleSetup` and `Acked` hand the socket over; `CreateShmSession` and `LendArena`
are `init_shm()` on both sides. Every step has its failure. The master channel fails for one side
or the other, clients are killed, the server's idle timer fires. The vanilla log-in is one step,
external.

### PoolCleanup

Processes are started, killed and exit; pids are reused. A name has the fields that the code
formats and parses: server application and pid, client application, and the client's pid where a
client made the pool. `cleanup()` is cut between listing, examining and unlinking.

## 3. What the runs show

| Run | Instance | Shows |
| --- | --- | --- |
| `lend` | 2 pools with a slot each, each lent twice at a time, one of them used again, 2 attempts to lend the arena; all faults on | `Pinned`, `NoLeak`: the lender's counts never fall below the references, and equal them while nothing failed; `HandleIsBorrowable`, `RemovalIsAccepted`; `DroppedIsReported`: the rollback of a request frees nothing that is in use, unless an error was reported; `KeepsLease`: the model implements `ObjectLease`; `ReturnedIsFreed`; `NotifierFinishes`: a thread that lends pools gets through, also when the peer goes away while it waits, unless both destructors are waiting at once (`EndsMeet`), which is what `teardown_both` shows |
| `repository` | 3 sessions, 2 of them with one owner, 3 collections with a pool each, 1 repetition | `OpenWhileUsed`, `PoolsCounted`, `NothingLeft` |
| `pool_ids` | 3 threads in 2 processes, 8 ids of 3 possible values | `IdsDiffer`, `AllIdsUsedFirst`, `OpenedIsInitialised`, `CallReturns` |
| `teardown` | a server and 2 clients; the server and one client allocate, that client with a finite timeout; the other client may keep borrowed objects | `ListenersExist`, `ChannelOutlivesSession`, `EveryoneFinishes` |
| `arena` | a server's and a client's arena, 2 allocating threads (symmetric), 3 pages, 3 pool ids, requests of 1 and 2 pages, 1 of them aligned to 2 | `LookupIsExact`, `TranslatedIsMapped`, `MemoryIsTranslated`: the repository translates what is mapped, and all that jemalloc has; `HooksFindPages`: the hooks work on the right pages; `NothingOfArenaLeft`; `NothingIsReplaced` |
| `pointers` | an owner and a borrower, 2 pools, 2 pointers (symmetric), raw addresses in and next to the pools and in the upper half | `GetIsNative`, `ComparedAsOffsets`, `OffsetOnly` |
| `caches` | 2 collections, 2 threads, 2 blocks (all symmetric), 4 cache ids | `FlushedBeforeDestroyed`, `ObjectsInOwnArena`, `CachesAreReferenced` |
| `pages` | 2 neighbouring pools of 2 pages, with and without overcommit | `CommittedIsAccessible`, `ZeroedIsZero`, `LiveDataKept`, `RemovedHoldsNoMemory` |
| `setup` | 2 sessions of one application | `PeersCanLend`, `OneArenaPerApp`, `OpeningEnds` |
| `cleanup` | 3 pids, 3 processes of a server and a client application, 2 pools | `OwnedPoolsHaveNames`, `OrphansRemoved` |
| `teardown_both` (violation) | 2 processes that allocate, no timeout | two destructors and two notifying threads wait for each other for ever |
| `caches_race` (violation) | as `caches`, with overlapping calls | a handle released in another thread frees through a cache that its own thread is using |

Some definitions state what a comment or document of the repository promises and the code does
not keep. They are not in a configuration; add one as an INVARIANT and TLC prints the
counterexample: `EmptyBlobMeansHosed` (`lend.cfg`: a pool the borrower cannot open makes objects
unlendable without any error being reported), `ExistingIsInitialised` (`pool_ids.cfg`: a failed
initialisation leaves an object that the next process takes for initialised),
`ChannelAlwaysValid` (`teardown.cfg`: the channel is destroyed before a session that an object
keeps), `NotifiedListenerExists` (`arena.cfg`: a client's arena calls its pool listener after the
session destroyed it), `BoolIsGet` (`pointers.cfg`: a pointer into a pool that is gone is true
and null). `OpeningEnds` has one exception, `SocketLeaked`: a server whose wait for the client's
acknowledgement fails never closes its socket, and the client waits on it for ever. The findings
in `PROJECT.json` quote the lines.

What the properties leave out, because the code does not promise or does not keep it: slots lent
before their LEND_POOL was answered (`early`) in `NoLeak`, `HandleIsBorrowable` and `ReturnedIsFreed`; pools
given up with objects lent, and what is left after the lender's session, in `Pinned` and `KeepsLease`; the state
`EndsMeet` in `NotifierFinishes`; sessions whose borrowed objects are kept past them (`Keeping`) in
`ChannelOutlivesSession`; initialisations that threw in `OpenedIsInitialised` and `AllIdsUsedFirst`; a process killed
with the named mutex locked in `CallReturns`; pools with a range that could not be decommitted in
`NothingOfArenaLeft`, and such ranges in `RemovedHoldsNoMemory`; `SocketLeaked` in `OpeningEnds`. `PeersCanLend` is
about arenas: a pool of an accepted arena may still be refused. `RemovalIsAccepted` is about an interface
that the library offers and jemalloc's hooks do not use so far: `optional_remove_shm_pool()` declines, so only
a caller of `handle_removed_shm_pool()` sends REMOVE_POOL.

The bounds: two pools let a removal overtake a creation and one pool be refused while the
other is lent; two uses of a slot are the least with which a use count differs from a flag;
two attempts at `lend_arena()` are what a late LEND_ARENA needs to meet a second one. Three
sessions are the least with a shared and an unshared owner. Three threads in two processes
meet both in `call_once()` and at the mutex. Three pages hold two neighbouring pools, or one
pool of two pages and a gap; three ids let an address be mapped, given back and mapped again
by another arena while a third pool is being made. Two collections, two threads and two blocks
let a cache outlive its thread, hold a block of one arena while the other is destroyed, and be
looked for under a reused arena id. Two pages are the least that can be split. Two sessions meet at
the mutex; with three starts and three pids a process is killed, its pid reused and a third process
cleans up. `CHECK_DEADLOCK FALSE` is used throughout: all
these systems may end, with every session closed or every id drawn.

Fairness is weak fairness of what a thread or a task loop does once it is not waiting: the
loops run what is posted to them, a destructor goes on, a call that was answered returns. A
mutex that is free again and again is obtained (strong fairness of `Destroy` and `CloseBorrower`), since allocating
threads hold it only while a pool is created. In `LendBorrow`, where an application's session waits without
a timeout, none is counted on. Nothing the application does is fair: it may
hold, lend or borrow as long as it likes. In `SessionTeardown` a timeout, where there is one, passes. In `SessionSetup`
sessions that failed are destroyed, in time; in `PoolCleanup` the cleanup thread of a process that
runs goes on, since its timer comes every 30 seconds.

## 4. What is proved

Every safety property of section 3 is a theorem, for every value of the constants: any number of
pools, slots, sessions, processes, threads, pages, extents and ids, any bounds, any combination of
the faults that a module's `Can...` constants switch on. Each assumes only the named assumption of
its module (`ConstantsAssumption`, `TeardownAssumption`, `PointersAssumption`), which says what kind
of value a constant is. Beyond that they say: the sessions of a process are finitely many
(`BorrowerRepository`); special values such as `None` are none of the things they stand apart from;
a pool is no larger than the largest offset, as `owner_shm_pool_collection.cpp:131` asserts, and lies
in the lower half of the addresses (`OffsetPtr`). The pattern is the same throughout: an inductive
invariant, written as named parts, a lemma for each action or group of actions, and the properties as
consequences. TLC checked every invariant on the run of its module before it was proved. None of the
properties is inductive by itself; what each needs is the following.

**`LendBorrow`.**
`TypeCorrect`: the use counts stay in their ranges. `PinnedAlways`: every action that adds a reference adds a use, and
what takes uses away takes the reference, closes the session, or puts the pool into `dropped`; it needs to know that a
slot without a registered pool has no uses. `ProtocolAlways` is what the other theorems stand on: at
most one message on its way is waited for, it belongs to the thread that waits, and it has no answer yet
(`Awaited`); a pending request's pool is registered and not in the list still to do (`Requests`); a
pool is registered at most once (`Registered`). From it `BorrowedAlwaysOpen`: the borrower has opened
every registered pool but the one whose answer is waited for (`Opened`), so a removal cannot overtake
its creation; and `RemovalAlwaysAccepted`: a REMOVE_POOL on its way is the only one for its pool
(`RemovedOnce`), and nothing refers to that pool. A session whose loops are stopped
has nothing borrowed (`Ended`). `HandleAlwaysBorrowable` and `NoLeakAlways` follow
from these and the conservation of references. `DroppedAlwaysReported` holds because, until an error is
reported or the channel fails, the borrower's pools are registered, rolled back or removed at the lender
(`Accounted`), every LEND_POOL on its way is waited for (`LendAwaited`), and one that opened the
pool is answered with success (`Unanswered`): only pools that the borrower does not have are
rolled back (`DroppedClosed`). `LeaseIsKept` is the refinement: each action of
`LendBorrow` is a step of `ObjectLease` under the mapping `Lease` (its `INSTANCE` in `LendBorrow`), or
changes nothing of it.

**`BorrowerRepository`.** `AlwaysOpenWhileUsed`, `PoolsAlwaysCounted`, `NothingIsLeft`. Owners' and
pools' counts are the sizes of the sets of sessions that have them; a collection's count may be too high, because a
repeated request counts it twice, but is never positive without its owner's entry (`CountsOK`), which is
why what is left of it goes with the owner. A pool has uses exactly while it is open and listed
(`PoolsOK`); what a session has belongs together, also in the middle of its destructor (`SessionsOK`).

**`ArenaPools`.** `LookupAlwaysExact`, `TranslatedAlwaysMapped`, `MemoryAlwaysTranslated`,
`HooksAlwaysFindPages`, `NothingOfArenaIsLeft`, `NothingIsEverReplaced`. The chain is: what the
repository translates, its arena knows (`RepositoryOK`); what an arena knows is in its collection, whose pools have ids of
their own (`PoolsOK`, `ThreadsOK`, `RemovingOK`); the pages of a collection's pools, of a pool a
thread is making, and of one being removed are mapped to it, and every mapped page is somebody's
(`MemoryOK`). Two pools that overlapped would own the same page of `mem`, so they do not, and
`Lookup`'s search finds the right one; `MAP_FIXED` maps only over what the thread itself reserved.
For the end of an arena: every SHM object has somebody who will remove it (`NamesOK`), and
`remaining` counts the pages of a pool that are in extents, exactly, unless a range was kept or the
pool is not yet jemalloc's (`CountsOK`, with `ExtentsOK`).

**`ThreadCache`.** `AlwaysFlushedBeforeDestroyed`, `ObjectsAlwaysInOwnArena`,
`CachesAlwaysReferenced`. A cache is for an existing arena of the collection it keeps alive
(`CachesOK`), an arena id in use has one owner (`OneOwner`), and a thread finds under an id only the
cache made for that arena (`MapOK`): so an id that is used again cannot lead to an old cache. Blocks
and running calls refer to caches of the same collection (`BlocksOK`, `ThreadsOK`). `Release`, which
removes in cascade what nothing refers to, has a lemma of its own (`ReleaseKeeps`).

**`PageStates`.** `CommittedAlwaysAccessible`, `ZeroedAlwaysZero`, `LiveDataAlwaysKept`,
`RemovedNeverHoldsMemory`. Extents are parts of mapped pools and do not overlap (`Placed`), so a
system call on one leaves the pages of others alone; for each state of an extent, its flags agree with
protection and contents of its pages, whichever call failed (`Agrees`).

**`PoolIdGenerator`.** `IdsAlwaysDiffer`: who may hold the mutex where (`Guarded`), a
loaded counter is the stored one, and every id issued in this round is at most the counter's
(`Behind`); three lemmas about the arithmetic hold for every width. `OpenedAlwaysInitialised` and
`AllIdsAlwaysUsedFirst`: unless an initialisation failed, an object that is not set belongs to the
thread making it (`Made`), and all ids up to the counter's have been issued (`Complete`).

**`OffsetPtr`.** `GetAlwaysNative`, `AlwaysComparedAsOffsets`, `AlwaysOffsetOnly`. The bits of a pointer
are those of what it means (`Represented`), and an offset-only pointer has a pool's id and the
selector even if its offset overflowed (`OffsetForm`); pools of a process do not overlap (`Disjoint`).
Lemmas about the bit-fields, for every width: what is put into a field comes out of it (`Fields`,
`SignedOfOffset`, `RawOfCanonical`), adding to the lowest digit is adding to the offset
(`IncrementOffset`), and `from_address()` finds the pool that has the address (`FromAddressFinds`).
That one increment is at most a `diff_t` keeps a raw address in its half of the addresses.

**`SessionSetup`.** `OneArenaPerAppAlways` and `PeersCanAlwaysLend`: only the holder of the mutex
creates an arena, and only where there is none (`CreatorHoldsMutex`); the sockets exist before the client
hears of them and are closed only by who gives up (`SocketsFirst`); what a side has accepted is a function of
how far the other has come (`LentSoFar`).

**`SessionTeardown`.** `ListenersAlwaysExist`: a session that is a target of a notifying thread
listens to its own process's arena, so it cannot pass the mutex in its destructor (`Attached`).
`ChannelAlwaysOutlivesSession`: the steps of `reset_shm()` and the states of the session go together
(`ResetInOrder`), except for sessions in `Keeping`.

**`PoolCleanup`.** `OwnedPoolsAlwaysHaveNames`: the name of an owned pool leads to the running
process that created it (`NamesTell`), also if a cleanup listed it a while ago (`ScannedTell`), and
what a cleanup is about to remove has no owner and never gets one, because ids are not drawn twice
(`DoomedAreOrphans`), although pids are.

Only model-checked: the liveness properties (`ReturnedIsFreed`, `NotifierFinishes`, `CallReturns`,
`EveryoneFinishes`, `OpeningEnds`, `OrphansRemoved`), because they rest on fairness, hence on
ENABLED, which the prover does not reason about; and that the two findings with runs and the
definitions named in section 3 fail, which is a matter of showing a behaviour. The proofs are of the
models: that TLC's bounds are large enough no longer matters for safety, that the models are
faithful still does.

## 5. Not modelled, and the plan

Not modelled for good: the parts of jemalloc and of the kernel's interface that only translate
errors or that no hook reaches (huge pages, the lazy purge, `mallctl()` names); the vanilla session
log-in, which is another library's; error texts; type aliases; the wire format of messages, which
Cap'n Proto generates. File descriptors are not modelled, except the pair of sockets in
`SessionSetup`: the descriptor that `borrower_shm_pool_collection.cpp:60` leaves open is a hazard
without a property.

What is left for proofs: the safety half of the liveness arguments, that is, that a thread that waits
always has somebody who will answer it (`LendBorrow`'s notifier, `SessionSetup`'s two sides outside
`SocketLeaked`), as invariants; and invariants across modules, such as that what `ArenaPools`
announces to its listeners is what `LendBorrow` takes as `todo`.
