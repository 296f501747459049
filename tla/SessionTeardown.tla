--------------------------- MODULE SessionTeardown ---------------------------
(***************************************************************************)
(* How sessions end while arenas are in use.  Every process has one arena, *)
(* lent in all its sessions.  A thread that creates a pool in it notifies  *)
(* the sessions one after the other, each a synchronous LEND_POOL request  *)
(* to the peer, with the arena's mutex locked all along.  reset_shm()      *)
(* destroys the Shm_session, whose destructor stops the task loops that    *)
(* would answer the peer and then needs that mutex; then the channel.  A   *)
(* borrowed object holds a reference to its Shm_session.                   *)
(*                                                                         *)
(* Names carry the module's subject where SessionSetup, which proofs       *)
(* extend together with this module, has the plain ones.                   *)
(***************************************************************************)
EXTENDS Naturals

CONSTANTS
  Procs,        \* the processes
  Ends,         \* their Shm_session objects: the ends of the sessions
  ProcOf,       \* the process a session object is in
  Peer,         \* the session object at the other end
  NoSession,    \* not a session object
  Allocating,   \* processes that create pools
  TimingOut,    \* processes whose sync_request()s have a finite timeout
  Keeping       \* sessions whose borrowed objects may be kept past the session

ASSUME TeardownAssumption ==
  /\ ProcOf \in [Ends -> Procs]
  /\ Peer \in [Ends -> Ends]
  /\ \A s \in Ends : Peer[Peer[s]] = s /\ Peer[s] # s
  /\ NoSession \notin Ends
  /\ Allocating \subseteq Procs
  /\ TimingOut \subseteq Procs /\ Keeping \subseteq Ends

VARIABLES
  state,      \* Shm_session: "up", "stopped" (task loops), "gone"
  listening,  \* sessions that are listeners of their process's arena
  reset,      \* reset_shm(): "no", "session" (being destroyed), "channel", "done"
  borrowed,   \* sessions with an object borrowed
  todo,       \* sessions that a process's notifying thread has still to call
  calling,    \* the session it is in
  asked,      \* sessions whose peer's request waits for the serial loop
  answered    \* sessions whose request was answered

teardownVars == <<state, listening, reset, borrowed, todo, calling, asked, answered>>

TeardownInit ==
  /\ state = [s \in Ends |-> "up"]
  /\ listening = Ends
  /\ reset = [s \in Ends |-> "no"]
  /\ borrowed = {}
  /\ todo = [p \in Procs |-> {}]
  /\ calling = [p \in Procs |-> NoSession]
  /\ asked = {} /\ answered = {}

(* m_shm_channel of a session exists. *)
HasChannel(s) == reset[s] # "done"

(* Nobody holds m_shm_pools_and_listeners_mutex of the process's arena. *)
MutexFree(p) == todo[p] = {} /\ calling[p] = NoSession

-----------------------------------------------------------------------------
(* A thread that allocates. *)

(* handle_created_shm_pool() locks the mutex and goes through m_listeners. *)
CreatePool(p) ==
  /\ p \in Allocating
  /\ MutexFree(p)
  /\ todo' = [todo EXCEPT ![p] = {s \in listening : ProcOf[s] = p}]
  /\ UNCHANGED <<state, listening, reset, borrowed, calling, asked, answered>>

(* lend_shm_pool() of the next session, up to the wait.  The request reaches *)
(* the peer unless a channel is gone.                                        *)
Request(s) ==
  LET p == ProcOf[s] IN
  /\ s \in todo[p] /\ calling[p] = NoSession
  /\ todo' = [todo EXCEPT ![p] = @ \ {s}]
  /\ calling' = [calling EXCEPT ![p] = s]
  /\ asked' = IF HasChannel(s) /\ HasChannel(Peer[s])
              THEN asked \cup {Peer[s]} ELSE asked
  /\ UNCHANGED <<state, listening, reset, borrowed, answered>>

(* The serial loop of a session serves the peer's request. *)
Answer(s) ==
  /\ s \in asked
  /\ state[s] = "up"
  /\ asked' = asked \ {s}
  /\ answered' = IF calling[ProcOf[Peer[s]]] = Peer[s]
                 THEN answered \cup {Peer[s]} ELSE answered
  /\ UNCHANGED <<state, listening, reset, borrowed, todo, calling>>

(* lend_shm_pool() returns, to go on with the next listener or to unlock. *)
Return(s) ==
  /\ calling[ProcOf[s]] = s
  /\ calling' = [calling EXCEPT ![ProcOf[s]] = NoSession]
  /\ answered' = answered \ {s}
  /\ UNCHANGED <<state, listening, reset, borrowed, todo, asked>>

(* ... with the response, or with an error since a channel is gone, ... *)
Served(s) == (s \in answered \/ ~HasChannel(s) \/ ~HasChannel(Peer[s])) /\ Return(s)

(* Mutant: the timeout is not passed to sync_request(). *)
TimedOutNever(s) == s \in answered /\ Return(s)

(* ... or because the timeout, if there is one, has passed.  The request     *)
(* stays with the peer, who answers it, to no effect, before or with the     *)
(* next one.                                                                 *)
TimedOut(s) == ProcOf[s] \in TimingOut /\ Return(s)

-----------------------------------------------------------------------------
(* The sessions. *)

(* borrow_object(): the object's deleter holds a shared_ptr to the session. *)
Borrow(s) ==
  /\ reset[s] = "no"
  /\ borrowed' = borrowed \cup {s}
  /\ UNCHANGED <<state, listening, reset, todo, calling, asked, answered>>

(* ~Shm_session() begins: both task loops are stopped, each after the task   *)
(* it is in, and no more messages are expected.                              *)
Stop(s) == state' = [state EXCEPT ![s] = "stopped"]

(* The borrowed object is let go; it may have had the last reference. *)
Drop(s) ==
  /\ s \in borrowed
  /\ borrowed' = borrowed \ {s}
  /\ IF reset[s] = "no" THEN UNCHANGED state ELSE Stop(s)
  /\ UNCHANGED <<listening, reset, todo, calling, asked, answered>>

(* Mutant: the channel goes first. *)
ResetChannelFirst(s) ==
  /\ reset[s] = "no"
  /\ reset' = [reset EXCEPT ![s] = "channel"]
  /\ Stop(s)
  /\ UNCHANGED <<listening, borrowed, todo, calling, asked, answered>>

(* reset_shm(): m_shm_session.reset() destroys the session if that was the   *)
(* last reference to it.                                                     *)
Reset(s) ==
  /\ reset[s] = "no"
  /\ s \in borrowed => s \in Keeping
  /\ IF s \in borrowed
       THEN reset' = [reset EXCEPT ![s] = "channel"] /\ UNCHANGED state
       ELSE reset' = [reset EXCEPT ![s] = "session"] /\ Stop(s)
  /\ UNCHANGED <<listening, borrowed, todo, calling, asked, answered>>

(* Mutant: the listener is removed without the mutex. *)
DestroyUnlocked(s) ==
  /\ state[s] = "stopped"
  /\ listening' = listening \ {s}
  /\ state' = [state EXCEPT ![s] = "gone"]
  /\ reset' = [reset EXCEPT ![s] = IF @ = "session" THEN "channel" ELSE @]
  /\ UNCHANGED <<borrowed, todo, calling, asked, answered>>

(* ~Shm_session() goes on: remove_shm_pool_listener() locks the arena's      *)
(* mutex; the rest of it waits for nobody.                                   *)
Destroy(s) ==
  /\ state[s] = "stopped"
  /\ MutexFree(ProcOf[s])
  /\ listening' = listening \ {s}
  /\ state' = [state EXCEPT ![s] = "gone"]
  /\ reset' = [reset EXCEPT ![s] = IF @ = "session" THEN "channel" ELSE @]
  /\ UNCHANGED <<borrowed, todo, calling, asked, answered>>

(* reset_shm(): m_shm_channel.reset(). *)
ResetChannel(s) ==
  /\ reset[s] = "channel"
  /\ reset' = [reset EXCEPT ![s] = "done"]
  /\ asked' = asked \ {s}
  /\ UNCHANGED <<state, listening, borrowed, todo, calling, answered>>

TeardownNext ==
  \/ \E p \in Procs : CreatePool(p)
  \/ \E s \in Ends : \/ Request(s) \/ Answer(s) \/ Served(s) \/ TimedOut(s)
                         \/ Borrow(s) \/ Drop(s) \/ Reset(s) \/ Destroy(s)
                         \/ ResetChannel(s)

TeardownSpec == TeardownInit /\ [][TeardownNext]_teardownVars

(* Threads that are not waiting go on, and a timeout passes.  A mutex that   *)
(* is free again and again is obtained.  Applications owe nothing.           *)
Fairness ==
  \A s \in Ends :
    /\ WF_teardownVars(Request(s)) /\ WF_teardownVars(Answer(s)) /\ WF_teardownVars(Served(s))
    /\ WF_teardownVars(TimedOut(s))
    /\ SF_teardownVars(Destroy(s)) /\ WF_teardownVars(ResetChannel(s))

FairTeardownSpec == TeardownSpec /\ Fairness

-----------------------------------------------------------------------------
(* Properties. *)

(* Every variable keeps its type. *)
TeardownTypeOK ==
  /\ state \in [Ends -> {"up", "stopped", "gone"}]
  /\ reset \in [Ends -> {"no", "session", "channel", "done"}]
  /\ listening \in SUBSET Ends /\ borrowed \in SUBSET Ends
  /\ todo \in [Procs -> SUBSET Ends]
  /\ calling \in [Procs -> Ends \cup {NoSession}]
  /\ asked \in SUBSET Ends /\ answered \in SUBSET Ends

(* A thread that goes through an arena's listeners never calls one whose     *)
(* session object has been destroyed.                                        *)
ListenersExist ==
  \A p \in Procs : \A s \in todo[p] \cup ({calling[p]} \ {NoSession}) : state[s] # "gone"

(* The channel of a session is there as long as the session object, unless   *)
(* the application keeps borrowed objects past the end of the session.       *)
ChannelOutlivesSession ==
  \A s \in Ends \ Keeping : state[s] # "gone" => HasChannel(s)

(* shm_session.hpp: the channel "must be valid for the object's lifetime",   *)
(* whatever the application keeps.                                           *)
ChannelAlwaysValid == \A s \in Ends : state[s] # "gone" => HasChannel(s)

(* ~Shm_session()'s comment: stopping the loops is as if what they would     *)
(* have done came a bit later.  Stated here: every destructor that begins    *)
(* ends, and every allocation gets out of the arena's mutex.                 *)
EveryoneFinishes ==
  /\ \A s \in Ends : state[s] = "stopped" ~> state[s] = "gone"
  /\ \A p \in Procs : ~MutexFree(p) ~> MutexFree(p)
=============================================================================
