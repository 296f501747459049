--------------------------- MODULE Sessions_proofs ---------------------------
(***************************************************************************)
(* Opening and ending sessions.  For any number of sessions of any         *)
(* applications: sessions of one application share one arena, and two      *)
(* peers that report success can lend to each other.  For any arrangement  *)
(* of processes and sessions: whoever notifies an arena's listeners finds  *)
(* them there, and the channel outlives its session.                       *)
(***************************************************************************)
EXTENDS SessionSetup, SessionTeardown, TLAPS

-----------------------------------------------------------------------------
(* Opening: SessionSetup. *)

TypeOK ==
  /\ cli \in [Sessions -> {"log_in", "connecting", "init", "lending", "peer", "failed", "gone"}]
  /\ srv \in [Sessions -> {"log_in", "creating", "created", "prepared", "logged_in", "await_ack", "init",
                           "lend_session", "lend_app", "peer", "failed", "gone"}]
  /\ setup \in [Sessions -> {"none", "sent", "acked"}]
  /\ sock \in [Sessions -> [Sides -> {"none", "open", "closed"}]]
  /\ shm \in [Sessions -> [Sides -> {"none", "up", "reset"}]]
  /\ known \in [Sessions -> [Sides -> SUBSET (Nat \cup {None})]]
  /\ appShm \in [Apps -> Nat \cup {None}]
  /\ cached \in [Sessions -> Nat \cup {None}]
  /\ nextArena \in Nat

(* Only the holder of m_app_shm_mutex creates an arena, and only the first of *)
(* its application.                                                           *)
CreatorHoldsMutex ==
  \A s \in Sessions : srv[s] = "creating" => mutex = s /\ appShm[App[s]] = None

(* Whoever has got past init_app_shm_as_needed() finds the arena, and keeps it. *)
ArenaFound ==
  \A s \in Sessions :
    /\ srv[s] = "created" => appShm[App[s]] # None
    /\ srv[s] \in {"prepared", "logged_in", "await_ack", "init", "lend_session", "lend_app", "peer"}
         => cached[s] # None

(* The socket pair exists before the client hears of it, once. *)
SocketsFirst ==
  \A s \in Sessions :
    /\ srv[s] \in {"log_in", "creating", "created", "prepared", "logged_in"} => setup[s] = "none"
    /\ cli[s] = "log_in" => srv[s] \in {"log_in", "creating", "created", "prepared", "failed", "gone"} /\ setup[s] = "none"
    /\ cli[s] = "connecting" /\ setup[s] = "sent" => sock[s]["cli"] = "open"
    /\ cli[s] \in {"init", "lending", "peer"} => setup[s] = "acked" /\ sock[s]["cli"] = "open"
    /\ cli[s] \in {"lending", "peer"} => shm[s]["cli"] = "up"
    /\ srv[s] \in {"await_ack", "init", "lend_session", "lend_app", "peer"} => sock[s]["srv"] = "open"
    /\ srv[s] \in {"lend_session", "lend_app", "peer"} => shm[s]["srv"] = "up"

(* What the other side has accepted so far follows from how far a side is. *)
LentSoFar ==
  \A s \in Sessions :
    /\ srv[s] \in {"log_in", "creating", "created", "prepared", "logged_in", "await_ack", "init", "lend_session"}
         => known[s]["cli"] = {}
    /\ srv[s] = "lend_app" => known[s]["cli"] = {SessionShm}
    /\ srv[s] = "peer" => known[s]["cli"] = {SessionShm, cached[s]}
    /\ cli[s] \in {"log_in", "connecting", "init", "lending"} => known[s]["srv"] = {}
    /\ cli[s] = "peer" => known[s]["srv"] = {SessionShm}

IndInv == TypeOK /\ CreatorHoldsMutex /\ ArenaFound /\ OneArenaPerApp /\ SocketsFirst /\ LentSoFar

(* A session has an application. *)
LEMMA AppIsApp == \A s \in Sessions : App[s] \in Apps
  BY DEF Apps

(* No session is open at first. *)
LEMMA InitIndInv == Init => IndInv
  <1> SUFFICES ASSUME Init PROVE IndInv
    OBVIOUS
  <1>1. TypeOK
    BY DEF Init, TypeOK, Sides
  <1>2. CreatorHoldsMutex /\ ArenaFound /\ OneArenaPerApp
    BY DEF Init, CreatorHoldsMutex, ArenaFound, OneArenaPerApp
  <1>3. SocketsFirst /\ LentSoFar
    BY DEF Init, SocketsFirst, LentSoFar, Sides
  <1> QED BY <1>1, <1>2, <1>3 DEF IndInv

(* The server's part before the log-in. *)
LEMMA AppShmStep ==
  ASSUME IndInv, NEW s \in Sessions,
         InitAppShm(s) \/ CreateAppArena(s) \/ CreateAppArenaFails(s) \/ AppShmPtr(s)
  PROVE  IndInv'
  <1> USE AppIsApp, ConstantsAssumption DEF IndInv
  <1>1. CASE InitAppShm(s)
    <2> USE <1>1 DEF InitAppShm, Srv, channels
    <2>1. TypeOK' BY DEF TypeOK
    <2>2. CreatorHoldsMutex' BY DEF TypeOK, CreatorHoldsMutex
    <2>3. ArenaFound' /\ OneArenaPerApp' BY DEF TypeOK, ArenaFound, OneArenaPerApp
    <2>4. SocketsFirst' BY DEF TypeOK, SocketsFirst
    <2>5. LentSoFar' BY DEF TypeOK, LentSoFar
    <2> QED BY <2>1, <2>2, <2>3, <2>4, <2>5
  <1>2. CASE CreateAppArena(s)
    <2> USE <1>2 DEF CreateAppArena, Srv, channels
    <2>1. TypeOK' BY DEF TypeOK
    <2>2. CreatorHoldsMutex' BY DEF TypeOK, CreatorHoldsMutex
    <2>3. ArenaFound' BY DEF TypeOK, ArenaFound
    <2>4. OneArenaPerApp' BY DEF TypeOK, OneArenaPerApp, CreatorHoldsMutex
    <2>5. SocketsFirst' BY DEF TypeOK, SocketsFirst
    <2>6. LentSoFar' BY DEF TypeOK, LentSoFar
    <2> QED BY <2>1, <2>2, <2>3, <2>4, <2>5, <2>6
  <1>3. CASE CreateAppArenaFails(s)
    <2> USE <1>3 DEF CreateAppArenaFails, Srv
    <2>1. TypeOK' BY DEF TypeOK
    <2>2. CreatorHoldsMutex' BY DEF TypeOK, CreatorHoldsMutex
    <2>3. ArenaFound' /\ OneArenaPerApp' BY DEF TypeOK, ArenaFound, OneArenaPerApp
    <2>4. SocketsFirst' BY DEF TypeOK, SocketsFirst
    <2>5. LentSoFar' BY DEF TypeOK, LentSoFar
    <2> QED BY <2>1, <2>2, <2>3, <2>4, <2>5
  <1>4. CASE AppShmPtr(s)
    <2> USE <1>4 DEF AppShmPtr, Srv, channels
    <2>1. TypeOK' BY DEF TypeOK
    <2>2. CreatorHoldsMutex' BY DEF TypeOK, CreatorHoldsMutex
    <2>3. ArenaFound' /\ OneArenaPerApp' BY DEF TypeOK, ArenaFound, OneArenaPerApp
    <2>4. SocketsFirst' BY DEF TypeOK, SocketsFirst
    <2>5. LentSoFar' BY DEF TypeOK, LentSoFar
    <2> QED BY <2>1, <2>2, <2>3, <2>4, <2>5
  <1> QED BY <1>1, <1>2, <1>3, <1>4

(* Steps that leave the arenas of applications alone, let go of m_app_shm at *)
(* most, and do not take the server's thread in or out of the mutex.         *)
Later(s) ==
  /\ UNCHANGED <<appShm, mutex, nextArena>>
  /\ TypeOK'
  /\ \A t \in Sessions : \/ srv'[t] = srv[t] /\ cached'[t] = cached[t]
                         \/ srv'[t] \in {"failed", "gone"} /\ cached'[t] \in {cached[t], None}
                         \/ /\ srv[t] \in {"prepared", "logged_in", "await_ack", "init", "lend_session", "lend_app"}
                            /\ srv'[t] \in {"logged_in", "await_ack", "init", "lend_session", "lend_app", "peer"}
                            /\ cached'[t] = cached[t]

(* They keep what is said about arenas. *)
LEMMA LaterStep ==
  ASSUME IndInv, NEW s \in Sessions, Later(s), SocketsFirst', LentSoFar'
  PROVE  IndInv'
  <1> USE DEF IndInv, Later
  <1>1. CreatorHoldsMutex'
    BY DEF CreatorHoldsMutex
  <1>2. ArenaFound'
    BY DEF ArenaFound
  <1>3. OneArenaPerApp'
    BY DEF OneArenaPerApp
  <1> QED BY <1>1, <1>2, <1>3

(* Log-in, and what the failing master channel does to it. *)
LEMMA LogInStep ==
  ASSUME IndInv, NEW s \in Sessions, LogIn(s) \/ CliHosed(s) \/ SrvHosed(s)
  PROVE  IndInv'
  <1> USE DEF IndInv
  <1>1. Later(s)
    BY DEF Later, TypeOK, LogIn, CliHosed, SrvHosed, Cli, Srv, channels, app
  <1>2. SocketsFirst'
    BY DEF TypeOK, SocketsFirst, LogIn, CliHosed, SrvHosed, Cli, Srv, channels
  <1>3. LentSoFar'
    BY DEF TypeOK, LentSoFar, LogIn, CliHosed, SrvHosed, Cli, Srv, app
  <1> QED BY <1>1, <1>2, <1>3, LaterStep

(* The socket pair and the hand-over, on the server's side. *)
LEMMA ServerStep ==
  ASSUME IndInv, NEW s \in Sessions,
         ConnectPair(s) \/ ConnectPairFails(s) \/ SendFails(s) \/ Acked(s) \/ AckFails(s)
  PROVE  IndInv'
  <1> USE DEF IndInv
  <1>1. CASE ConnectPair(s)
    <2> USE <1>1 DEF ConnectPair, Srv
    <2>1. Later(s) BY DEF Later, TypeOK, app, Sides
    <2>2. SocketsFirst' BY DEF TypeOK, SocketsFirst, Sides
    <2>3. LentSoFar' BY DEF TypeOK, LentSoFar, app
    <2> QED BY <2>1, <2>2, <2>3, LaterStep
  <1>2. CASE Acked(s)
    <2> USE <1>2 DEF Acked, Srv
    <2>1. Later(s) BY DEF Later, TypeOK, app, channels
    <2>2. SocketsFirst' BY DEF TypeOK, SocketsFirst, channels
    <2>3. LentSoFar' BY DEF TypeOK, LentSoFar, app
    <2> QED BY <2>1, <2>2, <2>3, LaterStep
  <1>3. ASSUME NEW from, NEW end \in {"none", "open"}, SrvGivesUp(s, from, end) PROVE IndInv'
    <2> USE <1>3 DEF SrvGivesUp, Srv
    <2>1. Later(s) BY DEF Later, TypeOK, Sides
    <2>2. SocketsFirst' BY DEF TypeOK, SocketsFirst, Sides
    <2>3. LentSoFar' BY DEF TypeOK, LentSoFar
    <2> QED BY <2>1, <2>2, <2>3, LaterStep
  <1> QED BY <1>1, <1>2, <1>3 DEF ConnectPairFails, SendFails, AckFails

(* The client's handler of JEMALLOC_SHM_SETUP. *)
LEMMA HandleSetupStep ==
  ASSUME IndInv, NEW s \in Sessions, HandleSetup(s) \/ HandleSetupFails(s)
  PROVE  IndInv'
  <1> USE DEF IndInv, HandleSetup, HandleSetupFails, Cli, channels
  <1>1. Later(s) BY DEF Later, TypeOK, app
  <1>2. SocketsFirst' BY DEF TypeOK, SocketsFirst
  <1>3. LentSoFar' BY DEF TypeOK, LentSoFar, app
  <1> QED BY <1>1, <1>2, <1>3, LaterStep

(* init_shm() on either side. *)
LEMMA InitShmStep ==
  ASSUME IndInv, NEW s \in Sessions, NEW x \in Sides,
         CreateArenaFails(s, x) \/ CreateShmSession(s, x) \/ LendArena(s, x) \/ LendArenaFails(s, x)
  PROVE  IndInv'
  <1> USE DEF IndInv, Sides
  <1>1. CASE CreateArenaFails(s, x)
    <2> USE <1>1 DEF CreateArenaFails, ArenaFails, At, Cli, Srv
    <2>1. Later(s) BY DEF Later, TypeOK
    <2>2. SocketsFirst' BY DEF TypeOK, SocketsFirst
    <2>3. LentSoFar' BY DEF TypeOK, LentSoFar
    <2> QED BY <2>1, <2>2, <2>3, LaterStep
  <1>2. CASE CreateShmSession(s, x)
    <2> USE <1>2 DEF CreateShmSession, At, Cli, Srv
    <2>1. Later(s) BY DEF Later, TypeOK, app, channels
    <2>2. SocketsFirst' BY DEF TypeOK, SocketsFirst, channels
    <2>3. LentSoFar' BY DEF TypeOK, LentSoFar, app
    <2> QED BY <2>1, <2>2, <2>3, LaterStep
  <1>3. CASE LendArena(s, x)
    <2> USE <1>3 DEF LendArena, At, Cli, Srv, Lending, State, NextLend, Lent, Other, SessionShm
    <2>1. Later(s)
      <3>1. Lent(s, x) \in Nat \cup {None} BY DEF TypeOK
      <3>2. known' \in [Sessions -> [Sides -> SUBSET (Nat \cup {None})]] BY <3>1 DEF TypeOK
      <3>3. TypeOK' BY <3>2 DEF TypeOK, app, channels
      <3> QED BY <3>3 DEF Later, TypeOK, app
    <2>2. SocketsFirst' BY DEF TypeOK, SocketsFirst, channels
    <2>3. LentSoFar'
      <3>1. CASE x = "cli" BY <3>1 DEF TypeOK, LentSoFar, app
      <3>2. CASE x = "srv" BY <3>2 DEF TypeOK, LentSoFar, app
      <3> QED BY <3>1, <3>2
    <2> QED BY <2>1, <2>2, <2>3, LaterStep
  <1>4. CASE LendArenaFails(s, x)
    <2> USE <1>4 DEF LendArenaFails, At, Cli, Srv, Lending, State
    <2>1. Later(s) BY DEF Later, TypeOK
    <2>2. SocketsFirst' BY DEF TypeOK, SocketsFirst
    <2>3. LentSoFar' BY DEF TypeOK, LentSoFar
    <2> QED BY <2>1, <2>2, <2>3, LaterStep
  <1> QED BY <1>1, <1>2, <1>3, <1>4

(* Failed sessions go, clients are killed, the master channel fails. *)
LEMMA EndStep ==
  ASSUME IndInv, NEW s \in Sessions,
         DestroyCli(s) \/ DestroySrv(s) \/ KillClient(s) \/ HoseCli(s) \/ TimeOut(s)
  PROVE  IndInv'
  <1> USE DEF IndInv
  <1>1. CASE DestroyCli(s)
    <2> USE <1>1 DEF DestroyCli, Cli
    <2>1. Later(s) BY DEF Later, TypeOK, app, Sides
    <2>2. SocketsFirst' BY DEF TypeOK, SocketsFirst, Sides
    <2>3. LentSoFar' BY DEF TypeOK, LentSoFar, app
    <2> QED BY <2>1, <2>2, <2>3, LaterStep
  <1>2. CASE DestroySrv(s)
    <2> USE <1>2 DEF DestroySrv, Srv
    <2>1. Later(s) BY DEF Later, TypeOK, app, Sides
    <2>2. SocketsFirst' BY DEF TypeOK, SocketsFirst, Sides
    <2>3. LentSoFar' BY DEF TypeOK, LentSoFar, app
    <2> QED BY <2>1, <2>2, <2>3, LaterStep
  <1>3. CASE KillClient(s)
    <2> USE <1>3 DEF KillClient
    <2>1. Later(s) BY DEF Later, TypeOK, app, Sides
    <2>2. SocketsFirst' BY DEF TypeOK, SocketsFirst, Sides
    <2>3. LentSoFar' BY DEF TypeOK, LentSoFar, app
    <2> QED BY <2>1, <2>2, <2>3, LaterStep
  <1>4. CASE HoseCli(s)
    <2> USE <1>4 DEF HoseCli
    <2>1. Later(s) BY DEF Later, TypeOK, app, Sides
    <2>2. SocketsFirst' BY DEF TypeOK, SocketsFirst, Sides
    <2>3. LentSoFar' BY DEF TypeOK, LentSoFar, app
    <2> QED BY <2>1, <2>2, <2>3, LaterStep
  <1>5. CASE TimeOut(s)
    <2> USE <1>5 DEF TimeOut
    <2>1. Later(s) BY DEF Later, TypeOK, app, Sides
    <2>2. SocketsFirst' BY DEF TypeOK, SocketsFirst, Sides
    <2>3. LentSoFar' BY DEF TypeOK, LentSoFar, app
    <2> QED BY <2>1, <2>2, <2>3, LaterStep
  <1> QED BY <1>1, <1>2, <1>3, <1>4, <1>5

(* Every step keeps the invariant. *)
LEMMA NextIndInv == IndInv /\ [Next]_vars => IndInv'
  <1> SUFFICES ASSUME IndInv, [Next]_vars PROVE IndInv'
    OBVIOUS
  <1>1. ASSUME NEW s \in Sessions, Step(s) PROVE IndInv'
    BY <1>1, AppShmStep, LogInStep, ServerStep, HandleSetupStep, InitShmStep, EndStep DEF Step
  <1>2. ASSUME NEW s \in Sessions, KillClient(s) \/ HoseCli(s) \/ TimeOut(s) PROVE IndInv'
    BY <1>2, EndStep
  <1>3. CASE UNCHANGED vars
    BY <1>3 DEF vars, channels, app, IndInv, TypeOK, CreatorHoldsMutex, ArenaFound, OneArenaPerApp,
       SocketsFirst, LentSoFar
  <1> QED BY <1>1, <1>2, <1>3 DEF Next

(* So it always holds. *)
LEMMA IndInvHolds == Spec => []IndInv
  BY InitIndInv, NextIndInv, PTL DEF Spec

(* However many clients of an application log in at the same time, their    *)
(* sessions all have the arena that the first of them made.                 *)
THEOREM OneArenaPerAppAlways == Spec => []OneArenaPerApp
  <1>1. IndInv => OneArenaPerApp
    BY DEF IndInv
  <1> QED BY <1>1, IndInvHolds, PTL

(* When both sides have reported success each has accepted all arenas of the *)
(* other, over a channel that is up, whatever other sessions and failures    *)
(* came in between.                                                          *)
THEOREM PeersCanAlwaysLend == Spec => []PeersCanLend
  <1>1. IndInv => PeersCanLend
    <2> SUFFICES ASSUME IndInv, NEW s \in Sessions, cli[s] = "peer", srv[s] = "peer"
                 PROVE  /\ known[s]["cli"] = {SessionShm, appShm[App[s]]}
                        /\ known[s]["srv"] = {SessionShm}
                        /\ \A x \in Sides : sock[s][x] = "open" /\ shm[s][x] = "up"
      BY DEF PeersCanLend
    <2>1. cached[s] = appShm[App[s]]
      BY DEF IndInv, ArenaFound, OneArenaPerApp
    <2>2. known[s]["cli"] = {SessionShm, appShm[App[s]]} /\ known[s]["srv"] = {SessionShm}
      BY <2>1 DEF IndInv, LentSoFar
    <2>3. \A x \in Sides : sock[s][x] = "open" /\ shm[s][x] = "up"
      BY DEF IndInv, SocketsFirst, Sides
    <2> QED BY <2>2, <2>3
  <1> QED BY <1>1, IndInvHolds, PTL

-----------------------------------------------------------------------------
(* Ending: SessionTeardown. *)

(* A session that is a listener, or that a notifying thread has before it or *)
(* is in, exists; such a thread only goes through sessions of its process.   *)
Attached ==
  /\ \A s \in listening : state[s] # "gone"
  /\ \A p \in Procs : \A s \in todo[p] : ProcOf[s] = p /\ state[s] # "gone"
  /\ \A p \in Procs : calling[p] \in Ends =>
                        ProcOf[calling[p]] = p /\ state[calling[p]] # "gone"

TeardownInv == TeardownTypeOK /\ Attached

(* Every step keeps the types. *)
LEMMA TeardownTypeStep == TeardownTypeOK /\ [TeardownNext]_teardownVars => TeardownTypeOK'
<1> SUFFICES ASSUME TeardownTypeOK, [TeardownNext]_teardownVars PROVE TeardownTypeOK'
  OBVIOUS
<1> USE TeardownAssumption DEF TeardownTypeOK
<1>1. ASSUME NEW p \in Procs, CreatePool(p)
      PROVE  TeardownTypeOK'
  BY <1>1 DEF CreatePool
<1>2. ASSUME NEW s \in Ends, Request(s)
      PROVE  TeardownTypeOK'
  BY <1>2 DEF Request
<1>3. ASSUME NEW s \in Ends, Answer(s)
      PROVE  TeardownTypeOK'
  BY <1>3 DEF Answer
<1>4. ASSUME NEW s \in Ends, Served(s) \/ TimedOut(s)
      PROVE  TeardownTypeOK'
  BY <1>4 DEF Served, TimedOut, Return
<1>5. ASSUME NEW s \in Ends, Borrow(s) \/ Drop(s)
      PROVE  TeardownTypeOK'
  BY <1>5 DEF Borrow, Drop, Stop
<1>6. ASSUME NEW s \in Ends, Reset(s) \/ ResetChannel(s)
      PROVE  TeardownTypeOK'
  BY <1>6 DEF Reset, ResetChannel, Stop
<1>7. ASSUME NEW s \in Ends, Destroy(s)
      PROVE  TeardownTypeOK'
  BY <1>7 DEF Destroy
<1>8. CASE UNCHANGED teardownVars
  BY <1>8 DEF teardownVars
<1> HIDE DEF TeardownTypeOK
<1> QED  BY <1>1, <1>2, <1>3, <1>4, <1>5, <1>6, <1>7, <1>8 DEF TeardownNext

(* Only the destructor destroys a session, with the mutex locked. *)
LEMMA AttachedStep == TeardownTypeOK /\ Attached /\ [TeardownNext]_teardownVars => Attached'
<1> SUFFICES ASSUME TeardownTypeOK, Attached, [TeardownNext]_teardownVars PROVE Attached'
  OBVIOUS
<1> USE TeardownAssumption DEF TeardownTypeOK, Attached
<1>1. ASSUME NEW p \in Procs, CreatePool(p)
      PROVE  Attached'
  BY <1>1 DEF CreatePool
<1>2. ASSUME NEW s \in Ends, Request(s)
      PROVE  Attached'
  BY <1>2 DEF Request
<1>3. ASSUME NEW s \in Ends, Answer(s)
      PROVE  Attached'
  BY <1>3 DEF Answer
<1>4. ASSUME NEW s \in Ends, Served(s) \/ TimedOut(s)
      PROVE  Attached'
  BY <1>4 DEF Served, TimedOut, Return
<1>5. ASSUME NEW s \in Ends, Borrow(s) \/ Drop(s)
      PROVE  Attached'
  BY <1>5 DEF Borrow, Drop, Stop
<1>6. ASSUME NEW s \in Ends, Reset(s) \/ ResetChannel(s)
      PROVE  Attached'
  BY <1>6 DEF Reset, ResetChannel, Stop
(* The destructor takes the listener out under the mutex: whoever is going   *)
(* through the listeners is in another process.                              *)
<1>7. ASSUME NEW s \in Ends, Destroy(s)
      PROVE  Attached'
  <2>1. \A p \in Procs : s \notin todo[p] /\ calling[p] # s
    BY <1>7 DEF Destroy, MutexFree
  <2> QED  BY <1>7, <2>1 DEF Destroy
<1>8. CASE UNCHANGED teardownVars
  BY <1>8 DEF teardownVars
<1> HIDE DEF TeardownTypeOK, Attached
<1> QED  BY <1>1, <1>2, <1>3, <1>4, <1>5, <1>6, <1>7, <1>8 DEF TeardownNext

(* A thread notifying an arena's listeners never calls a session that was    *)
(* destroyed, in any arrangement of processes and sessions, whatever times   *)
(* out and however long borrowed objects are kept.                           *)
THEOREM ListenersAlwaysExist == TeardownSpec => []ListenersExist
<1>1. TeardownInit => TeardownInv
  BY TeardownAssumption DEF TeardownInit, TeardownInv, TeardownTypeOK, Attached
<1>2. TeardownInv /\ [TeardownNext]_teardownVars => TeardownInv'
  BY TeardownTypeStep, AttachedStep DEF TeardownInv
<1>3. TeardownInv => ListenersExist
  BY DEF TeardownInv, TeardownTypeOK, Attached, ListenersExist
<1> QED  BY <1>1, <1>2, <1>3, PTL DEF TeardownSpec

-----------------------------------------------------------------------------

(* How far reset_shm() is tells what state the session object is in, for a   *)
(* session that no borrowed object outlives.                                 *)
ResetInOrder ==
  \A s \in Ends \ Keeping :
    /\ s \in borrowed => reset[s] = "no"
    /\ reset[s] = "no" => state[s] = "up"
    /\ reset[s] = "session" => state[s] = "stopped"
    /\ reset[s] \in {"channel", "done"} => state[s] = "gone"

(* reset_shm(), the destructor and borrowed objects keep that order.         *)
LEMMA ResetInOrderStep == TeardownTypeOK /\ ResetInOrder /\ [TeardownNext]_teardownVars => ResetInOrder'
<1> SUFFICES ASSUME TeardownTypeOK, ResetInOrder, [TeardownNext]_teardownVars PROVE ResetInOrder'
  OBVIOUS
<1> USE DEF TeardownTypeOK, ResetInOrder
<1>1. ASSUME NEW p \in Procs, CreatePool(p)
      PROVE  ResetInOrder'
  BY <1>1 DEF CreatePool
<1>2. ASSUME NEW s \in Ends, Request(s) \/ Answer(s) \/ Served(s) \/ TimedOut(s)
      PROVE  ResetInOrder'
  BY <1>2 DEF Request, Answer, Served, TimedOut, Return
<1>3. ASSUME NEW s \in Ends, Borrow(s) \/ Drop(s)
      PROVE  ResetInOrder'
  BY <1>3 DEF Borrow, Drop, Stop
<1>4. ASSUME NEW s \in Ends, Reset(s) \/ ResetChannel(s)
      PROVE  ResetInOrder'
  BY <1>4 DEF Reset, ResetChannel, Stop
<1>5. ASSUME NEW s \in Ends, Destroy(s)
      PROVE  ResetInOrder'
  BY <1>5 DEF Destroy
<1>6. CASE UNCHANGED teardownVars
  BY <1>6 DEF teardownVars
<1> HIDE DEF TeardownTypeOK, ResetInOrder
<1> QED  BY <1>1, <1>2, <1>3, <1>4, <1>5, <1>6 DEF TeardownNext

(* The channel is there as long as the session object, in any arrangement of *)
(* processes and sessions, for sessions whose borrowed objects are not kept. *)
THEOREM ChannelAlwaysOutlivesSession == TeardownSpec => []ChannelOutlivesSession
<1>1. TeardownInit => TeardownTypeOK /\ ResetInOrder
  BY TeardownAssumption DEF TeardownInit, TeardownTypeOK, ResetInOrder
<1>2. TeardownTypeOK /\ ResetInOrder /\ [TeardownNext]_teardownVars => (TeardownTypeOK /\ ResetInOrder)'
  BY TeardownTypeStep, ResetInOrderStep
<1>3. TeardownTypeOK /\ ResetInOrder => ChannelOutlivesSession
  BY DEF TeardownTypeOK, ResetInOrder, ChannelOutlivesSession, HasChannel
<1> QED  BY <1>1, <1>2, <1>3, PTL DEF TeardownSpec

=============================================================================
