---------------------------- MODULE SessionSetup ----------------------------
(***************************************************************************)
(* Opening sessions with SHM: what Client_session_impl and                 *)
(* Server_session_impl of the SHM-jemalloc provider add to the log-in.     *)
(* The server makes the arena of the client's application, if it is the    *)
(* first of it, and a pair of sockets; it sends one of them over the       *)
(* master channel, and when the client has acknowledged it both sides make *)
(* a Shm_session on their socket and lend their arenas to each other.      *)
(*                                                                         *)
(* Every session has a client process of its own and a thread W on each    *)
(* side, which waits in sync_request() for as long as it takes.            *)
(***************************************************************************)
EXTENDS Naturals, FiniteSets

CONSTANTS
  Sessions,
  App,           \* session -> the client's Client_app
  MaxArenas,     \* bound: app-scope arenas created
  None

ASSUME ConstantsAssumption ==
  /\ MaxArenas \in Nat
  /\ None \notin Sessions /\ None \notin Nat

Apps == {App[s] : s \in Sessions}

(* A side's session_shm(); app-scope arenas have numbers from 1. *)
SessionShm == 0

VARIABLES
  cli,         \* session -> where the client's thread W is: "log_in", "connecting",
               \* "init", "lending", "peer", "failed", "gone"
  srv,         \* and the server's: "log_in", "creating", "created", "prepared",
               \* "logged_in", "await_ack", "init", "lend_session", "lend_app", ...
  cliHosed,    \* session -> whether the client's end of the master channel has failed
  srvHosed,    \* and the server's
  setup,       \* session -> JEMALLOC_SHM_SETUP: "none", "sent", "acked"
  sock,        \* session -> side -> "none", "open", "closed": ends of the socket pair
  shm,         \* session -> side -> "none", "up", "reset": m_shm_session
  known,       \* session -> side -> arenas the side has accepted as borrower
  appShm,      \* app -> m_app_shm_by_name
  cached,      \* session -> m_app_shm
  mutex,       \* m_app_shm_mutex
  nextArena

channels == <<cliHosed, srvHosed, setup, sock>>
app == <<appShm, cached, mutex, nextArena>>
vars == <<cli, srv, channels, shm, known, app>>

Sides == {"cli", "srv"}
Other(x) == IF x = "cli" THEN "srv" ELSE "cli"

Init ==
  /\ cli = [s \in Sessions |-> "log_in"] /\ srv = [s \in Sessions |-> "log_in"]
  /\ cliHosed = [s \in Sessions |-> FALSE] /\ srvHosed = [s \in Sessions |-> FALSE]
  /\ setup = [s \in Sessions |-> "none"]
  /\ sock = [s \in Sessions |-> [x \in Sides |-> "none"]]
  /\ shm = [s \in Sessions |-> [x \in Sides |-> "none"]]
  /\ known = [s \in Sessions |-> [x \in Sides |-> {}]]
  /\ appShm = [a \in Apps |-> None]
  /\ cached = [s \in Sessions |-> None]
  /\ mutex = None /\ nextArena = 1

Cli(s, from, to) == cli[s] = from /\ cli' = [cli EXCEPT ![s] = to]
Srv(s, from, to) == srv[s] = from /\ srv' = [srv EXCEPT ![s] = to]

-----------------------------------------------------------------------------
(* The server, before it answers the log-in: init_app_shm_as_needed(). *)

InitAppShmUnlocked(s) ==   \* mutant: no Lock_guard
  /\ IF appShm[App[s]] # None
     THEN Srv(s, "log_in", "created")
     ELSE Srv(s, "log_in", "creating")
  /\ UNCHANGED <<cli, channels, shm, known, app>>

InitAppShm(s) ==
  /\ mutex = None
  /\ IF appShm[App[s]] # None
     THEN Srv(s, "log_in", "created") /\ UNCHANGED mutex
     ELSE Srv(s, "log_in", "creating") /\ mutex' = s
  /\ UNCHANGED <<cli, channels, shm, known, appShm, cached, nextArena>>

CreateAppArena(s) ==
  /\ nextArena <= MaxArenas
  /\ Srv(s, "creating", "created")
  /\ appShm' = [appShm EXCEPT ![App[s]] = nextArena]
  /\ nextArena' = nextArena + 1
  /\ mutex' = None
  /\ UNCHANGED <<cli, channels, shm, known, cached>>

(* The client is told, and its log-in fails. *)
CreateAppArenaFails(s) ==
  /\ Srv(s, "creating", "failed")
  /\ mutex' = None
  /\ cliHosed' = [cliHosed EXCEPT ![s] = TRUE]
  /\ UNCHANGED <<cli, srvHosed, setup, sock, shm, known, appShm, cached, nextArena>>

AppShmPtr(s) ==
  /\ mutex = None
  /\ Srv(s, "created", "prepared")
  /\ cached' = [cached EXCEPT ![s] = appShm[App[s]]]
  /\ UNCHANGED <<cli, channels, shm, known, appShm, mutex, nextArena>>

-----------------------------------------------------------------------------
(* The log-in itself. *)

LogIn(s) ==
  /\ ~cliHosed[s] /\ ~srvHosed[s]
  /\ Srv(s, "prepared", "logged_in")
  /\ Cli(s, "log_in", "connecting")
  /\ UNCHANGED <<channels, shm, known, app>>

(* on_done_func() with the error of the master channel. *)
CliHosed(s) ==
  /\ cliHosed[s]
  /\ Cli(s, "log_in", "failed") \/ Cli(s, "connecting", "failed")
  /\ UNCHANGED <<srv, channels, shm, known, app>>

SrvHosed(s) ==
  /\ srvHosed[s]
  /\ Srv(s, "prepared", "failed")
  /\ cached' = [cached EXCEPT ![s] = None]
  /\ UNCHANGED <<cli, channels, shm, known, appShm, mutex, nextArena>>

-----------------------------------------------------------------------------
(* The internal channel. *)

(* reset_shm(), and m_app_shm too. *)
SrvGivesUp(s, from, end) ==
  /\ Srv(s, from, "failed")
  /\ sock' = [sock EXCEPT ![s]["srv"] = end]
  /\ shm' = [shm EXCEPT ![s]["srv"] = IF @ = "up" THEN "reset" ELSE @]
  /\ cached' = [cached EXCEPT ![s] = None]
  /\ UNCHANGED <<cli, cliHosed, srvHosed, setup, known, appShm, mutex, nextArena>>

ConnectPair(s) ==
  /\ ~srvHosed[s]
  /\ Srv(s, "logged_in", "await_ack")
  /\ sock' = [sock EXCEPT ![s] = [x \in Sides |-> "open"]]
  /\ setup' = [setup EXCEPT ![s] = "sent"]
  /\ UNCHANGED <<cli, cliHosed, srvHosed, shm, known, app>>

ConnectPairFails(s) == SrvGivesUp(s, "logged_in", "none")

(* sync_request() finds the channel failed before it sends. *)
SendFails(s) == srvHosed[s] /\ SrvGivesUp(s, "logged_in", "open")

Acked(s) ==
  /\ setup[s] = "acked" /\ ~srvHosed[s]
  /\ Srv(s, "await_ack", "init")
  /\ UNCHANGED <<cli, channels, shm, known, app>>

(* sync_request() fails while it waits; init_shm(), which would dispose of *)
(* the socket, is not called.                                              *)
AckFails(s) == srvHosed[s] /\ SrvGivesUp(s, "await_ack", "open")

(* The client's handler of JEMALLOC_SHM_SETUP: it acknowledges. *)
HandleSetup(s) ==
  /\ setup[s] = "sent" /\ ~cliHosed[s]
  /\ Cli(s, "connecting", "init")
  /\ setup' = [setup EXCEPT ![s] = "acked"]
  /\ UNCHANGED <<srv, cliHosed, srvHosed, sock, shm, known, app>>

(* send() finds that the channel has failed. *)
HandleSetupFails(s) ==
  /\ setup[s] = "sent" /\ cliHosed[s]
  /\ Cli(s, "connecting", "failed")
  /\ UNCHANGED <<srv, channels, shm, known, app>>

-----------------------------------------------------------------------------
(* init_shm(), on both sides. *)

At(s, x, from, to) ==
  \/ x = "cli" /\ Cli(s, from, to) /\ UNCHANGED srv
  \/ x = "srv" /\ Srv(s, from, to) /\ UNCHANGED cli

ArenaFailsQuietly(s, x) ==   \* mutant: the socket is not released
  /\ At(s, x, "init", "failed")
  /\ UNCHANGED <<sock, shm>>

ArenaFails(s, x) ==
  /\ At(s, x, "init", "failed")
  /\ sock' = [sock EXCEPT ![s][x] = "closed"]
  /\ UNCHANGED shm

CreateArenaFails(s, x) ==
  /\ ArenaFails(s, x)
  /\ cached' = IF x = "srv" THEN [cached EXCEPT ![s] = None] ELSE cached
  /\ UNCHANGED <<cliHosed, srvHosed, setup, known, appShm, mutex, nextArena>>

(* The arena, the channel and the Shm_session are made. *)
CreateShmSession(s, x) ==
  /\ At(s, x, "init", IF x = "cli" THEN "lending" ELSE "lend_session")
  /\ shm' = [shm EXCEPT ![s][x] = "up"]
  /\ UNCHANGED <<channels, known, app>>

NextLendSessionOnly(s, x) == "peer"   \* mutant: the app's arena is left out

(* After session_shm() the server lends app_shm(). *)
NextLend(s, x) == IF srv[s] = "lend_session" /\ x = "srv" THEN "lend_app" ELSE "peer"

Lending(s, x) == IF x = "cli" THEN cli[s] = "lending" ELSE srv[s] \in {"lend_session", "lend_app"}

Lent(s, x) == IF x = "srv" /\ srv[s] = "lend_app" THEN cached[s] ELSE SessionShm

State(s, x) == IF x = "cli" THEN cli[s] ELSE srv[s]

(* The peer's Shm_session handles requests in a thread of its own. *)
Answers(s, y) == shm[s][y] = "up"

(* lend_arena() *)
LendArena(s, x) ==
  /\ Lending(s, x)
  /\ sock[s] = [y \in Sides |-> "open"] /\ Answers(s, Other(x))
  /\ known' = [known EXCEPT ![s][Other(x)] = @ \cup {Lent(s, x)}]
  /\ At(s, x, State(s, x), NextLend(s, x))
  /\ UNCHANGED <<channels, shm, app>>

(* The peer has closed its end, or refuses: session, channel and arena are *)
(* reset.                                                                  *)
LendArenaFails(s, x) ==
  /\ Lending(s, x)
  /\ sock[s][Other(x)] = "closed" \/ Answers(s, Other(x))
  /\ At(s, x, State(s, x), "failed")
  /\ sock' = [sock EXCEPT ![s][x] = "closed"]
  /\ shm' = [shm EXCEPT ![s][x] = "reset"]
  /\ cached' = IF x = "srv" THEN [cached EXCEPT ![s] = None] ELSE cached
  /\ UNCHANGED <<cliHosed, srvHosed, setup, known, appShm, mutex, nextArena>>

-----------------------------------------------------------------------------
(* Failed sessions are destroyed by the application, which closes the master *)
(* channel for the other side; a client process may be killed at any time,   *)
(* which closes everything of it.                                            *)

DestroyCli(s) ==
  /\ Cli(s, "failed", "gone")
  /\ srvHosed' = [srvHosed EXCEPT ![s] = TRUE]
  /\ UNCHANGED <<srv, cliHosed, setup, sock, shm, known, app>>

DestroySrv(s) ==
  /\ Srv(s, "failed", "gone")
  /\ cliHosed' = [cliHosed EXCEPT ![s] = TRUE]
  /\ UNCHANGED <<cli, srvHosed, setup, sock, shm, known, app>>

KillClient(s) ==
  /\ cli[s] # "gone"
  /\ cli' = [cli EXCEPT ![s] = "gone"]
  /\ srvHosed' = [srvHosed EXCEPT ![s] = TRUE]
  /\ sock' = [sock EXCEPT ![s]["cli"] = IF @ = "open" THEN "closed" ELSE @]
  /\ shm' = [shm EXCEPT ![s]["cli"] = IF @ = "up" THEN "reset" ELSE @]
  /\ UNCHANGED <<srv, cliHosed, setup, known, app>>

HoseCli(s) ==
  /\ ~cliHosed[s]
  /\ cliHosed' = [cliHosed EXCEPT ![s] = TRUE]
  /\ UNCHANGED <<cli, srv, srvHosed, setup, sock, shm, known, app>>

(* The server's idle timer fires: the client has been silent for too long. *)
TimeOut(s) ==
  /\ ~srvHosed[s]
  /\ srvHosed' = [srvHosed EXCEPT ![s] = TRUE]
  /\ UNCHANGED <<cli, srv, cliHosed, setup, sock, shm, known, app>>

-----------------------------------------------------------------------------
Step(s) ==
  \/ InitAppShm(s) \/ CreateAppArena(s) \/ CreateAppArenaFails(s) \/ AppShmPtr(s)
  \/ LogIn(s) \/ CliHosed(s) \/ SrvHosed(s)
  \/ ConnectPair(s) \/ ConnectPairFails(s) \/ SendFails(s) \/ Acked(s) \/ AckFails(s)
  \/ HandleSetup(s) \/ HandleSetupFails(s)
  \/ \E x \in Sides : \/ CreateArenaFails(s, x) \/ CreateShmSession(s, x)
                      \/ LendArena(s, x) \/ LendArenaFails(s, x)
  \/ DestroyCli(s) \/ DestroySrv(s)

Next ==
  \E s \in Sessions : Step(s) \/ KillClient(s) \/ HoseCli(s) \/ TimeOut(s)

Spec == Init /\ [][Next]_vars

(* Threads go on, and the application destroys sessions that failed. *)
FairSpec == Spec /\ \A s \in Sessions : WF_vars(Step(s))

-----------------------------------------------------------------------------
(* Properties. *)

(* Once on_done_func() has reported success on both sides, each can lend from *)
(* every arena it has: the other has accepted it, and the channel between     *)
(* them is up.                                                                *)
PeersCanLend ==
  \A s \in Sessions : (cli[s] = "peer" /\ srv[s] = "peer") =>
    /\ known[s]["cli"] = {SessionShm, appShm[App[s]]}
    /\ known[s]["srv"] = {SessionShm}
    /\ \A x \in Sides : sock[s][x] = "open" /\ shm[s][x] = "up"

(* All sessions of an application share one app_shm(), whichever of several *)
(* concurrent log-ins created it: its address never changes.                *)
OneArenaPerApp ==
  \A s \in Sessions : cached[s] # None => cached[s] = appShm[App[s]]

(* The server gave up waiting for an acknowledgement that the client had   *)
(* sent; its process keeps its end of the socket pair open.                *)
SocketLeaked(s) ==
  srv[s] \in {"failed", "gone"} /\ setup[s] = "acked" /\ sock[s]["srv"] = "open"

(* Whatever fails on the way, opening a session comes to an end on both      *)
(* sides: no thread W waits for an answer that is not going to come.  There  *)
(* is one exception, the client of a server that lost the acknowledgement:   *)
(* it waits in lend_arena() on a socket that nobody reads and nobody closes. *)
OpeningEnds ==
  \A s \in Sessions : <>(/\ srv[s] \in {"peer", "failed", "gone"}
                         /\ cli[s] \in {"peer", "failed", "gone"} \/ SocketLeaked(s))
=============================================================================
