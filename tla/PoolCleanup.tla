----------------------------- MODULE PoolCleanup -----------------------------
(***************************************************************************)
(* Pools of killed processes: a process that does not exit gracefully      *)
(* leaves the names of its SHM objects behind.  Every Session_server and   *)
(* every Client_session looks for such names every 30 seconds: it parses   *)
(* application and process id of the creator out of them and removes the   *)
(* ones whose creator is not running.                                      *)
(***************************************************************************)
EXTENDS Naturals, FiniteSets

CONSTANTS
  Pids,
  Kinds,      \* what a process may be: [side, app]
  MaxStarts,  \* bound: processes started
  MaxPools,   \* bound: pool ids drawn
  None

Ids == 1..MaxPools

ASSUME ConstantsAssumption ==
  /\ MaxStarts \in Nat /\ MaxPools \in Nat
  /\ \A k \in Kinds : k.side \in {"srv", "cli"}
  /\ None \notin Pids

VARIABLES
  process,  \* pid -> the process that runs, its number in order of starts, or 0
  kind,     \* start -> its kind
  names,    \* the SHM objects' names
  creator,  \* pool id -> the process that drew it (0: none yet)
  owned,    \* pool ids of arenas that have not given the pool back
  nextId,   \* generate_pool_id()
  scan,     \* pid -> cleanup(): the names it has yet to look at
  doomed    \* pid -> the ones it is about to remove

vars == <<process, kind, names, creator, owned, nextId, scan, doomed>>

Apps == {k.app : k \in Kinds}

Init ==
  /\ process = [p \in Pids |-> 0]
  /\ kind = <<>>
  /\ names = {} /\ owned = {}
  /\ creator = [i \in Ids |-> 0]
  /\ nextId = 1
  /\ scan = [p \in Pids |-> {}] /\ doomed = [p \in Pids |-> {}]

Started == DOMAIN kind
ProcessRunning(p) == process[p] # 0
KindAt(p) == kind[process[p]]
Is(p, side) == ProcessRunning(p) /\ KindAt(p).side = side

-----------------------------------------------------------------------------
(* Processes.  The kernel gives the pids of dead ones out again. *)

Start(p, k) ==
  /\ ~ProcessRunning(p) /\ Cardinality(Started) < MaxStarts
  /\ LET n == Cardinality(Started) + 1
     IN  /\ process' = [process EXCEPT ![p] = n]
         /\ kind' = [m \in 1..n |-> IF m = n THEN k ELSE kind[m]]
  /\ UNCHANGED <<names, creator, owned, nextId, scan, doomed>>

Gone(p) ==
  /\ process' = [process EXCEPT ![p] = 0]
  /\ scan' = [scan EXCEPT ![p] = {}]
  /\ doomed' = [doomed EXCEPT ![p] = {}]

Kill(p) ==
  /\ ProcessRunning(p)
  /\ Gone(p)
  /\ owned' = {i \in owned : creator[i] # process[p]}
  /\ UNCHANGED <<kind, names, creator, nextId>>

(* The arenas are destroyed first. *)
Exit(p) ==
  /\ ProcessRunning(p)
  /\ \A i \in owned : creator[i] # process[p]
  /\ Gone(p)
  /\ UNCHANGED <<kind, names, creator, owned, nextId>>

-----------------------------------------------------------------------------
(* Names of pools: init_app_shm_as_needed(), init_shm(). *)

(* A client puts its pid between prefix and pool id. *)
Name(p, i, srvApp, srvPid, cliApp) ==
  [srvApp |-> srvApp, srvPid |-> srvPid, cliApp |-> cliApp,
   fragment |-> IF KindAt(p).side = "cli" THEN p ELSE None, id |-> i]

NameOf(i) == {n \in names : n.id = i}

NewPool(p, srvApp, srvPid, cliApp) ==
  /\ nextId <= MaxPools
  /\ names' = names \cup {Name(p, nextId, srvApp, srvPid, cliApp)}
  /\ creator' = [creator EXCEPT ![nextId] = process[p]]
  /\ owned' = owned \cup {nextId}
  /\ nextId' = nextId + 1
  /\ UNCHANGED <<process, kind, scan, doomed>>

(* Arenas of a server, for the clients of an application. *)
CreateServerPool(p, cliApp) ==
  /\ Is(p, "srv")
  /\ NewPool(p, KindAt(p).app, p, cliApp)

(* session_shm() of a client, named after the server it is connected to. *)
CreateClientPool(p, q) ==
  /\ Is(p, "cli") /\ Is(q, "srv")
  /\ NewPool(p, KindAt(q).app, q, KindAt(p).app)

(* remove_shm_object() by the arena itself *)
RemovePool(i) ==
  /\ i \in owned
  /\ owned' = owned \ {i}
  /\ names' = names \ NameOf(i)
  /\ UNCHANGED <<process, kind, creator, nextId, scan, doomed>>

-----------------------------------------------------------------------------
(* cleanup() *)

(* A round begins: the names are listed. *)
BeginCleanup(p) ==
  /\ Is(p, "srv") \/ Is(p, "cli")
  /\ scan[p] = {} /\ doomed[p] = {} /\ names # {}
  /\ scan' = [scan EXCEPT ![p] = names]
  /\ UNCHANGED <<process, kind, names, creator, owned, nextId, doomed>>

ServerRemovesAny(p, n) ==        \* mutant: no look for another separator
  /\ n.srvApp = KindAt(p).app
  /\ ~ProcessRunning(n.srvPid)

(* Session_server::cleanup(): pools of this application that a server made. *)
ServerRemoves(p, n) ==
  /\ n.srvApp = KindAt(p).app
  /\ n.fragment = None
  /\ ~ProcessRunning(n.srvPid)

ClientRemovesLikeServer(p, n) ==   \* mutant: copied from Session_server::cleanup()
  /\ n.cliApp = KindAt(p).app
  /\ n.fragment = None
  /\ ~ProcessRunning(n.srvPid)

(* Client_session_impl::cleanup(): pools that a client of this application *)
(* made, for whichever server.                                             *)
ClientRemoves(p, n) ==
  /\ n.cliApp = KindAt(p).app
  /\ n.fragment # None
  /\ ~ProcessRunning(n.fragment)

Examine(p, n) ==
  /\ n \in scan[p]
  /\ scan' = [scan EXCEPT ![p] = @ \ {n}]
  /\ doomed' = IF IF Is(p, "srv") THEN ServerRemoves(p, n) ELSE ClientRemoves(p, n)
               THEN [doomed EXCEPT ![p] = @ \cup {n}] ELSE doomed
  /\ UNCHANGED <<process, kind, names, creator, owned, nextId>>

(* remove_persistent(): a name that somebody else has removed does no harm. *)
RemovePersistent(p, n) ==
  /\ n \in doomed[p]
  /\ doomed' = [doomed EXCEPT ![p] = @ \ {n}]
  /\ names' = names \ {n}
  /\ UNCHANGED <<process, kind, creator, owned, nextId, scan>>

-----------------------------------------------------------------------------
Cleanup(p) ==
  \/ BeginCleanup(p)
  \/ \E n \in scan[p] : Examine(p, n)
  \/ \E n \in doomed[p] : RemovePersistent(p, n)

Next ==
  \/ \E p \in Pids :
       \/ \E k \in Kinds : Start(p, k)
       \/ Kill(p) \/ Exit(p)
       \/ \E a \in Apps : CreateServerPool(p, a)
       \/ \E q \in Pids : CreateClientPool(p, q)
       \/ Cleanup(p)
  \/ \E i \in Ids : RemovePool(i)

Spec == Init /\ [][Next]_vars

(* The cleanup thread of a running process goes on. *)
FairSpec == Spec /\ \A p \in Pids : WF_vars(Cleanup(p))

-----------------------------------------------------------------------------
(* Properties. *)

(* No cleanup removes a pool of a process that runs, even if the process got *)
(* its pid after the cleanup had found the previous one of that pid dead, or *)
(* is a client of a server that is gone: later sessions open pools by name.  *)
OwnedPoolsHaveNames == \A i \in owned : NameOf(i) # {}

Orphan(i) == NameOf(i) # {} /\ i \notin owned

(* Someone of the creator's application and side who would look for its pools. *)
Served(i) == \E p \in Pids : ProcessRunning(p) /\ KindAt(p) = kind[creator[i]]

PidInUse(i) == \E n \in NameOf(i) : ProcessRunning(IF n.fragment = None THEN n.srvPid ELSE n.fragment)

(* What a killed process leaves is removed in time, as long as a process of *)
(* the same application runs, unless its pid has been given to another.     *)
OrphansRemoved ==
  \A i \in Ids : Orphan(i) ~> (NameOf(i) = {} \/ PidInUse(i) \/ ~Served(i))
=============================================================================
