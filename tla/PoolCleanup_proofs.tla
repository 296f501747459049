------------------------- MODULE PoolCleanup_proofs -------------------------
(***************************************************************************)
(* No cleanup takes away the name of a pool whose creator runs, for any    *)
(* processes, applications and number of pools.                            *)
(***************************************************************************)
EXTENDS PoolCleanup, TLAPS

(* The process that a cleanup takes for the creator of a name. *)
CreatorPid(n) == IF n.fragment = None THEN n.srvPid ELSE n.fragment

(* A name of a pool that is in use leads to the process that created it. *)
LeadsToCreator(n) ==
  n.id \in owned => CreatorPid(n) \in Pids /\ process[CreatorPid(n)] = creator[n.id]

Functions ==
  /\ DOMAIN process = Pids
  /\ DOMAIN scan = Pids
  /\ DOMAIN doomed = Pids
  /\ DOMAIN creator = Ids
  /\ nextId \in Nat \ {0}

OwnersRun == \A i \in owned : i \in Ids /\ creator[i] # 0

NamesTell == \A n \in names : n.id \in Nat /\ n.id < nextId /\ LeadsToCreator(n)

(* Names that a cleanup has listed may be gone, but tell as much. *)
ScannedTell ==
  \A p \in Pids : \A n \in scan[p] : n.id \in Nat /\ n.id < nextId /\ LeadsToCreator(n)

(* What was doomed stays without owner: ids are not drawn again, so a process *)
(* that gets the dead one's pid later has other pools.                        *)
DoomedAreOrphans ==
  \A p \in Pids : \A n \in doomed[p] : n.id \in Nat /\ n.id < nextId /\ n.id \notin owned

IndInv ==
  Functions /\ OwnersRun /\ NamesTell /\ ScannedTell /\ DoomedAreOrphans /\ OwnedPoolsHaveNames

LEMMA InitIndInv == Init => IndInv
  <1> SUFFICES ASSUME Init PROVE IndInv
    OBVIOUS
  <1>1. Functions
    BY DEF Init, Functions
  <1>2. OwnersRun /\ NamesTell /\ ScannedTell /\ DoomedAreOrphans /\ OwnedPoolsHaveNames
    BY DEF Init, OwnersRun, NamesTell, ScannedTell, DoomedAreOrphans, OwnedPoolsHaveNames
  <1> QED BY <1>1, <1>2 DEF IndInv

LEMMA StartStep ==
  ASSUME IndInv, NEW p \in Pids, NEW k \in Kinds, Start(p, k)
  PROVE  IndInv'
  <1> DEFINE m == Cardinality(Started) + 1
  <1>1. process' = [process EXCEPT ![p] = m] /\ process[p] = 0
    BY DEF Start, ProcessRunning
  <1>2. UNCHANGED <<names, creator, owned, nextId, scan, doomed>>
    BY DEF Start
  <1> HIDE DEF m
  <1>3. \A n : LeadsToCreator(n) => LeadsToCreator(n)'
    BY <1>1, <1>2 DEF LeadsToCreator, CreatorPid, IndInv, Functions, OwnersRun
  <1> QED
    BY <1>1, <1>2, <1>3 DEF IndInv, Functions, OwnersRun, NamesTell, ScannedTell, DoomedAreOrphans,
       OwnedPoolsHaveNames, NameOf

LEMMA EndStep ==
  ASSUME IndInv, NEW p \in Pids, Kill(p) \/ Exit(p)
  PROVE  IndInv'
  <1>1. Gone(p) /\ UNCHANGED <<kind, names, creator, nextId>>
    BY DEF Kill, Exit
  <1>2. owned' \subseteq owned /\ \A i \in owned' : creator[i] # process[p]
    BY DEF Kill, Exit
  <1>3. \A n : LeadsToCreator(n) => LeadsToCreator(n)'
    BY <1>1, <1>2 DEF Gone, LeadsToCreator, CreatorPid, IndInv, Functions
  <1>4. Functions' /\ OwnersRun'
    BY <1>1, <1>2 DEF Gone, IndInv, Functions, OwnersRun
  <1>5. NamesTell' /\ ScannedTell' /\ DoomedAreOrphans'
    BY <1>1, <1>2, <1>3 DEF Gone, IndInv, Functions, NamesTell, ScannedTell, DoomedAreOrphans
  <1>6. OwnedPoolsHaveNames'
    BY <1>1, <1>2 DEF IndInv, OwnedPoolsHaveNames, NameOf
  <1> QED BY <1>4, <1>5, <1>6 DEF IndInv

(* A new pool has a new id and a name that leads to its creator. *)
LEMMA NewPoolStep ==
  ASSUME IndInv, NEW p \in Pids, NEW srvApp, NEW srvPid, NEW cliApp,
         process[p] # 0, CreatorPid(Name(p, nextId, srvApp, srvPid, cliApp)) = p,
         NewPool(p, srvApp, srvPid, cliApp)
  PROVE  IndInv'
  <1> DEFINE new == Name(p, nextId, srvApp, srvPid, cliApp)
  <1>1. /\ names' = names \cup {new}
        /\ creator' = [creator EXCEPT ![nextId] = process[p]]
        /\ owned' = owned \cup {nextId}
        /\ nextId' = nextId + 1
        /\ UNCHANGED <<process, kind, scan, doomed>>
    BY DEF NewPool
  <1>2. nextId \in Nat /\ nextId <= MaxPools
    BY DEF IndInv, Functions, NewPool
  <1>3. new.id = nextId /\ CreatorPid(new) = p
    BY DEF Name
  <1> HIDE DEF new
  <1>4. \A i \in owned : i \in Nat /\ i < nextId
    BY DEF IndInv, NamesTell, OwnedPoolsHaveNames, NameOf
  <1>5. nextId \in Ids
    <2>1. nextId >= 1
      BY DEF IndInv, Functions
    <2> QED BY <1>2, <2>1, ConstantsAssumption DEF Ids
  <1>6. \A n : n.id \in Nat /\ n.id < nextId /\ LeadsToCreator(n) => LeadsToCreator(n)'
    BY <1>1, <1>2, <1>4 DEF LeadsToCreator, CreatorPid, IndInv, Functions, OwnersRun
  <1>7. \A n : n.id = nextId /\ CreatorPid(n) = p => LeadsToCreator(n)'
    BY <1>1, <1>5 DEF LeadsToCreator, CreatorPid, IndInv, Functions
  <1>8. Functions' /\ OwnersRun'
    BY <1>1, <1>2, <1>4, <1>5 DEF IndInv, Functions, OwnersRun
  <1>9. NamesTell'
    BY <1>1, <1>2, <1>3, <1>6, <1>7 DEF IndInv, NamesTell
  <1>10. ScannedTell' /\ DoomedAreOrphans'
    BY <1>1, <1>2, <1>6 DEF IndInv, ScannedTell, DoomedAreOrphans
  <1>11. OwnedPoolsHaveNames'
    BY <1>1, <1>3 DEF IndInv, OwnedPoolsHaveNames, NameOf
  <1> QED BY <1>8, <1>9, <1>10, <1>11 DEF IndInv

LEMMA RemovePoolStep ==
  ASSUME IndInv, NEW i \in Ids, RemovePool(i)
  PROVE  IndInv'
  <1>1. /\ owned' = owned \ {i}
        /\ names' = names \ NameOf(i)
        /\ UNCHANGED <<process, kind, creator, nextId, scan, doomed>>
    BY DEF RemovePool
  <1>2. \A n : LeadsToCreator(n) => LeadsToCreator(n)'
    BY <1>1 DEF LeadsToCreator, CreatorPid
  <1>3. OwnedPoolsHaveNames'
    BY <1>1 DEF IndInv, OwnedPoolsHaveNames, NameOf
  <1> QED
    BY <1>1, <1>2, <1>3 DEF IndInv, Functions, OwnersRun, NamesTell, ScannedTell, DoomedAreOrphans

LEMMA CleanupStep ==
  ASSUME IndInv, NEW p \in Pids, Cleanup(p)
  PROVE  IndInv'
  <1>1. UNCHANGED <<process, creator, owned, nextId>>
    BY DEF Cleanup, BeginCleanup, Examine, RemovePersistent
  <1>2. \A n : LeadsToCreator(n) => LeadsToCreator(n)'
    BY <1>1 DEF LeadsToCreator, CreatorPid
  <1>3. CASE BeginCleanup(p)
    BY <1>1, <1>2, <1>3 DEF BeginCleanup, IndInv, Functions, OwnersRun, NamesTell, ScannedTell,
       DoomedAreOrphans, OwnedPoolsHaveNames, NameOf
  <1>4. ASSUME NEW n \in scan[p], Examine(p, n) PROVE IndInv'
    <2>1. UNCHANGED names /\ scan' = [scan EXCEPT ![p] = @ \ {n}]
      BY <1>4 DEF Examine
    <2>2. ServerRemoves(p, n) \/ ClientRemoves(p, n) => n.id \notin owned
      BY DEF ServerRemoves, ClientRemoves, ProcessRunning, IndInv, ScannedTell, LeadsToCreator,
         CreatorPid, OwnersRun
    <2>3. doomed' = doomed \/ (n.id \notin owned /\ doomed' = [doomed EXCEPT ![p] = @ \cup {n}])
      BY <1>4, <2>2 DEF Examine
    <2>4. DoomedAreOrphans'
      BY <1>1, <2>3 DEF IndInv, Functions, DoomedAreOrphans, ScannedTell
    <2>5. Functions' /\ ScannedTell'
      BY <1>1, <1>2, <2>1, <2>3 DEF IndInv, Functions, ScannedTell
    <2> QED
      BY <1>1, <1>2, <2>1, <2>4, <2>5 DEF IndInv, OwnersRun, NamesTell, OwnedPoolsHaveNames, NameOf
  <1>5. ASSUME NEW n \in doomed[p], RemovePersistent(p, n) PROVE IndInv'
    <2>1. /\ names' = names \ {n} /\ UNCHANGED scan
          /\ doomed' = [doomed EXCEPT ![p] = @ \ {n}]
      BY <1>5 DEF RemovePersistent
    <2>2. n.id \notin owned
      BY DEF IndInv, DoomedAreOrphans
    <2>3. OwnedPoolsHaveNames'
      BY <1>1, <2>1, <2>2 DEF IndInv, OwnedPoolsHaveNames, NameOf
    <2>4. Functions' /\ DoomedAreOrphans'
      BY <1>1, <2>1 DEF IndInv, Functions, DoomedAreOrphans
    <2> QED
      BY <1>1, <1>2, <2>1, <2>3, <2>4 DEF IndInv, OwnersRun, NamesTell, ScannedTell
  <1> QED BY <1>3, <1>4, <1>5 DEF Cleanup

LEMMA StutterStep ==
  ASSUME IndInv, UNCHANGED vars
  PROVE  IndInv'
  BY DEF vars, IndInv, Functions, OwnersRun, NamesTell, ScannedTell, DoomedAreOrphans,
     OwnedPoolsHaveNames, NameOf, LeadsToCreator, CreatorPid

LEMMA NextIndInv == IndInv /\ [Next]_vars => IndInv'
  <1> SUFFICES ASSUME IndInv, [Next]_vars PROVE IndInv'
    OBVIOUS
  <1>1. ASSUME NEW p \in Pids, NEW k \in Kinds, Start(p, k) PROVE IndInv'
    BY <1>1, StartStep
  <1>2. ASSUME NEW p \in Pids, Kill(p) \/ Exit(p) PROVE IndInv'
    BY <1>2, EndStep
  <1>3. ASSUME NEW p \in Pids, NEW a \in Apps, CreateServerPool(p, a) PROVE IndInv'
    <2>1. process[p] # 0 /\ KindAt(p).side = "srv" /\ NewPool(p, KindAt(p).app, p, a)
      BY <1>3 DEF CreateServerPool, Is, ProcessRunning
    <2>2. CreatorPid(Name(p, nextId, KindAt(p).app, p, a)) = p
      BY <2>1 DEF CreatorPid, Name
    <2> QED BY <2>1, <2>2, NewPoolStep
  <1>4. ASSUME NEW p \in Pids, NEW q \in Pids, CreateClientPool(p, q) PROVE IndInv'
    <2>1. process[p] # 0 /\ KindAt(p).side = "cli" /\ NewPool(p, KindAt(q).app, q, KindAt(p).app)
      BY <1>4 DEF CreateClientPool, Is, ProcessRunning
    <2>2. CreatorPid(Name(p, nextId, KindAt(q).app, q, KindAt(p).app)) = p
      BY <2>1, ConstantsAssumption DEF CreatorPid, Name
    <2> QED BY <2>1, <2>2, NewPoolStep
  <1>5. ASSUME NEW p \in Pids, Cleanup(p) PROVE IndInv'
    BY <1>5, CleanupStep
  <1>6. ASSUME NEW i \in Ids, RemovePool(i) PROVE IndInv'
    BY <1>6, RemovePoolStep
  <1>7. CASE UNCHANGED vars
    BY <1>7, StutterStep
  <1> QED BY <1>1, <1>2, <1>3, <1>4, <1>5, <1>6, <1>7 DEF Next

(* cleanup() of servers and clients never unlinks a pool of a process that  *)
(* runs, however many processes of however many applications are killed,    *)
(* started with the same pids, and clean up at the same time.               *)
THEOREM OwnedPoolsAlwaysHaveNames == Spec => []OwnedPoolsHaveNames
  <1>1. Spec => []IndInv
    BY InitIndInv, NextIndInv, PTL DEF Spec
  <1>2. IndInv => OwnedPoolsHaveNames
    BY DEF IndInv
  <1> QED BY <1>1, <1>2, PTL

=============================================================================
