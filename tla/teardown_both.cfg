SPECIFICATION FairTeardownSpec
CONSTANTS
  srv = srv
  cli1 = cli1
  cli2 = cli2
  s1 = s1
  s2 = s2
  c1 = c1
  c2 = c2
  NoSession = NoSession
  Procs = {srv, cli1}
  Ends = {s1, c1}
  ProcOf <- PairProcOf
  Peer <- PairPeer
  Allocating = {srv, cli1}
  TimingOut = {}
  Keeping = {}
PROPERTY EveryoneFinishes
CHECK_DEADLOCK FALSE
