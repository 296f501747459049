SPECIFICATION FairSpec
CONSTANTS
  t1 = t1
  t2 = t2
  t3 = t3
  p1 = p1
  p2 = p2
  Threads = {t1, t2, t3}
  Procs = {p1, p2}
  ProcOf <- MCProcOf
  NoThread = NoThread
  Half = 4
  MaxIds = 8
INVARIANTS IdsDiffer AllIdsUsedFirst OpenedIsInitialised
PROPERTY CallReturns
CHECK_DEADLOCK FALSE
