SPECIFICATION Spec
CONSTANTS
  srv = srv
  cli = cli
  t1 = t1
  t2 = t2
  None = None
  Arenas = {srv, cli}
  ClientArenas = {cli}
  Threads = {t1, t2}
  Pages = {1, 2, 3}
  Requests <- MCRequests
  MaxPools = 3
SYMMETRY ThreadSymmetry
INVARIANTS LookupIsExact TranslatedIsMapped MemoryIsTranslated
  HooksFindPages NothingOfArenaLeft
PROPERTY NothingIsReplaced
CHECK_DEADLOCK FALSE
