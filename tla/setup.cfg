SPECIFICATION FairSpec
CONSTANTS
  s1 = s1
  s2 = s2
  Sessions = {s1, s2}
  App <- OneApp
  MaxArenas = 2
  None = None
CHECK_DEADLOCK FALSE
INVARIANTS
  PeersCanLend
  OneArenaPerApp
PROPERTIES
  OpeningEnds
