SPECIFICATION Spec
CONSTANTS
  Collections = {c1, c2}
  Threads = {t1, t2}
  Blocks = {b1, b2}
  MaxArenas = 2
  MaxCaches = 4
  ArenasPer = 1
  CanOverlap = FALSE
  None = None
INVARIANTS FlushedBeforeDestroyed ObjectsInOwnArena CachesAreReferenced
SYMMETRY Symmetry
CHECK_DEADLOCK FALSE
