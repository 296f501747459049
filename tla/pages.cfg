SPECIFICATION Spec
CONSTANTS
  Base <- TwoPools
  PoolSize = 2
CHECK_DEADLOCK FALSE
INVARIANTS
  CommittedIsAccessible
  ZeroedIsZero
  LiveDataKept
  RemovedHoldsNoMemory
