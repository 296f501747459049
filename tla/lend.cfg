SPECIFICATION FairSpec
CONSTANTS
  p1 = p1
  p2 = p2
  a = a
  c = c
  Pools = {p1, p2}
  Slots = {a, c}
  PoolOf <- TwoSlots
  NoPool = NoPool
  MaxUse = 2
  Relent = {a}
  MaxAttempts = 2
  CanTimeOut = TRUE
  CanRefuse = TRUE
  CanHose = TRUE
  CanForce = TRUE
INVARIANTS TypeOK Pinned NoLeak HandleIsBorrowable DroppedIsReported RemovalIsAccepted
PROPERTIES KeepsLease ReturnedIsFreed NotifierFinishes
CHECK_DEADLOCK FALSE
