SPECIFICATION FairSpec
CONSTANTS
  Pids = {11, 12, 13}
  Kinds <- TwoKinds
  MaxStarts = 3
  MaxPools = 2
  None = None
CHECK_DEADLOCK FALSE
INVARIANTS
  OwnedPoolsHaveNames
PROPERTIES
  OrphansRemoved
