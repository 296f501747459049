SPECIFICATION PointersSpec
CONSTANTS
  OffCount = 8
  IdCount = 8
  PoolIds = {1, 2}
  Size <- MCSize
  Owner = owner
  Processes = {owner, borrower}
  Places = {5, 8}
  RawAddrs = {0, 5, 9, 11, 126}
  Slots = {s, t}
  Counts <- MCCounts
  ElemSize = 2
INVARIANTS GetIsNative ComparedAsOffsets OffsetOnly
SYMMETRY SlotSymmetry
CHECK_DEADLOCK FALSE
