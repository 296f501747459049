SPECIFICATION Spec
CONSTANTS
  s1 = s1
  s2 = s2
  s3 = s3
  o1 = o1
  o2 = o2
  c1 = c1
  c2 = c2
  c3 = c3
  p1 = p1
  p2 = p2
  p3 = p3
  Sessions = {s1, s2, s3}
  Owners = {o1, o2}
  Collections = {c1, c2, c3}
  Pools = {p1, p2, p3}
  OwnerOf <- MCOwnerOf
  CreatorOf <- MCCreatorOf
  CollectionOf <- MCCollectionOf
  MaxRepeats = 2
INVARIANTS OpenWhileUsed PoolsCounted NothingLeft
CHECK_DEADLOCK FALSE
