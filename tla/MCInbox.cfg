SPECIFICATION FairSpec
CONSTANTS
  p1 = p1  p2 = p2  s1 = s1  s2 = s2
  Producers = {p1, p2}
  Shards = {s1, s2}
  Capacity = 3
  MaxBatch = 2
  BudgetItems = 2
INVARIANTS
  TypeOK
  LinksFollowOrder
PROPERTIES
  ImplementsQueue
  LateLinksAppear
CHECK_DEADLOCK FALSE
