SPECIFICATION Spec
CONSTANTS
  p1 = p1  p2 = p2  s1 = s1  s2 = s2
  Producers = {p1}
  Shards = {s1}
  Capacity = 2
  MaxBatch = 1
  BudgetItems = 1
INVARIANTS
  PublishedIsReachable
CHECK_DEADLOCK FALSE
