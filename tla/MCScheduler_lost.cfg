SPECIFICATION Spec
CONSTANTS
  p1 = p1  p2 = p2  c1 = c1  c2 = c2  c3 = c3  c4 = c4  w1 = w1  w2 = w2
  None = None
  Coroutines = {c1, c2, c3}
  Workers = {w1}
  Producers = {p2}
  ShardOf <- Seeds
  Shards = 2
  LocalCapacity = 2
  BatchMax = 2
  ServiceInterval = 2
  SeqLimit = 1
  Parallelism = 1
  MaxCalls = 4
  MaxProcessors = 2
SYMMETRY Symmetry
INVARIANT
  RunnableIsQueued
CHECK_DEADLOCK FALSE
