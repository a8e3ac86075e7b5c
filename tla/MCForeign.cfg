SPECIFICATION FairSpec
CONSTANTS
  c1 = c1  c2 = c2  c3 = c3
  Coroutines = {c1, c2, c3}
  Processors = 2
  MaxBlocking = 1
  QueueCap = 2
  Parallelisms = {1, 3}
  MaxGen = 2
  MaxDepth = 1
  MaxWatches = 1
INVARIANTS
  TypeOK
  ProcessorsConserved
  CreditsMatchCalls
  QueuesMatchStates
  NoIdleQuota
PROPERTIES
  NoBarging
  CallsStartUnwatched
  EveryCallerAdmitted
CHECK_DEADLOCK FALSE
