SPECIFICATION Spec
CONSTANTS
  c1 = c1  c2 = c2  c3 = c3  A = A  B = B
  Coroutines = {c1, c2, c3}
  Channels = {A}
  Capacity <- One
  SourceRank <- Ranks
  Menu <- JoinMenu
  MaxCalls = 2
INVARIANTS
  QueuesMatchRounds
  NoLostWakeup
  RunnableHasResult
  NoMissedCancel
  NoMissedJoin
CHECK_DEADLOCK FALSE
