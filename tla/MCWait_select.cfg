SPECIFICATION FairSpec
CONSTANTS
  c1 = c1  c2 = c2  c3 = c3  A = A  B = B
  Coroutines = {c1, c2, c3}
  Channels = {A, B}
  Capacity <- Mixed
  SourceRank <- Ranks
  Menu <- SelectMenu
  MaxCalls = 1
INVARIANTS
  TypeOK
  NoMissedMatch
  QueuesMatchRounds
PROPERTIES
  CommittedOnce
  ImplementsChannels
  CommittedReturns
CHECK_DEADLOCK FALSE
