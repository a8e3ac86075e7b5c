SPECIFICATION FairSpec
CONSTANTS
  c1 = c1  c2 = c2  c3 = c3  A = A  B = B
  Coroutines = {c1, c2}
  Channels = {A}
  Capacity <- One
  SourceRank <- Ranks
  Menu <- LargeMenu
  MaxCalls = 1
PROPERTIES
  MessagesReachReceivers
CHECK_DEADLOCK FALSE
