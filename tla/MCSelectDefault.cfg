SPECIFICATION QuietSpec
CONSTANTS
  c1 = c1  c2 = c2  c3 = c3  A = A  B = B
  Coroutines = {c1, c2, c3}
  Channels = {A, B}
  Capacity <- Ones
  SourceRank <- Ranks
  Menu <- DefaultMenu
  MaxCalls = 2
INVARIANTS
  DefaultOnlyWhenQuiet
CHECK_DEADLOCK FALSE
