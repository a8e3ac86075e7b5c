SPECIFICATION Spec
CONSTANTS
  A = A  B = B  a1 = a1  a2 = a2  b1 = b1  bx = bx  by = by
  Null = Null
  NoBlock = NoBlock
  Owners = {A, B}
  Slots = {1, 2}
  Blocks = {bx, by}
  Objects = {a1, a2, b1}
  Fields = {1}
  Roots = {1, 2}
  BlockOf <- Block0
  HeapOf <- Heap0
  StartHeaps <- Starts
  MaxEvents = 4
  MaxSkew = 1
INVARIANTS
  TypeOK
  ReachableIsAllocated
  GreyProtectsReachable
  TerminationSound
  FullPassConverges
  CreditsMatchMessages
  EdgesConserved
PROPERTIES
  CallEnds
  NothingUngreyed
CHECK_DEADLOCK FALSE
