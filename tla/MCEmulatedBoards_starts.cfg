SPECIFICATION FairSpec
CONSTANTS
  b1 = b1
  b2 = b2
  k = k
  None = None
  Boards = {b1, b2}
  Containers = {k}
  ContainerOf <- SameName
  MaxStarts = 8
  MaxFaults = 2
INVARIANTS
  BoardsInv
  RunningIsUp
  RunningIsWatched
PROPERTIES
  DeathIsNoticed
  
