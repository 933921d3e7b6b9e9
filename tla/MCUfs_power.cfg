SPECIFICATION Spec
CONSTANTS
  InoMax = 3
  BlockMax = 4
  Name = {"a", "b"}
  DirSlots = 1
  MaxBlk = 2
  MaxOpen = 2
  MaxOps = 5
  MaxCuts = 1
CHECK_DEADLOCK FALSE
INVARIANTS BlocksOwned NamesLiveAfterCut FreeExact
