CONSTANTS
  p1 = p1
  p2 = p2
  p3 = p3
  p4 = p4
  file = file
  fs = fs
  NULL = NULL
  Proc <- Procs3
  Mutex <- Mutexes
  Nests <- FileThenFs
  Mortal = {}
  Misuse = FALSE
SPECIFICATION FairSpec
INVARIANTS
  NoPanic
PROPERTIES
  WaiterWakes
CHECK_DEADLOCK FALSE
