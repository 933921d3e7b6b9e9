CONSTANTS
  p1 = p1
  p2 = p2
  p3 = p3
  p4 = p4
  file = file
  fs = fs
  NULL = NULL
  Proc <- Procs4
  Mutex <- Mutexes
  Nests <- AnyOrder
  Mortal <- Procs4
  Misuse = TRUE
SPECIFICATION Spec
SYMMETRY Symmetry
INVARIANTS
  TypeOK
  MutualExclusion
  NoLostWakeup
  NoOrphanedMutex
\* A panicked kernel halts; lock-order deadlocks are the callers' doing here.
CHECK_DEADLOCK FALSE
