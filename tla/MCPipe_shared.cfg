CONSTANTS
  p1 = p1
  p2 = p2
  NULL = NULL
  Proc <- Procs2
  Size = 3
  MaxReq = 2
  MaxBytes = 4
  Cores = {1, 2}
  SetFlEnds = {"r", "w"}
SPECIFICATION FairSpec
INVARIANTS
  TypeOK
  NoLostWakeup
  SignalEndsSleep
  CountsMatchEnds
  SlotLifetime
PROPERTIES
  WriteNeedsReader
  ImplementsByteChannel
  SleeperServed
\* A process that reads a pipe only it could write to sleeps for ever.
CHECK_DEADLOCK FALSE
