CONSTANTS
  p1 = p1
  p2 = p2
  serial = serial
  NULL = NULL
  Proc = {p1, p2}
  Tty = {serial}
  Width = 3
  Sub = 2
  Hz = 1
  Durations = {1, 7, 11}
  PollSets <- PollOne
  Sleepers = {p1}
  Readers = {p2}
  Lag = 1
SPECIFICATION FairSpec
INVARIANTS
  TypeOK
  NoEarlyReturn
  OversleepBounded
PROPERTIES
  DeadlineServed
