SPECIFICATION Spec
CONSTANTS
    NSlots = 3
    MaxPid = 4
    Cores = 1
    SerialVfork = TRUE
    Killers = {3}
    Tracers = {1}
    Tracees = {3}
    WaitFor = {0}
    WaitOptions <- Stops
INVARIANT NoLostExit
INVARIANT ReapedByParent
CHECK_DEADLOCK FALSE
