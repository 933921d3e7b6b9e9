SPECIFICATION Spec
CONSTANTS
    NSlots = 4
    MaxPid = 4
    Cores = 1
    SerialVfork = TRUE
    Killers = {}
    Tracers = {}
    Tracees = {}
    WaitFor = {0}
    WaitOptions <- Blocking
INVARIANT VforkParentStays
