SPECIFICATION Spec
CONSTANTS
    NSlots = 3
    MaxPid = 4
    Cores = 1
    SerialVfork = FALSE
    Killers = {}
    Tracers = {}
    Tracees = {}
    WaitFor = {0}
    WaitOptions <- Blocking
INVARIANT SlotAllocatedOnce
