SPECIFICATION FairSpec
CONSTANTS
    NSlots = 3
    MaxPid = 4
    Cores = 1
    SerialVfork = TRUE
    Killers = {}
    Tracers = {}
    Tracees = {}
    WaitFor = {0}
    WaitOptions <- NonBlocking
PROPERTY WaiterReturns
