SPECIFICATION Spec
CONSTANTS
    NSlots = 4
    MaxPid = 5
    Cores = 2
    SerialVfork = TRUE
    Killers = {}
    Tracers = {}
    Tracees = {}
    WaitFor = {0}
    WaitOptions <- Blocking
INVARIANT TypeOK
INVARIANT NoLostExit
INVARIANT OrphansAdopted
INVARIANT VforkParentNotStranded
 
