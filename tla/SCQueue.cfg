CONSTANTS
    Cores = {core0, core1}
    Items = {e1, e2, e3}
    NULL = NULL
    Free = Free
    Capacity = 2
SPECIFICATION FairSpec
INVARIANTS
    MutexInv
    FifoOwnership
PROPERTIES
    ImplementsFifo
    MutexReleased
