CONSTANTS
    core0 = core0
    core1 = core1
    Cores = {core0, core1}
    Items = {e1, e2, e3}
    NULL = NULL
    Capacity = 2
SPECIFICATION FairPathSpec
INVARIANTS
    Ownership
    PathInv
PROPERTIES
    ResetEnds
