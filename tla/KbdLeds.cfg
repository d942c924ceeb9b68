CONSTANTS
    Keyboards = {kb1, kb2}
    NoKeyboard = NoKeyboard
    MaxKeyboards = 3
    HostRegs = {7, 5}
    Lossy = TRUE
    Unplugging = TRUE
    MaxRequests = 3
SPECIFICATION FairLedsSpec
INVARIANTS
    OneReportAtATime
    ScanServes
PROPERTIES
    RequestServed
CHECK_DEADLOCK FALSE
