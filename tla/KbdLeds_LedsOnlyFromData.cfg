CONSTANTS
    Keyboards = {kb1, kb2}
    NoKeyboard = NoKeyboard
    MaxKeyboards = 2
    HostRegs = {7, 5}
    Lossy = TRUE
    Unplugging = FALSE
    MaxRequests = 3
SPECIFICATION LedsSpec
INVARIANTS
    LedsOnlyFromData
CHECK_DEADLOCK FALSE
