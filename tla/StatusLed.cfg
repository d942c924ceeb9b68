CONSTANTS
    DefaultDivisor = 2
    MaxDivisor = 2
    ErasedByte = 3
    BlinkQueueLength = 1
    KeyboardBlinks = 2
    MouseBlinks = 3
    SaveBlinks = 2
    ClearBlinks = 3
SPECIFICATION LedSpec
INVARIANTS
    DivisorNonZero
    BlinkShows
PROPERTIES
    BootKeepsPromise
    FlashesSeen
    LedStaysOff
