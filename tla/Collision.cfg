CONSTANTS
    Devices = {d1, d2, d3}
    Addrs = {2, 8, 9}
    SharedAddr = 2
    MaxDelay = 2
    Short = 1
    Long = 2
    NumBits = 1
    MaxMissed = 1
SPECIFICATION Spec
INVARIANTS
    SomeoneAnswers
    OnlyTiedAnswer
PROPERTIES
    MoveTogetherOnlyTied
    Separated
