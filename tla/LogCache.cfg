CONSTANTS
    LOGBUFSIZE = 4
    SkipAhead = 2
    Width = 8
    MaxText = 2
    MaxChars = 10
SPECIFICATION LogSpec
INVARIANTS
    PositionInStep
PROPERTIES
    StreamIntact
    DropsOnlyOverrun
    LogEmptied
