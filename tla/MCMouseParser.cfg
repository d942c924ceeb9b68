CONSTANTS
    ClickCapacity = 2
    KeyCapacity = 1
    MaxMoves = 1
    MaxReports = 3
    Reports <- MCReports
SPECIFICATION FairSpec
INVARIANTS
    MovementInv
    ButtonsReleased
    RightClickWhole
PROPERTIES
    ParseEnds
