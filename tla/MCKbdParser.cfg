CONSTANTS
    Caps = Caps
    v = v
    s = s
    pause = pause
    power = power
    PowerKeys = {power}
    TwiceKeys = {pause}
    TextKeys = {v}
    SettingKeys = {s}
    PlainKeys = {}
    TextChars = {v}
    NoKey = NoKey
    Overflow = Overflow
    Slots = 2
    Capacity = 4
    TextLength = 1
    MaxReports = 3
    Reports <- MCReports
SPECIFICATION FairSpec
INVARIANTS
    HostFollowsReports
    CapsFollowsLed
    TextInv
PROPERTIES
    TextEnds
