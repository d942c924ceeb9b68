CONSTANTS
    Addrs = {0, 2, 3}
    MouseDefault = 3
    KbdDefault = 2
    KeyCapacity = 1
    ClickCapacity = 1
    MaxKeys = 1
    HostOps = {"SendReset", "Listen3", "Talk0", "Talk3", "Other"}
SPECIFICATION PollSpec
PROPERTIES
    EveryKeyReported
    MouseReported
    SkippedMoveIgnored
