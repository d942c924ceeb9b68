CONSTANTS
    Addrs = {0, 2, 3}
    MouseDefault = 3
    KbdDefault = 2
    KeyCapacity = 2
    ClickCapacity = 1
    MaxKeys = 3
    HostOps = {"idle", "garbled", "global", "SendReset", "Flush", "Talk0", "Listen2"}
SPECIFICATION Spec
INVARIANTS
    TypeOK
    KeyAccounting
    KeysInOrder
    FlushDrainsQueue
    MouseSrqHasData
    SrqOnlyForOthers
