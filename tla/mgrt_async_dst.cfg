SPECIFICATION Spec
CONSTANTS
    a = a
    b = b
    c = c
    d = d
    tag = tag
    NoTag = NoTag
    Absent = Absent
    Hole = Hole
    Tag <- MCTag
    ObjSize <- MCSize
    Keys <- TwoKeys
    Movers = {"m1"}
    Cmds = {"tagslot"}
    mgrtTypes = {"none"}
    slots_mgrt_threads = 0
    async = FALSE
    async_dst = TRUE
    Faults <- SyncFaults
    MaxFaults = 1
    MaxVersion = 1
    TTLs <- NoTTL
    MaxClock = 0
    ClientDeletes = FALSE
    MaxCmdSize = 1
INVARIANTS
    NoKeyLost
