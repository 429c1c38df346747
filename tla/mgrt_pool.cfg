SPECIFICATION FairSpec
CONSTANTS
    a = a
    b = b
    c = c
    d = d
    tag = tag
    NoTag = NoTag
    Absent = Absent
    Hole = Hole
    Tag <- MCTag
    ObjSize <- MCSize
    Keys <- FourKeys
    Movers = {"m1"}
    Cmds = {"tagslot"}
    mgrtTypes = {"none"}
    slots_mgrt_threads = 2
    async = FALSE
    async_dst = FALSE
    Faults <- LateFaults
    MaxFaults = 2
    MaxVersion = 1
    TTLs <- NoTTL
    MaxClock = 0
    ClientDeletes = FALSE
    MaxCmdSize = 1
INVARIANTS
    KeyNeverVanishes
PROPERTIES
    Drains
