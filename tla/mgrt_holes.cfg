SPECIFICATION Spec
CONSTANTS
    a = a
    b = b
    c = c
    d = d
    tag = tag
    NoTag = NoTag
    Absent = Absent
    Hole = Hole
    Tag <- MCTag
    ObjSize <- MCSize
    Keys <- TwoKeys
    Movers = {"m1"}
    Cmds = {"tagslot"}
    mgrtTypes = {"none"}
    slots_mgrt_threads = 0
    async = FALSE
    async_dst = FALSE
    Faults <- SyncFaults
    MaxFaults = 0
    MaxVersion = 1
    TTLs <- SomeTTL
    MaxClock = 2
    ClientDeletes = FALSE
    MaxCmdSize = 1
INVARIANTS
    DumpZeroOrN
CHECK_DEADLOCK FALSE
