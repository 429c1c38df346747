SPECIFICATION Spec
CONSTANTS
    a = a
    b = b
    c = c
    d = d
    tag = tag
    NoTag = NoTag
    Absent = Absent
    Hole = Hole
    Tag <- MCTag
    ObjSize <- MCSize
    Keys <- TwoKeys
    Movers = {"m1", "m2"}
    Cmds = {"one"}
    mgrtTypes = {"none"}
    slots_mgrt_threads = 2
    async = TRUE
    async_dst = TRUE
    Faults <- AsyncFaults
    MaxFaults = 1
    MaxVersion = 2
    TTLs <- NoTTL
    MaxClock = 0
    ClientDeletes = FALSE
    MaxCmdSize = 1
INVARIANTS
    KeyNeverVanishes
