SPECIFICATION Spec
CONSTANTS
    a = a
    b = b
    c = c
    d = d
    tag = tag
    NoTag = NoTag
    Absent = Absent
    Hole = Hole
    Tag <- MCTag
    ObjSize <- MCSize
    Keys <- TwoKeys
    Movers = {"m1"}
    Cmds = {"slot", "tagslot"}
    mgrtTypes = {"none", "withpipeline"}
    slots_mgrt_threads = 0
    async = FALSE
    async_dst = FALSE
    Faults <- ExpiryFaults
    MaxFaults = 1
    MaxVersion = 1
    TTLs <- SomeTTL
    MaxClock = 3
    ClientDeletes = FALSE
    MaxCmdSize = 1
INVARIANTS
    NoEarlyExpiry
    TtlKept
    ErrorKeepsKeys
CHECK_DEADLOCK FALSE
