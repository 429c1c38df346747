SPECIFICATION Spec
CONSTANTS
    a = a
    b = b
    c = c
    d = d
    tag = tag
    NoTag = NoTag
    Absent = Absent
    Hole = Hole
    Tag <- MCTag
    ObjSize <- MCSize
    Keys <- ThreeKeys
    Movers = {"m1"}
    Cmds = {"one", "slot", "tagone", "tagslot"}
    mgrtTypes = {"none", "withpipeline"}
    slots_mgrt_threads = 0
    async = FALSE
    async_dst = FALSE
    Faults <- SyncFaults
    MaxFaults = 2
    MaxVersion = 1
    TTLs <- NoTTL
    MaxClock = 0
    ClientDeletes = TRUE
    MaxCmdSize = 1
INVARIANTS
    TypeOK
    AnswerIsExact
    ChunksFit
PROPERTIES
    IsHandoff
