SPECIFICATION FairSpec
CONSTANTS
    t1 = t1
    u1 = u1
    w1 = w1
    NoKey = NoKey
    Keys <- MCKeys
    TaggedKeys <- MCTagged
    slots_num <- MCSlotsNum
    databases = 2
    hash_slots_size = 2
    Commands <- AllCommands
    RestoreThreads <- MCThreads
    AsyncObjects <- MCObjects
    MaxRestarts = 2
    MaxForeign = 1
    MaxOpenRestarts = 0
INVARIANTS
    TypeOK
    ListAgrees
    IndexExact
    PairReset
PROPERTIES
    NoFlicker
    ReloadIndexes
