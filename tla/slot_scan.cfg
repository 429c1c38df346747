SPECIFICATION Spec
CONSTANTS
    k1 = k1
    k2 = k2
    k3 = k3
    k4 = k4
    Keys <- MCKeys
    Hash <- MCHash
    DICT_HT_INITIAL_SIZE = 2
    HASHTABLE_MIN_FILL = 60
    EmptyVisits = 2
    RehashBatch = 1
    MaxBatches = 2
    WordBits = 3
    Counts = {1, 2}
    LoopsPerKey = 1
    async = TRUE
INVARIANTS
    DictTypeOK
    Placed
    RehashIndexSafe
    RandomReachesAll
    AnswersRight
    WalkComplete
PROPERTIES
    IsKeySet
    CursorAdvances
    SlotsDelEnds
CHECK_DEADLOCK FALSE
