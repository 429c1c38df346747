SPECIFICATION FairSpec
CONSTANTS
    Main = Main
    c1 = c1
    c2 = c2
    Clients <- MCClients
    Commands <- MCCommands
    ThreadCounts = {0, 1}
    MaxChunks = 2
    MGRT_BATCH_KEY_TIMEOUT = 0
    KeysTerminated = TRUE
INVARIANTS
    TypeOK
    LocksReturned
    LockOrder
    ConnOwned
PROPERTIES
    Released
    IdleClosed
CHECK_DEADLOCK FALSE
