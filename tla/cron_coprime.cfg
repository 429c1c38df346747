SPECIFICATION Spec
CONSTANTS
    databases = 3
    hash_slots_size = 2
    CRON_DBS_PER_CALL = 2
    CRON_DB_SLOTS_PER_CALL = 2
    RehashWork = 2
    MaxOps = 3
INVARIANTS
    TypeOK
PROPERTIES
    RehashFinishes
    SparseIsResized
