SPECIFICATION Spec
CONSTANTS
    databases = 2
    hash_slots_size = 2
    CRON_DBS_PER_CALL = 2
    CRON_DB_SLOTS_PER_CALL = 2
    RehashWork = 1
    MaxOps = 1
PROPERTIES
    RehashFinishes
