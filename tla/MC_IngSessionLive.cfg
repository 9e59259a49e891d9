CONSTANTS
    ACTIVE = ACTIVE
    INACTIVE = INACTIVE
    DELETE = DELETE
    NOTHING = NOTHING
    NumKeys = 2
    InitialStatuses = {ACTIVE, INACTIVE}
    MaxDeletes = 1
    MaxFaults = 1
    Faults = {"smfError", "timeout"}
SPECIFICATION FairSpec
INVARIANTS NoOrphans NoAbortWithoutFaults
PROPERTIES PostAnswered DeleteAnswered
CHECK_DEADLOCK FALSE
