CONSTANTS
    ACTIVE = ACTIVE
    INACTIVE = INACTIVE
    DELETE = DELETE
    NOTHING = NOTHING
    NumKeys = 2
    InitialStatuses = {ACTIVE, INACTIVE}
    MaxDeletes = 1
    MaxFaults = 1
    Faults = {"unresolved", "smfError", "stfError", "timeout", "afGone", "serviceDelete"}
    MaxPosts = 3
SPECIFICATION Spec
CONSTRAINTS PostBound OneDeleter
INVARIANTS TwoPhases MbsAfterMbstf NoMbsLeft DeletedIsClean
PROPERTIES CreatedIsComplete
CHECK_DEADLOCK FALSE
