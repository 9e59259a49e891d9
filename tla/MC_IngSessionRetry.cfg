CONSTANTS
    ACTIVE = ACTIVE
    INACTIVE = INACTIVE
    DELETE = DELETE
    NOTHING = NOTHING
    NumKeys = 1
    InitialStatuses = {ACTIVE, INACTIVE}
    MaxDeletes = 2
    MaxFaults = 0
    Faults = {}
SPECIFICATION Spec
INVARIANT LateAnswerDropped
CHECK_DEADLOCK FALSE
