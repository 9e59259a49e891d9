CONSTANTS
    None = None
    Data <- Versions
    Repair <- RepairServer
    AbsoluteRoot = TRUE
    MaxFailures = 1
    MaxReads = 1
SPECIFICATION Spec
INVARIANTS ListedIsThere AnswerWhole
CHECK_DEADLOCK FALSE
