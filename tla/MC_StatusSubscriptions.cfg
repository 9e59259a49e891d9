CONSTANTS
    d1 = d1
    d2 = d2
    ghost = ghost
    NoDist = NoDist
    Dist <- MCDist
    EventLists <- MCEventLists
    ReportLists <- MCReportLists
    NumSubs = 2
    MaxReports = 2
    MaxChanges = 3
    MaxPushes = 1
SPECIFICATION Spec
INVARIANTS NewsOnly SlotHolder  DueIsQueued
CHECK_DEADLOCK FALSE
