CONSTANTS
    MaxTime = 4
    MaxWindows = 2
    MaxPuts = 2
    Est = 2
    RuleDurations = {0, 1, 3}
    RuleIntervals = {1, 2, 4}
    ReadGap = 1
SPECIFICATION PeriodsSpec
INVARIANTS NoMissedTransition StateIsMeant
CHECK_DEADLOCK FALSE
