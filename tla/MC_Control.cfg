CONSTANTS
    Key = {k1}
    Phases <- NextWindow
    MaxDisturbed = 2
SPECIFICATION FairSpec
INVARIANTS ScheduleRuns QuietIsRight
PROPERTY Settles
CHECK_DEADLOCK FALSE
