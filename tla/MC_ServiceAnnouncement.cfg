SPECIFICATION Spec
CHECK_DEADLOCK FALSE
CONSTANTS
    Twice = Twice
    Once = Once
    Session <- MC_Session
    Builds <- MC_Builds
    MaxFailures = 1
INVARIANT BuiltIsCurrent
INVARIANT RebuildSeen
INVARIANT StuckIsRebuilt
INVARIANT Announced
