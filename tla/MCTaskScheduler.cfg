SPECIFICATION MCFairSpec
CONSTANTS
    Tasks = {1, 2, 3}
    MaxParallel = 2
    MaxRounds = 3
    HandlersRaise = TRUE
    StrayErrors = TRUE
INVARIANTS
    OnlyCyclesAreRefused
    ContextHasDependencies
    RunOnce
    VerdictsAreRecorded
PROPERTIES
    RoundsEnd
CHECK_DEADLOCK FALSE
