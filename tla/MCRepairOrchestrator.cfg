SPECIFICATION FairSpec
CONSTANTS
    NumTasks = 3
    MaxRepairCycles = 2
INVARIANTS
    DependenciesFirst
    RunOnce
    NobodyWaitsInVain
PROPERTIES
    CompletedIsFinal
    ReleasedTasksAreStarted
