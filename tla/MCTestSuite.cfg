SPECIFICATION FairSpec
CONSTANTS
    MaxCases = 3
    MaxParallel = 2
    Timeouts = {0, 1, 2, 3}
    MaxTimeout = 2
    Grace = 1
INVARIANTS
    VerdictsAreEarned
    SuiteTellsAll
    TimeIsBounded
PROPERTIES
    CasesEnd
CHECK_DEADLOCK FALSE
