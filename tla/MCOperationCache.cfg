SPECIFICATION FairSpec
CONSTANTS
    Callers = {c1, c2}
    Keys = {k1, k2, k3}
    NoKey = NoKey
    MaxParallel = 1
    MaxEntries = 2
    TTL = 2
    MaxRequests = 4
INVARIANTS
    EntriesAreLastResults
    ForgottenOnlyWhenFull
    CountersAddUp
PROPERTIES
    CallsEnd
CHECK_DEADLOCK FALSE
