SPECIFICATION FairSpec
CONSTANTS
    m1 = m1
    m2 = m2
    Calls = {c1, c2}
    Models = {m1, m2}
    Reliable = {m2}
    Routes <- MCRoutes
    MaxActive = 1
    Threshold = 2
    Cooldown = 2
    Latencies = {1, 2}
    StoreFails = TRUE
INVARIANTS
    ActiveIsBounded
    AWorkingModelIsFound
    CooldownIsEarned
PROPERTIES
    HealthSurvivesRestart
    ExecutionsEnd
    CooledModelsComeBack
