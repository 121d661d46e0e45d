SPECIFICATION FairSpec
CONSTANTS
    Models = {m1, m2}
    NoModel = NoModel
    Capabilities = {coding}
    Classes = {1, 2}
    MaxAgentRetries = 2
    MaxRetries = 1
    RetryAfters <- MCRetryAfters
INVARIANTS
    RequestsAreBounded
    RetriesAreUsed
    NoAnswerIsWasted
    WaitingIsBounded
PROPERTIES
    TheBestFitIsAsked
    ImplementsAwait
