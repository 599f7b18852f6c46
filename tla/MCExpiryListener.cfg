SPECIFICATION FairSpec
CONSTANTS
    Keys = {k1, k2}
    Handled = {k1}
    NoLimit = 0
    Limits = {0, 2}
    BaseDelay = 10
    MaxDelay = 15
    PoolSize = 2
    MaxLives = 2
    MaxFailures = 2
INVARIANTS
    TypeOK
    RunsOnce
PROPERTIES
    HeardRuns
    CancelEnds
    Recovers
CHECK_DEADLOCK FALSE
