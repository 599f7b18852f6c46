SPECIFICATION FairSpec
CONSTANTS
    Units = {u1, u2, u3}
    PoolSize = 2
    Retries = 1
    AutoCommit = TRUE
INVARIANTS
    TypeOK
    NothingLeftBehind
PROPERTIES
    OnlyReturnedCommit
    TeardownEnds
