SPECIFICATION Spec
CONSTANTS
    Units = {u1, u2}
    PoolSize = 1
    Retries = 1
    AutoCommit = TRUE
INVARIANTS
    ReturnedMeansCommitted
