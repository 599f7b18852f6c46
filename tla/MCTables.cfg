SPECIFICATION Spec
CONSTANTS
    Keys = {k1, k2}
    Table = {k1}
    Procs = {p1, p2}
    Nobody = Nobody
    Ttls = {0, 1}
    MaxCount = 2
    RepliesLost = TRUE
    MaxHashCount = 2
SYMMETRY CoroutinesAreAlike
INVARIANTS
    TypeOK
    ExclusiveClaim
    ClaimPersists
    NoLostIncrement
PROPERTIES
    ImplementsContract
