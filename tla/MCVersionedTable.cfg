SPECIFICATION Spec
CONSTANTS
    Keys = {k1}
    Procs = {p1, p2}
    RowTtls = {2, 5}
    VersionTtl = 4
    ReadsFail = FALSE
    MaxFlight = 2
    MaxBumps = 2
SYMMETRY CallersAreAlike
INVARIANTS
    TypeOK
    BumpInvalidatesWithinOneLife
    CounterOutlivesOrphans
PROPERTY LapseIsCold
