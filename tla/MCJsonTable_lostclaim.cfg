SPECIFICATION Spec
CONSTANTS
    Keys = {k1, k2}
    Table = {k1}
    Procs = {p1, p2}
    Nobody = Nobody
    Kinds = {"create", "upsert"}
    Ttls = {0}
    ReadsFail = FALSE
    WritesFail = FALSE
    MaxCount = 1
INVARIANT ExclusiveClaim
