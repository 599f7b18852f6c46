SPECIFICATION Spec
CONSTANTS
    Handlers = {s1}
    Hosts = {s1, s2}
    Retrying = {s2}
    MaxAttempts = 2
INVARIANTS
    TypeOK
    RejectedIfKnown
    SentOnce
    SuccessIsReal
