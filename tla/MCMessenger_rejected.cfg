SPECIFICATION Spec
CONSTANTS
    Handlers = {}
    Hosts = {s1}
    Retrying = {}
    MaxAttempts = 1
INVARIANT RejectedNotSent
