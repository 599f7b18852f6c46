SPECIFICATION Spec
CONSTANTS
    Callers = {w1, w2}
    Inboxes = {i1}
    MaxClients = 3
PROPERTIES
    CacheHeals
