SPECIFICATION FairSpec
CONSTANTS
    Callers = {w1, w2}
    Inboxes = {i1}
    MaxClients = 3
INVARIANTS
    TypeOK
    NoClientLeft
    CloseAfterWork
PROPERTIES
    NoMessengerInDrain
    ShutdownEnds
