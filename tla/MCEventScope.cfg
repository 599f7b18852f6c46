SPECIFICATION FairSpec
CONSTANTS
    Unfiltered = Unfiltered
    Messages = {m1}
    Reports = {r1}
    Clients = {c1}
    QueueSize = 2
    MaxSends = 3
    Inbox <- MCInbox
    Filter <- MCFilter
INVARIANTS
    TypeOK
    InOrder
    OnlyOldestMissed
    NoneLeftSubscribed
    IncomingOnce
    IncomingFirst
    ClosedHubIsEmpty
PROPERTIES
    HandledIsReported
    StreamsEnd
CHECK_DEADLOCK FALSE
