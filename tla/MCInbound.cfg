SPECIFICATION FairSpec
CONSTANTS
    Requests = {p1, p2}
    MaxChanges = 1
    w1 = w1
    w2 = w2
    Webhooks = {w1, w2}
    Kind <- MCKind
    MaxGivenUp = 1
INVARIANTS
    TypeOK
    OnlyLateFillRevives
    AnswerIsTrue
PROPERTIES
    ChangeTakesEffect
