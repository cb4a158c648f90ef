SPECIFICATION FairSpec
CONSTANTS
    User = {u1, u2}
    Password = {p1, p2}
    None = None
    Limit = 8
    Base = 5
    MaxMisses = 4
CHECK_DEADLOCK FALSE
INVARIANTS TypeOK AnswersHold LeaksAreMisses
PROPERTIES AccountsKept FailedStartEnds
