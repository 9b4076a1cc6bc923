SPECIFICATION FairSpec
CONSTANTS
    c1 = c1
    c2 = c2
    c3 = c3
    Calls = {c1, c2, c3}
    Nobody = Nobody
    MaxRounds = 2
INVARIANTS
    TypeOK
    AnswerIsOwn
PROPERTIES
    EveryCallReturns
    ServersGoAway
