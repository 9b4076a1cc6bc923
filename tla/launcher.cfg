SPECIFICATION LauncherSpec
CONSTANTS
    c1 = c1
    c2 = c2
    c3 = c3
    Calls = {c1, c2}
    Nobody = Nobody
    MaxRounds = 2
INVARIANT
    AnswerIsOwn
