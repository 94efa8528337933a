SPECIFICATION Spec
CONSTANTS
    u1 = u1
    u2 = u2
    r1 = r1
    r2 = r2
    f1 = f1
    f2 = f2
    Users = {u1}
    Reqs = {r1, r2}
    MaxFailedAttempts = 2
    LockoutDuration = 2
    AccessTokenTTL = 1
    RefreshTokenTTL = 2
    Spellings = {f1, f2}
    MaxTokens = 3
    MaxTime = 4
    MaxWrong = 3
    MaxRestarts = 1
INVARIANTS TypeOK AncestorsRevoked SpentStaysSpent AnswersBounded OneAccountPerAddress
SYMMETRY Alike
CHECK_DEADLOCK FALSE
