SPECIFICATION Spec
CONSTANTS
    s1 = s1
    s2 = s2
    r1 = r1
    r2 = r2
    Sessions = {s1}
    Reqs = {r1}
    ItemCounts = {1, 3}
    XpOf <- BonusXP
    XPForLevel <- Thresholds
    StreaksUsable = TRUE
    MaxResults = 3
    MaxDays = 4
    MaxCompletes = 3
    MaxFaults = 0
INVARIANTS ProgressExact LevelMatchesXP SummaryWithinOne StreakHonest
CHECK_DEADLOCK FALSE
PROPERTIES KeepsLedger
