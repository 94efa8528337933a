SPECIFICATION Spec
CONSTANTS
    s1 = s1
    s2 = s2
    r1 = r1
    r2 = r2
    Sessions = {s1, s2}
    Reqs = {r1}
    ItemCounts = {2}
    XpOf <- BonusXP
    XPForLevel <- Thresholds
    StreaksUsable = FALSE
    MaxResults = 3
    MaxDays = 1
    MaxCompletes = 3
    MaxFaults = 0
CHECK_DEADLOCK FALSE
PROPERTIES KeepsLedger
