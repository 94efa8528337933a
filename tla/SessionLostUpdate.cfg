SPECIFICATION Spec
CONSTANTS
    s1 = s1
    s2 = s2
    r1 = r1
    r2 = r2
    Sessions = {s1}
    Reqs = {r1, r2}
    ItemCounts = {1}
    XpOf <- FixedXP
    XPForLevel <- Thresholds
    StreaksUsable = TRUE
    MaxResults = 2
    MaxDays = 1
    MaxCompletes = 0
    MaxFaults = 0
INVARIANTS ProgressExact
CHECK_DEADLOCK FALSE
