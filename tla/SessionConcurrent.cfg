SPECIFICATION Spec
CONSTANTS
    s1 = s1
    s2 = s2
    r1 = r1
    r2 = r2
    Sessions = {s1}
    Reqs = {r1, r2}
    ItemCounts = {0, 2}
    XpOf <- FixedXP
    XPForLevel <- Thresholds
    StreaksUsable = TRUE
    MaxResults = 3
    MaxDays = 2
    MaxCompletes = 1
    MaxFaults = 1
INVARIANTS TypeOK NeverOvercounts XPNeverOvercounts
PROPERTIES CompletedStays
CHECK_DEADLOCK FALSE
