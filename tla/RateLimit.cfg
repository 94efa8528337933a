SPECIFICATION Spec
CONSTANTS
    Users = {"ivan", "olga"}
    TiersOf <- Tiers
    FreeLimit = 1
    PremiumLimit = 2
    Window = 3
    TicksPerSecond = 2
    MaxTime = 9
INVARIANTS TypeOK BurstBounded RetryAfterSuffices
CHECK_DEADLOCK FALSE
