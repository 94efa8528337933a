SPECIFICATION Spec
CONSTANTS
    Users = {"ivan"}
    TiersOf <- OneFree
    FreeLimit = 2
    PremiumLimit = 2
    Window = 2
    TicksPerSecond = 1
    MaxTime = 6
INVARIANTS SlidingWindow
CHECK_DEADLOCK FALSE
