CONSTANTS
    c1 = c1  c2 = c2
    Conns <- TwoConns
    MaxTime = 2
    Limits <- SomeLimits
    Second = 4
    IntMax = 7
    Word = 16
    Patient = TRUE
SPECIFICATION FairSpec
INVARIANTS TypeOK SetupIsUndone
PROPERTIES ReapedWasIdle IdleGoes ShutdownStops
CHECK_DEADLOCK FALSE
