SPECIFICATION FairSpec
CONSTANTS
    Callers = {c1, c2, c3}
    Burst = 2
    Hedges = 1
INVARIANTS
    BookkeepingExact
    WokenInTime
PROPERTIES
    RateBound
    EveryWaitEnds
