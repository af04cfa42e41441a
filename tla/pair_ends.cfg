SPECIFICATION FairSpec
CONSTANTS
    N = 2
    Workers = 1
    Count = 1
    Rechecks = 1
    Worlds <- MCNewOnly
    MaxFaults = 2
    MaxOutside = 0
    Unread = Unread
PROPERTIES
    BatchReturns
