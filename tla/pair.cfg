SPECIFICATION Spec
CONSTANTS
    N = 2
    Workers = 2
    Count = 2
    Rechecks = 3
    Worlds <- MCWorlds
    MaxFaults = 2
    MaxOutside = 1
    Unread = Unread
INVARIANTS
    ReportMatchesAccount
    OlderContractsKept
    AddsOnlyToPlannedHolding
    MappingJudgedRight
