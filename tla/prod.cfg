CONSTANTS
    a = a
    b = b
    c = c
    d = d
    e = e
    Markets <- MCMarkets
    Labels <- MCLabels
    Pairs <- MCPairs
    Accounts <- MCAccounts
    Values = {unread, 0, 3, 4}
    Unread = unread
    MinBalance = 1
    Payout = 1
    Rechecks = 2
    MaxOutside = 1
SPECIFICATION Spec
INVARIANTS NeverRebuysSold PurchasesFitHoldings ValueBackedByContracts EveryOrderAccountedFor NoSilentImbalance
