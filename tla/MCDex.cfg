CONSTANTS
    alice = alice
    bob = bob
    btc = btc
    xfi = xfi
    orders_acc = orders_acc
    Precision = 1000
    Owner = {alice, bob}
    ModuleAcc = orders_acc
    Denom = {btc, xfi}
    Unit <- MCUnit
    Pair <- TwoPairs
    Price = {1, 2}
    Quantity = {3}
    Ttl = {1}
    InitBalance = 3
    MaxOrders = 4
    MaxTime = 2
SPECIFICATION Spec
INVARIANTS
    LocksAreCovered
    ImportNeedsNewestOrder
PROPERTIES
    OnlyDustOutlivesTtl
    HistoryTellsTheTrades
    MarketOrderIsIrrelevant
SYMMETRY Symmetry
CHECK_DEADLOCK FALSE
