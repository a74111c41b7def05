CONSTANTS
    alice = alice
    bob = bob
    btc = btc
    xfi = xfi
    orders_acc = orders_acc
    Precision = 1000
    Owner = {alice, bob}
    ModuleAcc = orders_acc
    Denom = {btc, xfi}
    Unit <- MCUnit
    Pair <- OnePair
    Price = {1, 2}
    Quantity = {2, 3}
    Ttl = {2}
    InitBalance = 3
    MaxOrders = 3
    MaxTime = 3
SPECIFICATION Spec
INVARIANT FillsAreTransfers
CHECK_DEADLOCK FALSE
