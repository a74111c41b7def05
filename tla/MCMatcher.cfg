\* One market, up to four orders of three prices (not evenly spaced, so that
\* the average over a "corridor" is a price nobody asked for) and four
\* quantities.  The sums of the three small ones are far below Precision / 2;
\* against the large one a supply of 1 is rounded away.
CONSTANTS
    Precision = 100
    Market = {m1}
    Price = {1, 2, 4}
    Quantity = {1, 2, 3, 200}
    MaxOrders = 4
    m1 = m1
SPECIFICATION Spec
INVARIANTS
    CrossingBooksClear
    BoughtIsSold
    PriorityIsKept
CHECK_DEADLOCK FALSE
