\* Four orders, a clock that advances, and requests with a uid that is nobody's
\* account: an order can be filled in part, put back and filled again behind
\* another one, a fill can be of nothing, and a loop can end by its early return.
CONSTANTS
    Logins = {"ann"}
    Passwords = {"p1"}
    Volumes = {0, 1, 2}
    Prices = {1, 2}
    Ticks = {1}
    ForeignUids = {7}
    MaxOrders = 4
SPECIFICATION FairSpec
INVARIANTS TypeOK NotCrossed WithinTurnover
PROPERTIES PriceTimePriority MakerPrice CallReturns
