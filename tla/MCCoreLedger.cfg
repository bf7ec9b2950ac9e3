\* Two users, three orders, volumes that are not positive, and a clock that may
\* stand still or step back.
CONSTANTS
    Logins = {"ann", "bob"}
    Passwords = {"p1"}
    Volumes <- OddVolumes
    Prices = {1, 2}
    Ticks <- CoarseTicks
    ForeignUids = {}
    MaxOrders = 3
SPECIFICATION Spec
INVARIANTS BooksSorted LedgerMatchesDeals VolumeAccounted AccountIndex BestQuotes
PROPERTIES ImplementsClearing
