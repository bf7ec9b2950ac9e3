\* Requests may carry a uid that is nobody's account.
CONSTANTS
    Logins = {"ann"}
    Passwords = {"p1"}
    Volumes = {1}
    Prices = {1}
    Ticks = {1}
    ForeignUids = {7}
    MaxOrders = 2
SPECIFICATION Spec
INVARIANTS LedgerMatchesDeals
