\* Two clients with up to three requests each, four in all, over two accounts.  Every message is in two
\* pieces, of which a read takes one or both: one piece of a request ends the
\* server, one of a reply to an order leaves the client out of step.  An accept may
\* fail; when no operation is left, the server ends.
CONSTANTS
    Clients = {c1, c2}
    RequestPieces = {2}
    ReplyPieces = {2}
    MaxRequests = 3
    MaxInAll = 4
    Logins = {"ann", "bob"}
    Passwords = {"p1"}
    Volumes = {1}
    Prices = {1}
    Ticks = {1}
    ForeignUids = {}
    MaxOrders = 4
CHECK_DEADLOCK FALSE
SPECIFICATION ExchangeFairSpec
INVARIANTS SessionsTypeOK OneOperationEach SessionForClient RepliesInStep
INVARIANTS OwnAccount MoneyConserved OrdersAreTyped
PROPERTIES EveryRequestAnswered
