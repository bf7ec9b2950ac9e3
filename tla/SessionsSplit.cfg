\* A request in two pieces.
CONSTANTS
    Clients = {c1, c2}
    RequestPieces = {1, 2}
    ReplyPieces = {1}
    MaxRequests = 1
    MaxInAll = 2
CHECK_DEADLOCK FALSE
SPECIFICATION SessionsSpec
INVARIANTS ServerStaysUp
