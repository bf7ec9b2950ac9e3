\* One client that has an account and places orders; replies come in one or two
\* pieces.
CONSTANTS
    Clients = {c1}
    RequestPieces = {1}
    ReplyPieces = {1, 2}
    MaxRequests = 3
    MaxInAll = 3
CHECK_DEADLOCK FALSE
SPECIFICATION SessionsSpec
INVARIANTS ShownIsLast
