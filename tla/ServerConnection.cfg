SPECIFICATION Spec
CONSTANTS
    Wires <- AllRequests
    Replies = {1, 3, 4}
    ErrorReply = 2
    BufLen = 12
    ReplyLen = 3
    MaxUsize = 31
INVARIANTS
    TypeOK
    WholeRequestHandled
    NoReadPastRequest
PROPERTIES
    Contract
    Returns
