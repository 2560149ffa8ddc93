SPECIFICATION Spec
CHECK_DEADLOCK FALSE
CONSTANTS
    Requests <- SomeRequests
    ReplyHead = 2
    Replies = {2, 5, 6, 7}
    ErrorReply = 3
    RQ = 2
    LenLimit = 9
    ClientBuf = 5
    MaxRetries = 2
    ServerBuf = 4
    ReplyLen = 6
    MaxUsize = 31
    PipeCap = 2
INVARIANTS
    TypeOK
    CalmDelivers
PROPERTIES
    Contract
    BothReturn
