SPECIFICATION Spec
CONSTANTS
    Wires <- SomeRequests
    Replies = {2, 4}
    ErrorReply = 1
    TimeoutReply = 3
    BufLen = 3
    ReplyLen = 3
    MaxUsize = 15
    ReadTimeout = 1
    HandlerTimeout = 2
INVARIANTS
    HandlerMayUseItsTime
