SPECIFICATION Spec
CHECK_DEADLOCK FALSE
CONSTANTS
    Exchanges <- SomeExchanges
    Names = {"host", "connection", "content-length", "content-type", "x-a", "x-b"}
    QueryNames <- SomeQueryNames
    MaxHeaders = 3
    ReplyLen = 8
    DecodeLen = 2
INVARIANTS
    TypeOK
    RequestArrives
    QueryArrives
    AnswerArrives
