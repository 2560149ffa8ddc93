SPECIFICATION Spec
CONSTANTS
    Requests <- SomeRequests
    Wires <- SomeAnswers
    RQ = 2
    LenLimit = 3
    BufLen = 4
    MaxRetries = 2
INVARIANTS
    TypeOK
    SafeToRepeat
PROPERTIES
    OrderlyEnd
    CallReturns
