SPECIFICATION Spec
CONSTANTS
    Requests <- SomeRequests
    Wires <- CleanWires
    RQ = 4
    LenLimit = 3
    BufLen = 17
    MaxRetries = 2
INVARIANTS
    TypeOK
    WholeBody
    NoReadPastComplete
    RetryAccounting
PROPERTIES
    Contract
    Returns
