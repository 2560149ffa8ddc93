SPECIFICATION Spec
CONSTANTS
    Requests <- SomeRequests
    Wires <- PuzzlingWires
    RQ = 4
    LenLimit = 3
    BufLen = 17
    MaxRetries = 2
INVARIANTS
    FittingAnswered
