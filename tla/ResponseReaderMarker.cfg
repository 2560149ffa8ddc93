SPECIFICATION Spec
CONSTANTS
    Requests <- OneRequest
    Wires <- MarkedWires
    RQ = 4
    LenLimit = 3
    BufLen = 24
    MaxRetries = 2
INVARIANTS
    NeverTruncates
