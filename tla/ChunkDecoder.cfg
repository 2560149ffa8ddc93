SPECIFICATION Spec
CONSTANTS
    Wires <- AllWires
    MaxUsize = 31
INVARIANTS
    TypeOK
    UnreadIntact
    DecodesBody
    FailsWithCause
PROPERTIES
    Terminates
