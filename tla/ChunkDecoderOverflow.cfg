SPECIFICATION Spec
CONSTANTS
    Wires <- AllWires
    MaxUsize = 31
INVARIANTS
    NeverPanics
