SPECIFICATION Spec
CONSTANTS
    RxCap = 2
    TxCap = 2
    MaxAsk = 2
    PeerBytes = 3
    AppBytes = 3
INVARIANTS
    TypeOK
    NoLostWakeup
PROPERTIES
    EndIsTheEnd
    WritesSomething
    FlushedIsAcked
    ReturnsWhenItCan
