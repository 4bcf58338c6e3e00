SPECIFICATION Spec
CONSTANTS
    Transfers = 3
    RxLen = 2
    RingBytes = 3
    ReadCap = 2
    MaxBytes = 4
    MaxErrors = 2
CHECK_DEADLOCK FALSE
INVARIANTS
    StreamKept
    EveryReadPosted
    FreedAreLanded
PROPERTIES
    CloseEnds
    ErrorIsReported
