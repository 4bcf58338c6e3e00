SPECIFICATION Spec
CONSTANTS
    t1 = t1
    t2 = t2
    Threads = {t1, t2}
    Channels = {3, 4}
    Pins = {7}
    KeptApart = FALSE
    Limit = 2
    FirmwareLimit = 2
    UnsignedMax = 7
    MaxIds = 0
    MaxLosses = 0
INVARIANTS
    LineNotGrounded
