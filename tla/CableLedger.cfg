SPECIFICATION Spec
CONSTANTS
    t1 = t1
    t2 = t2
    Threads = {t1, t2}
    Channels = {3, 7}
    Pins = {7, 15}
    KeptApart = TRUE
    Limit = 2
    FirmwareLimit = 3
    UnsignedMax = 7
    MaxIds = 3
    MaxLosses = 1
INVARIANTS
    RecordIsTrue
    PinsRespected
PROPERTIES
    ForgottenOnlyWhenStopped
SYMMETRY ThreadSymmetry
