SPECIFICATION Spec
CONSTANTS
    t1 = t1
    t2 = t2
    Threads = {t1, t2}
    RxqBytes = 5
    HeaderBytes = 2
    Sizes = {0, 1}
    Wants = {2}
    MaxArrivals = 3
    MaxCalls = 2
    MaxResets = 2
    MaxCloses = 1
CHECK_DEADLOCK FALSE
INVARIANTS
    DroppedCounted
    NobodySleepsOnWork
    RingSpellsMessages
PROPERTIES
    HoleIsMarked
    EndedMeansReturned
    ImplementsFifo
