SPECIFICATION Spec
CONSTANTS
    t1 = t1
    t2 = t2
    t3 = t3
    Threads = {t1, t2, t3}
    Owners = {t1, t2}
    NoThread = NoThread
    MaxHandles = 2
    MaxCalls = 1
    MaxUnplugs = 1
CHECK_DEADLOCK FALSE
INVARIANTS
    OrderlyCommandKeepsTransport
    ReaderHasTransport
    NoHandleLeaks
    OpenIsServed
PROPERTIES
    LossIsNoticed
    CallsReturn
