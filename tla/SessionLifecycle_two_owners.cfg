SPECIFICATION Spec
CONSTANTS
    t1 = t1
    t2 = t2
    t3 = t3
    Threads = {t1, t2, t3}
    Owners = {t1, t2}
    NoThread = NoThread
    MaxHandles = 3
    MaxCalls = 3
    MaxUnplugs = 2
INVARIANTS
    CommandKeepsTransport
