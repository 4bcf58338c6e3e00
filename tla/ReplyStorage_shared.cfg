SPECIFICATION StorageSpec
CONSTANTS
    t1 = t1
    t2 = t2
    Threads <- MCThreads
    Initiators <- MCThreads
    NoThread = NoThread
    FirstNumber = 2
    NumberLimit = 6
    MaxCalls = 2
    UnnumberedInits = {}
    StaleReplies = 0
INVARIANTS
    ReplyStaysValid
