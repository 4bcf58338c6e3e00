SPECIFICATION StorageSpec
CONSTANTS
    t1 = t1
    t2 = t2
    Threads <- MCThreads
    Initiators <- MCOneInitiator
    NoThread = NoThread
    FirstNumber = 2
    NumberLimit = 5
    MaxCalls = 2
    UnnumberedInits = {}
    StaleReplies = 1
INVARIANTS
    OwnReply
    OwnInitReply
    SlotOwned
    TransportOutlivesCommands
    StorageTypeOK
    InitDataStays
PROPERTIES
    CallsReturn
    AcceptedReplyIsReturned
    ImplementsService
