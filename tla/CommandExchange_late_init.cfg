SPECIFICATION Spec
CONSTANTS
    t1 = t1
    t2 = t2
    Threads <- MCThreads
    NoThread = NoThread
    FirstNumber = 2
    NumberLimit = 6
    MaxCalls = 2
    UnnumberedInits = {"fiveBaud"}
    StaleReplies = 0
SYMMETRY ThreadSymmetry
INVARIANTS
    NoLateInit
