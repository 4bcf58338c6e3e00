SPECIFICATION MCSpec
CONSTANTS
    Requests <- MCRequests
    Parameters = {"p", "q"}
    Values = {0, 1}
    Width = 16
    LongMax = 63
    MicroPerMs = 2
    ZeroBudget = 1
    CommandMs = 2
    NowaitMs = 2
    MaxCalls = 2
    LockMax = 1
    Leaps <- MCLeaps
    LossesMax = 1
INVARIANTS
    CountIsHonest
    TimeoutKept
    CableAsTold
