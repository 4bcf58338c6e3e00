SPECIFICATION Spec
CONSTANTS
    Code <- MCCode
    ByteMax = 22
    U32Max = 999
    StatusStart = 16
    StatusEnd = 8
    LineMax = 10
    InitMax = 4
    TailMax = 8
    ReadMax = 4
    AccumCap = 30
    FailuresMax = 2
    Scripts <- MCScripts
    LossesMax = 1
CHECK_DEADLOCK FALSE
INVARIANTS
    RepliesInStep
    NothingInvented
    NoReadIsCut
