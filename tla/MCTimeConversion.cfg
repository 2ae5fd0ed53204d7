CONSTANTS
    W = 4
    NS = 2
    DebugBuild = TRUE
    Panic = Panic
SPECIFICATION Spec
INVARIANT TypeOK
INVARIANT ReplyExact
CHECK_DEADLOCK FALSE
