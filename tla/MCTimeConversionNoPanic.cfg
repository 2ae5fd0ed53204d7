CONSTANTS
    W = 4
    NS = 2
    DebugBuild = FALSE
    Panic = Panic
SPECIFICATION Spec
INVARIANT NoPanic
CHECK_DEADLOCK FALSE
