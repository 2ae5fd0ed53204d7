CONSTANTS
    Names <- MCNames
    MaxDepth = 2
    Inodes = {1, 2, 3, 4}
    Handles = {1}
    InitRepo <- MCInitRepo
    InitInodes <- MCInitInodes
    MaxEntries = 4
    ReplyCap = 1
    MaxListed = 3
    ReadSizes = {0, 1}
    MknodModes <- MCAllModes
SPECIFICATION Spec
INVARIANT HandleNotShared
CHECK_DEADLOCK FALSE
