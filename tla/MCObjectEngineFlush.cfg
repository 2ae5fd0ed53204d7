CONSTANTS
    Byte <- MCByte
    BoundaryBytes <- MCBoundaryBytes
    InitData <- MCInitData
    WriteInputs <- MCNoWrites
    ReadSizes <- MCReadSizes
    MaxBytes <- MCMaxBytes
SPECIFICATION Spec
PROPERTY StreamRefinement
CHECK_DEADLOCK FALSE
