CONSTANTS
    Byte <- MCByte
    BoundaryBytes <- MCBoundaryBytes
    InitData <- MCInitData
    WriteInputs <- MCWriteInputs
    ReadSizes <- MCReadSizes
    MaxBytes <- MCMaxBytes
SPECIFICATION Spec
PROPERTY StreamRefinement
CHECK_DEADLOCK FALSE
