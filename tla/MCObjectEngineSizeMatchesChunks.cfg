CONSTANTS
    Byte <- MCByte
    BoundaryBytes <- MCBoundaryBytes
    InitData <- MCInitData
    WriteInputs <- MCWriteInputs
    ReadSizes <- MCReadSizes
    MaxBytes <- MCMaxBytes
SPECIFICATION Spec
INVARIANT SizeMatchesChunks
CHECK_DEADLOCK FALSE
