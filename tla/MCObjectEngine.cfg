CONSTANTS
    Byte <- MCByte
    BoundaryBytes <- MCBoundaryBytes
    InitData <- MCInitData
    WriteInputs <- MCWriteInputs
    ReadSizes <- MCReadSizes
    MaxBytes <- MCMaxBytes
SPECIFICATION Spec
INVARIANT TypeOK
CHECK_DEADLOCK FALSE
