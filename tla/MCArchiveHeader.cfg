CONSTANTS
    h1 = h1
    h2 = h2
    Headers <- MCHeaders
    HLen <- MCHLen
    InitHeader = h1
    BlockCells = 2
    MaxCells = 9
    PowerLoss = TRUE
SPECIFICATION Spec
INVARIANT TypeOK
PROPERTY ReadChangesOnlyAtPointer
