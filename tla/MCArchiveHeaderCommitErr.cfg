CONSTANTS
    h1 = h1
    h2 = h2
    Headers <- MCHeaders
    HLen <- MCHLen
    InitHeader = h1
    BlockCells = 1
    MaxCells = 9
    PowerLoss = FALSE
SPECIFICATION Spec
INVARIANT CommitReadable
