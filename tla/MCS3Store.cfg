\* Requests may fail in transit but the bucket never answers an error code.
CONSTANTS
    BlockIds = {b1, b2, b3}
    Data = {d1, d2}
    Absent = Absent
    ErrorBody = ErrorBody
    OpenOptions <- MCOpenOptions
    Faults = {"transport"}
SPECIFICATION Spec
INVARIANT TypeOK
PROPERTY DataStoreContract
