\* The bucket may also answer an error code (403, 500, 503).
CONSTANTS
    BlockIds = {b1, b2, b3}
    Data = {d1, d2}
    Absent = Absent
    ErrorBody = ErrorBody
    OpenOptions <- MCOpenOptions
    Faults = {"transport", "status"}
SPECIFICATION Spec
PROPERTY DataStoreContract
