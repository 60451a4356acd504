SPECIFICATION Spec
CONSTANTS
    r1 = r1  r2 = r2
    Requests <- OneRequest
    Statuses <- MCStatuses
    NotFound = NotFound
    StatusOK = StatusOK
    StatusInternalServerError = StatusInternalServerError
    NoStatus = NoStatus
    None = None
INVARIANT
    PanicAfterHeadersIsNoOp
\* The process ends.
CHECK_DEADLOCK FALSE
