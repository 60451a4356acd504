SPECIFICATION FairSpec
CONSTANTS
    r1 = r1  r2 = r2
    Requests <- TwoRequests
    Statuses <- MCStatuses
    NotFound = NotFound
    StatusOK = StatusOK
    StatusInternalServerError = StatusInternalServerError
    NoStatus = NoStatus
    None = None
INVARIANTS
    TypeOK
    StoreOutlivesHandlers
    RequestsMissedArePanics
    AnsweredWhole
PROPERTY
    TerminatesWhenTold
\* The process ends.
CHECK_DEADLOCK FALSE
