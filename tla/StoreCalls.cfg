SPECIFICATION FairSpec
CONSTANTS
    w1 = w1  w2 = w2  i1 = i1  i2 = i2  v1 = v1  v2 = v2
    Callers = {w1, w2}
    Calls <- MCCalls
    Rows <- MCRows
    Values = {v1, v2}
    Done = Done
    Error = Error
    None = None
INVARIANTS
    TypeOK
PROPERTIES
    KeepsPromise
    CallsReturn
