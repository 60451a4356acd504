SPECIFICATION FairSpec
CONSTANTS
    r1 = r1  r2 = r2  r3 = r3  r4 = r4
    Requests <- Three
    Capacity = 1
    ServeFails = FALSE
    None = None
PROPERTY
    CleanupReturns
\* The login ends, or waits for ever for a callback that nobody sends.
CHECK_DEADLOCK FALSE
