SPECIFICATION FairSpec
CONSTANTS
    r1 = r1  r2 = r2  r3 = r3  r4 = r4
    Requests <- Four
    Capacity = 1
    ServeFails = TRUE
    None = None
INVARIANTS
    TypeOK
    AnsweredWasDelivered
    NoHandlerOutlivesMain
    NoLostWakeup
    BlockedOnlyIfCrowded
PROPERTIES
    CallbackWakesMain
    CleanupReturnsUncrowded
    StuckForGood
\* The login ends, or waits for ever for a callback that nobody sends.
CHECK_DEADLOCK FALSE
