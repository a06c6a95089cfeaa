SPECIFICATION FairSpec
CONSTANTS
    NENV = 4
    NASID = 3
    MaxId = 4
    Elems = {0, 1, 2, 3}
    NULL = NULL
    Anchor = Anchor
    BootPri <- MCBootPri
INVARIANTS
    TypeOK
    SchedListExact
    FreeListExact
    ReceiverBlocked
    AsidExact
    StopsOnlyIdle
    CurenvRunnable
PROPERTIES
    ImplementsRunQueue
    NoStarvation
CHECK_DEADLOCK FALSE
