SPECIFICATION SpecSpawnError
CONSTANTS
    NENV = 3
    NASID = 3
    MaxId = 5
    Elems = {0, 1, 2}
    NULL = NULL
    Anchor = Anchor
    BootPri <- MCBootPri
INVARIANTS
    SchedListExact
CHECK_DEADLOCK FALSE
