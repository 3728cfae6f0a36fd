SPECIFICATION UndisturbedSpec
CONSTANTS
    PageIdLimit = 5
    Capacity = 3
    ClockLimit = 5
    PinLimit = 1
    a = a
    g1 = g1
    g2 = g2
    g3 = g3
    Zero = Zero
    Torn = Torn
    NoRoot = NoRoot
    NoPage = NoPage
    NoBytes = NoBytes
    Closed = Closed
    Content <- MCZeros
    Guards <- MCOneGuard
INVARIANTS
    StampsFollowUse
PROPERTIES
    EvictsLeastRecentlyUsed
