SPECIFICATION Spec
CONSTANTS
    PageIdLimit = 3
    Capacity = 1
    ClockLimit = 2
    PinLimit = 2
    a = a
    g1 = g1
    g2 = g2
    g3 = g3
    Zero = Zero
    Torn = Torn
    NoRoot = NoRoot
    NoPage = NoPage
    NoBytes = NoBytes
    Closed = Closed
    Content <- MCContent
    Guards <- MCThreeGuards
SYMMETRY GuardSymmetry
INVARIANTS
    TypeOK
    CapacityRespected
    GuardedPagesCached
    PinsMatchGuards
    CleanMatchesFile
    CommittedStaysPut
PROPERTIES
    ReadOnlyNeverWrites
    ImplementsPageStore
CHECK_DEADLOCK FALSE
