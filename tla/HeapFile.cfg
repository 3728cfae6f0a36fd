SPECIFICATION Spec
CONSTANTS
    PageSize = 3
    HeaderSize = 0
    SlotSize = 1
    GenerationLimit = 2
    x = x
    ZeroByte = x
    Byte <- MCByte
    Records <- MCRecords
    h1 = h1
    h2 = h2
    Handles <- MCHandles
    MaxPages = 3
    MaxRids = 3
    MaxLosses = 1
    NoPage = 0
    Zero = Zero
    Torn = Torn
SYMMETRY MCSymmetry
INVARIANTS
    ScansSeeEveryRow
    HandleKnowsChain
    HandlesReadTheirPages
    HeapAlwaysOpens
PROPERTIES
    ImplementsTableStore
    LossKeepsHeapOpen
