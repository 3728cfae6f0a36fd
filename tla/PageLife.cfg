SPECIFICATION Spec
CONSTANTS
    PageSize = 10
    HeaderSize = 1
    SlotSize = 2
    GenerationLimit = 3
    x = x
    y = y
    z = z
    ZeroByte = z
    Byte <- MCByte
    Records <- MCRecords
INVARIANTS
    PageStaysValid
    InsertSucceedsIffFits
PROPERTIES
    GenerationsOnlyGrow
    DeletesOnlyItsRow
    ImplementsRowStore
