SPECIFICATION Spec
CONSTANTS
    PageSize = 50
    HeaderSize = 1
    SlotSize = 2
    GenerationLimit = 1
    ZeroByte = 0
    Byte <- Byte255
    MaxColumns = 10
    MaxIdentifier = 2
    MaxDamage = 1
    Declarations <- MCDeclarations
    ValuesOf <- MCValuesOf
    Cell <- MCCell
INVARIANT EachRowOneEncoding
