SPECIFICATION Spec
CONSTANTS
    a = a
    b = b
    c = c
    Names <- MCNames
    Catalogs = {k1, k2}
    PageRecords = 1
    IdLimit = 3
    MaxPages = 4
    MaxLosses = 0
    NoPage = 0
    Zero = Zero
    Torn = Torn
    Closed = Closed
SYMMETRY MCSymmetry
INVARIANT UniqueDeclarations
CHECK_DEADLOCK FALSE
