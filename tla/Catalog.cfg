SPECIFICATION Spec
CONSTANTS
    a = a
    b = b
    c = c
    Names <- MCNames
    Catalogs = {k1}
    PageRecords = 1
    IdLimit = 3
    MaxPages = 5
    MaxLosses = 1
    NoPage = 0
    Zero = Zero
    Torn = Torn
    Closed = Closed
SYMMETRY MCSymmetry
INVARIANTS TypeOK ReopensTheSame UniqueDeclarations
PROPERTIES LossKeepsDeclarations LossKeepsCatalogOpen
CHECK_DEADLOCK FALSE
