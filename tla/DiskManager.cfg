SPECIFICATION Spec
CONSTANTS
    PageIdLimit = 3
    a = a
    Zero = Zero
    Torn = Torn
    NoRoot = NoRoot
    NoFile = NoFile
    Closed = Closed
    MaxPowerLosses = 1
    Content <- MCContent
INVARIANTS
    TypeOK
    HeaderBacked
    OnlyRaggedFilesAreRefused
    GrantsArePersisted
    RootIsFinal
PROPERTY
    GrantedPagesKept
CHECK_DEADLOCK FALSE
