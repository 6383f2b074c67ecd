SPECIFICATION Spec
CONSTANTS
    Conns <- MCConns
    ByName <- MCByName
    Product <- MCProduct
    Scans <- MCScans
    MaxRows = 1
    MaxTools = 1
INVARIANTS
    CompleteCommitsBurst
    EachForgeFirstRows
    InfoHasWarn
    ExitZeroIsWhole
