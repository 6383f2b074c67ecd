SPECIFICATION Spec
CONSTANTS
    c1 = c1
    p2 = p2
    p1 = p1
    Procs = {p1, p2}
    Triggers = {p2}
    Conns = {c1}
    Runs = {1, 2}
    Versions = {0, 1}
    Corrupt = Corrupt
    NoProc = NoProc
    Free = Free
INVARIANTS
    TypeOK
    StoredWasLogged
    WriterHoldsDirectory
