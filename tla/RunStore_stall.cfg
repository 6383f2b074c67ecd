SPECIFICATION StallSpec
CONSTANTS
    c2 = c2
    c1 = c1
    p1 = p1
    Procs = {p1}
    Triggers = {}
    Conns = {c1, c2}
    Runs = {1}
    Versions = {0, 1}
    Corrupt = Corrupt
    NoProc = NoProc
    Free = Free
PROPERTIES
    CommitReturns
    DirectoryReleased
