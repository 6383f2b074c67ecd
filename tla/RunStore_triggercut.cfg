SPECIFICATION Spec
CONSTANTS
    c1 = c1
    p1 = p1
    Procs = {p1}
    Triggers = {p1}
    Conns = {c1}
    Runs = {1}
    Versions = {0, 1}
    Corrupt = Corrupt
    NoProc = NoProc
    Free = Free
PROPERTIES
    RestartForgetsNothing
