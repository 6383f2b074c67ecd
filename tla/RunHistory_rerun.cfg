SPECIFICATION Spec
CONSTANTS
    NoVerdict = NoVerdict
    Unlisted = Unlisted
    Ids = {1, 2}
    PullRequests = {}
    Late = {1}
    MaxTime = 3
    MaxFinishes = 2
    SameTick = TRUE
    MayCut = FALSE
    Lookback = 1
    DayLength = 2
    DayRetention = 2
    Retention = 2
INVARIANTS
    TypeOK
    StateLoads
PROPERTIES
    EachReadingLoggedOnce
