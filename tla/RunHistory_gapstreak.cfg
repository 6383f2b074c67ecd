SPECIFICATION Spec
CONSTANTS
    NoVerdict = NoVerdict
    Unlisted = Unlisted
    Ids = {1, 2, 3}
    PullRequests = {}
    Late = {}
    MaxTime = 4
    MaxFinishes = 1
    SameTick = FALSE
    MayCut = FALSE
    Lookback = 1
    DayLength = 2
    DayRetention = 2
    Retention = 3
INVARIANTS
    UnclippedStreakIsWhole
