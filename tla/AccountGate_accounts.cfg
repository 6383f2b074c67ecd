SPECIFICATION FairSpec
CONSTANTS
    forge1 = forge1
    forge2 = forge2
    me = me
    you = you
    them = them
    NotOpen = NotOpen
    Conns = {1, 2, 3, 4}
    ForgeOf <- FourForges
    AccountOf <- FourAccounts
    Names = {"ann", "bob"}
    MayRename = TRUE
INVARIANTS
    GateCounts
    EarliestReads
    RefusedForAReader
PROPERTIES
    ScanReturns
