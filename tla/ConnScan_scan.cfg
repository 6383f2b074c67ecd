SPECIFICATION Spec
CONSTANTS
    MaxPages = 2
    Owners <- MCOwners
    Repos <- MCRepos
    OwnedBy <- MCOwnedBy
    Envs <- MCEnvs
    RepoPages <- MCRepoPages
    ItemPages <- MCItemPages
    RunPages <- MCRunPages
    MaxFaults = 3
INVARIANTS
    TypeOK
    CompleteIsWhole
    SnapshotsAreWhole
    DegradedIsIncomplete
    CauseIsSo
    KeptIsWhole

