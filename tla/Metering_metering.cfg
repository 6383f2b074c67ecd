SPECIFICATION FairSpec
CONSTANTS
    Limit = 2
    Reserve = 1
    MaxSent = 4
INVARIANTS
    TypeOK
    NeverOverstated
    BreakerIsTheScans
    LineCounts
PROPERTIES
    NoneSentAfterRefusal
    BillSpec
    ReserveLifts
