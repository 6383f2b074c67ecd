SPECIFICATION Spec
CONSTANTS
    Intervals <- MCIntervals
    Lookbacks <- MCLookbacks
    MinInterval = 10
    MaxInterval = 12
    MinLookback = 42
    MaxLookback = 60
    MaxReserve = 2
    Grace = 3
    Lag = 1
INVARIANTS
    TypeOK
    Reaches
    MarkerIsFresh
PROPERTIES
    SaveHasTime
\* A process told to stop ends.
CHECK_DEADLOCK FALSE
