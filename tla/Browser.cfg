SPECIFICATION FairSpec
CONSTANTS
    Chargers <- MCChargers
    MaxVersion = 2
    MaxPending = 3
    MaxMoves = 3
    MaxFailures = 1
INVARIANTS TypeOK PageIsCurrent OneTimer AddressIsCurrent
PROPERTIES EventuallyFresh
CHECK_DEADLOCK FALSE
