SPECIFICATION Spec
CONSTANTS
    Chargers <- MCChargers
    MaxVersion = 1
    MaxPending = 3
    MaxMoves = 2
    MaxFailures = 0
PROPERTIES BackAndForward
CHECK_DEADLOCK FALSE
