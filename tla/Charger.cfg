SPECIFICATION FairSpec
CONSTANTS
    NumConnectors = 2
    Readings = {3}
    MaxSessions = 2
    Budget <- TwoFaults
INVARIANTS TypeOK ReplyLag SessionLossBounded IdleShowsAvailable
PROPERTIES EventuallyOnline
CHECK_DEADLOCK FALSE
