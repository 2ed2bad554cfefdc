SPECIFICATION FairSpec
CONSTANTS
    c1 = c1
    c2 = c2
    None = None
    Events <- TwoChargerEvents
    Feeds <- FeedsOneInstance
    Chargers = {c1, c2}
    Connectors = {0, 1}
    Partitions = {"p0"}
    PartitionOf <- OnePartition
    Instances = {"i1"}
    Second = 10
    Budget <- NoReadFault
    StartOf <- MCStartOf
INVARIANTS ShowsNewestHandled SessionPairsOwnStart SessionLossBounded
PROPERTIES RefinesLatestState EventuallyDrained EventuallySessions
CHECK_DEADLOCK FALSE
