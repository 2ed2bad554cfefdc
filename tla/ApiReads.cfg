SPECIFICATION ApiSpec
CONSTANTS
    c1 = c1
    c2 = c2
    None = None
    Events <- MCEvents
    Feeds <- FeedsRead
    Chargers = {c1, c2}
    Connectors = {0, 1}
    Partitions = {"p0"}
    PartitionOf <- OnePartition
    Instances = {"i1"}
    Second = 10
    Budget <- OneWrite
    ReadFailures = 1
INVARIANTS ApiTypeOK AnswersAreReadable MissesOnlyFailures
PROPERTIES StatusNeverGoesBack
CHECK_DEADLOCK FALSE
