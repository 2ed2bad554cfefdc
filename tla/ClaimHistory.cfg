SPECIFICATION Spec
CONSTANTS
    c1 = c1
    c2 = c2
    None = None
    Events <- MCEvents
    Feeds <- FeedsStatus
    Chargers = {c1}
    Connectors = {0, 1}
    Partitions = {"p0"}
    PartitionOf <- OnePartition
    Instances = {"i1"}
    Second = 10
    Budget <- OneError
    StartOf <- MCStartOf
INVARIANTS HistoryAlwaysWritten
CHECK_DEADLOCK FALSE
