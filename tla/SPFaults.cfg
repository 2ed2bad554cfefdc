SPECIFICATION MCSpec
CONSTANTS
    c1 = c1
    c2 = c2
    None = None
    Events <- MCEvents
    Feeds <- FeedsFaults
    Chargers = {c1}
    Connectors = {0, 1}
    Partitions = {"p0"}
    PartitionOf <- OnePartition
    Instances = {"i1", "i2"}
    Second = 10
    Budget <- TwoOfAny
    StartOf <- MCStartOf
INVARIANTS TypeOK StateFromHistory ListedIsReadable LossBounded HistoryOncePerMessage
CHECK_DEADLOCK FALSE
