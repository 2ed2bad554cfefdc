SPECIFICATION Spec
CONSTANTS
    c1 = c1
    c2 = c2
    None = None
    Events <- TwoConnectorEvents
    Feeds <- FeedsTwo
    Chargers = {c1}
    Connectors = {0, 1, 2}
    Partitions = {"p0"}
    PartitionOf <- OnePartition
    Instances = {"i1"}
    Second = 10
    Budget <- NoFaults
    StartOf <- MCStartOf
INVARIANTS SessionsMatchTransactions
CHECK_DEADLOCK FALSE
