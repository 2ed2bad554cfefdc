SPECIFICATION MCFairSpec
CONSTANTS
    None = None
    Conns = {"a1", "a2"}
    ChargerOf <- MCChargerOf
    Script <- MCScript
    Partitions = {"p0"}
    PartitionOf <- MCPartitionOf
    GatewayBudget <- MCGatewayBudget
    EventOf <- MCEventOf
    Connectors = {0, 1}
    Instances = {"i1", "i2"}
    Second = 10
    ProcessorBudget <- MCProcessorBudget
INVARIANTS LossEndToEnd
PROPERTIES AnsweredIsRecorded ShownCatchesUp
CHECK_DEADLOCK FALSE
