SPECIFICATION Spec
CONSTANTS
    a1 = a1
    a2 = a2
    b1 = b1
    Conns = {a1, a2}
    ChargerOf <- MCChargerOf
    Script <- ScriptReconnect
    Partitions = {"p0", "p1"}
    PartitionOf <- MCPartitionOf
    Budget <- OneDrop
INVARIANTS ChargerOrder
CHECK_DEADLOCK FALSE
