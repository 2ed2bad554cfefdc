SPECIFICATION Spec
CONSTANTS
    a1 = a1
    a2 = a2
    b1 = b1
    Conns = {a1, a2, b1}
    ChargerOf <- MCChargerOf
    Script <- ScriptFaults
    Partitions = {"p0", "p1"}
    PartitionOf <- MCPartitionOf
    Budget <- TwoOfAny
INVARIANTS TypeOK AcknowledgedIsKept ConnectionOrder TransactionIdsDistinct AnswersInOrder OnlyAnsweredArePublished
CHECK_DEADLOCK FALSE
