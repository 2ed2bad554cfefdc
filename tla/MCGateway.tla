------------------------------ MODULE MCGateway ------------------------------
(***************************************************************************)
(* Small instances of GatewayProperties.  Connections a1 and a2 are        *)
(* charger A's, the second opened after the first is gone; b1 is charger   *)
(* B's.  A and B hash to different partitions.                             *)
(***************************************************************************)
EXTENDS GatewayProperties

CONSTANTS a1, a2, b1

MCChargerOf   == [c \in Conns |-> IF c = b1 THEN "B" ELSE "A"]
MCPartitionOf == [x \in {"A", "B"} |-> IF x = "A" THEN "p0" ELSE "p1"]

Frame(action)    == [elements |-> 4, typeID |-> 2, plainID |-> TRUE, action |-> action]
Short(action)    == [Frame(action) EXCEPT !.elements = 3]
BadID(action)    == [Frame(action) EXCEPT !.plainID = FALSE]

\* a transaction starts on one connection and ends on the next; the frames
\* between are a CALL without a topic and one without a payload
ScriptReconnect ==
    [c \in Conns |-> IF c = a1
        THEN <<Frame("StartTransaction"), Frame("Other"), Frame("StatusNotification")>>
        ELSE <<Frame("StopTransaction"), Short("Heartbeat"), Frame("StatusNotification")>>]
\* two events of one topic on a connection, a CALL without a topic on its
\* successor, and starts of the other charger, the first without an answer
ScriptFaults ==
    [c \in Conns |-> CASE c = a1 -> <<Frame("StartTransaction"), Frame("StopTransaction")>>
                       [] c = a2 -> <<Frame("Other")>>
                       [] c = b1 -> <<BadID("StartTransaction"), Frame("StartTransaction")>>]

Faults(S, total) == [k \in Kinds |-> IF k = "any" THEN total ELSE IF k \in S THEN 1 ELSE 0]
TwoOfAny   == Faults(Kinds, 2)
OneDrop    == Faults({"drop"}, 1)
=============================================================================
