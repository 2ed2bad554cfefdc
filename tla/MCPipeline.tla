----------------------------- MODULE MCPipeline -----------------------------
(***************************************************************************)
(* Small instances of Pipeline: charger A loses connection a1 and goes on  *)
(* with a2.                                                                *)
(***************************************************************************)
EXTENDS Pipeline

MCChargerOf   == [c \in Conns |-> "A"]
MCPartitionOf == [x \in {"A"} |-> "p0"]
Status == [elements |-> 4, typeID |-> 2, plainID |-> TRUE, action |-> "StatusNotification"]
\* a CALL that is answered and has no topic
Other  == [Status EXCEPT !.action = "Other"]
MCScript == [c \in Conns |-> IF c = "a1" THEN <<Status>> ELSE <<Other, Status>>]

Ev(id, n, type, ts) == [id |-> id, msg |-> id, charger |-> "A", conn |-> n,
                        type |-> type, ts |-> ts, body |-> "full"]
MCEventOf == [ev \in {<<"a1", 1>>, <<"a2", 2>>} |->
    CASE ev = <<"a1", 1>> -> Ev("s1", 1, "StatusNotification", 24)
      [] ev = <<"a2", 2>> -> Ev("s2", 1, "StatusNotification", 37)]

\* (G!Kinds and S!Kinds, spelt out: a constant cannot be given in terms of an
\* instance that it parameterises)
GatewayKinds   == {"drop", "write", "timeout", "publish", "resend", "restart", "any"}
ProcessorKinds == {"error", "read", "lookup", "retry", "commit", "crash", "rebalance",
                   "ttl", "any"}
MCGatewayBudget ==
    [k \in GatewayKinds |-> IF k = "any" THEN 2
                            ELSE IF k \in {"drop", "timeout", "publish", "resend"} THEN 1 ELSE 0]
MCProcessorBudget ==
    [k \in ProcessorKinds |->
        IF k \in {"any", "error", "read", "commit", "rebalance", "ttl"} THEN 1 ELSE 0]

\* Without loss: instances differ in their name only, moving a partition that
\* stays empty does what a rebalance that moves none does, and a1 is the
\* connection that the charger opens first.
MCInit == Init /\ owner = [tp \in S!TPs |-> CHOOSE i \in Instances : TRUE]
Moves ==
    /\ \A tp \in S!TPs : tp[1] # "status" => owner'[tp] = owner[tp]
    /\ h'["a2"].pc # "new" => h'["a1"].pc # "new"
MCFairSpec == MCInit /\ [][Next /\ Moves]_vars /\ WF_vars(Work)
=============================================================================
