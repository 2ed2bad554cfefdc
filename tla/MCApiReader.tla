----------------------------- MODULE MCApiReader -----------------------------
(***************************************************************************)
(* Small instances of ApiReader: chargers c1 and c2, whose events reach    *)
(* the state-processor while requests are served.                          *)
(***************************************************************************)
EXTENDS ApiReader

CONSTANTS c1, c2

Ev(id, c, n, type, ts) ==
    [id |-> id, msg |-> id, charger |-> c, conn |-> n, type |-> type,
     ts |-> ts, body |-> "full"]

Boot1   == Ev("b1", c1, 0, "BootNotification", 5)
Status1 == Ev("s1", c1, 1, "StatusNotification", 10)
Status2 == Ev("s2", c1, 1, "StatusNotification", 24)
\* the same second as Status2, earlier in it
Status3 == Ev("s3", c1, 1, "StatusNotification", 21)
Meter1  == Ev("m1", c1, 1, "MeterValues", 15)
StatusB == Ev("s4", c2, 1, "StatusNotification", 12)

MCEvents == {Boot1, Status1, Status2, Status3, Meter1, StatusB}
OnePartition == [c \in Chargers |-> "p0"]

\* what a charger sends first, two chargers, and status events in disorder
FeedsRead == {<<Boot1, Status1>>, <<Meter1, Status1>>, <<StatusB, Status1>>,
              <<Status2, Status1>>, <<Status2, Status3>>}

Faults(S, total) == [k \in Kinds |-> IF k = "any" THEN total ELSE IF k \in S THEN 1 ELSE 0]
OneWrite  == Faults({"error", "retry", "crash", "commit"}, 1)
=============================================================================
