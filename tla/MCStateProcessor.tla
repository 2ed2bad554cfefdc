-------------------------- MODULE MCStateProcessor --------------------------
(***************************************************************************)
(* Small instances of StateProcessor: the events, the orders in which the  *)
(* gateway publishes them and the budgets of faults that the runs use.     *)
(* A second has 10 ticks.                                                  *)
(***************************************************************************)
EXTENDS StateProcessorClaims

CONSTANTS c1, c2

Ev(id, msg, c, n, type, ts) ==
    [id |-> id, msg |-> msg, charger |-> c, conn |-> n, type |-> type,
     ts |-> ts, body |-> "full"]

Boot    == Ev("b1", "mb", c1, 0, "BootNotification", 5)
Beat    == Ev("h1", "mh", c1, 0, "Heartbeat", 31)
Status1 == Ev("s1", "ms1", c1, 1, "StatusNotification", 10)
Status2 == Ev("s2", "ms2", c1, 1, "StatusNotification", 24)
Status3 == Ev("s3", "ms3", c1, 1, "StatusNotification", 37)
\* the charger sends Status2 again, its answer having been lost
Resent2 == [Status2 EXCEPT !.id = "s2r"]
\* the same second as Status2, later in it and earlier in it
Status2Later   == Ev("s4", "ms4", c1, 1, "StatusNotification", 27)
Status2Earlier == Ev("s5", "ms5", c1, 1, "StatusNotification", 21)
BadStatus  == [Ev("s6", "ms6", c1, 1, "StatusNotification", 40) EXCEPT !.body = "bad"]
Meter1     == Ev("m1", "mm1", c1, 1, "MeterValues", 22)
Meter2     == Ev("m2", "mm2", c1, 1, "MeterValues", 33)
EmptyMeter == [Ev("m3", "mm3", c1, 1, "MeterValues", 44) EXCEPT !.body = "empty"]
Start1  == Ev("t1", "mt1", c1, 1, "StartTransaction", 20)
Stop1   == Ev("p1", "mp1", c1, 0, "StopTransaction", 30)
Start2  == Ev("t2", "mt2", c1, 1, "StartTransaction", 40)
Stop2   == Ev("p2", "mp2", c1, 0, "StopTransaction", 50)
\* a transaction of the charger's second connector
StartB  == Ev("t3", "mt3", c1, 2, "StartTransaction", 25)
StopB   == Ev("p3", "mp3", c1, 0, "StopTransaction", 35)

MCEvents == {Boot, Beat, Status1, Status2, Status3, Resent2, Status2Later,
             Status2Earlier, BadStatus, Meter1, Meter2, EmptyMeter, Start1, Stop1,
             Start2, Stop2}
\* and one of a second charger in the same partition
OtherStart == Ev("t4", "mt4", c2, 1, "StartTransaction", 22)
OtherStop  == Ev("p4", "mp4", c2, 0, "StopTransaction", 32)
TwoChargerEvents   == MCEvents \union {OtherStart, OtherStop}
TwoConnectorEvents == {Start1, StartB, StopB, Stop1}
MCStartOf == [e \in {Stop1, Stop2, StopB} |->
                  CASE e = Stop1 -> Start1 [] e = Stop2 -> Start2 [] e = StopB -> StartB]
OnePartition == [c \in Chargers |-> "p0"]

FeedsMixed    == {<<Boot, Meter1>>, <<Start1, EmptyMeter, Stop1>>,
                  <<BadStatus, Status1, Beat>>}
FeedsDisorder == {<<Status2, BadStatus, Status3>>,
                  <<Status2, Status1, Resent2, Status3>>,
                  <<Status3, Status2, Status2, Status1>>,
                  <<Meter2, Status2, Meter1>>,
                  <<Status2, Status2Later, Status2Earlier>>}
\* a charger's transactions, one after the other, and those of two chargers
FeedsSessions == {<<Start1, EmptyMeter, Stop1>>, <<Start1, Stop1, Start2, Stop2>>,
                  <<Start1, OtherStart, Stop1, OtherStop>>}
FeedsOneInstance == FeedsDisorder \union FeedsSessions
FeedsResent   == {<<Status2, Resent2, Status3>>, <<Status2, Status2, Resent2>>}
FeedsFaults   == FeedsMixed \union FeedsResent
FeedsTwo      == {<<Start1, StartB, Stop1, StopB>>}
FeedsStatus   == {<<Status1, Status2, Status3>>}

Faults(S, total) == [k \in Kinds |-> IF k = "any" THEN total ELSE IF k \in S THEN 1 ELSE 0]
NoFaults     == Faults({}, 0)
TwoOfAny     == Faults(Kinds, 2)
NoReadFault  == Faults(Kinds \ {"read"}, 2)
OneError     == Faults({"error"}, 1)
OneRebalance == Faults({"rebalance"}, 1)

\* all partitions are first assigned to one instance, and rebalances move them;
\* which one makes no difference, as instances differ in their name only
MCInit == Init /\ owner = [tp \in TPs |-> CHOOSE i \in Instances : TRUE]
MCSpec == MCInit /\ [][Next]_vars
=============================================================================
