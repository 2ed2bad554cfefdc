---------------------- MODULE StateProcessorProperties ----------------------
(***************************************************************************)
(* What the state-processor keeps, whatever the order of its steps.        *)
(***************************************************************************)
EXTENDS StateProcessor

SessionRecord == [stop : Events, start : Events]

\* Every variable has its type: the goroutines are in a known place of
\* handleMessage, Redis, PostgreSQL and Kafka hold events of the gateway.
TypeOK ==
    /\ feed \in Seq(Events)
    /\ log \in [TPs -> Seq(Events)]
    /\ committed \in [TPs -> Nat]
    /\ pos \in [TPs -> Nat]
    /\ owner \in [TPs -> Instances]
    /\ work \in [Readers -> WorkRecord]
    /\ dedup \subseteq Msgs
    /\ redis \in [Slots -> Events \union {None}]
    /\ history \subseteq Events
    /\ sessions \subseteq SessionRecord
    /\ used \in [Kinds -> Nat]

-----------------------------------------------------------------------------
\* Whatever the API can show was recorded in event_history first: a Redis
\* field and both halves of a charge session come from an event that has its
\* row, under every fault (handleMessage writes history before Redis).
StateFromHistory ==
    /\ \A s \in Slots : redis[s] # None => redis[s] \in history
    /\ \A s \in sessions : s.stop \in history /\ s.start \in history

\* A charger the API lists has a last_seen, and a connector it lists has
\* fields to show, even when a pipeline stops half way (the SADD commands come
\* after the HSETs in every pipeline).
ListedIsReadable ==
    \A c \in Chargers :
        /\ redis[<<"listed", c, 0>>] # None => redis[<<"seen", c, 0>>] # None
        /\ \A n \in Connectors :
              redis[<<"member", c, n>>] # None =>
                 \E f \in {"status", "meter", "active"} : redis[<<f, c, n>>] # None

\* However often a message is published, delivered or retried, and by whichever
\* instance it is handled, it has one row of history until its key expires
\* (deduplicate and writeHistory).
HistoryOncePerMessage ==
    used["ttl"] = 0 => \A e, f \in history : e.msg = f.msg => e = f

-----------------------------------------------------------------------------
Recorded(m) == \E e \in history : e.msg = m
InFlight(m) == \E r \in Readers : /\ work[r].pc \in {"dedup", "history"}
                                  /\ work[r].ev.msg = m
Passed(tp)  == {k \in DOMAIN log[tp] : k =< pos[tp] \/ k =< committed[tp]}
LostMessages ==
    {m \in Msgs : /\ \E tp \in TPs : \E k \in Passed(tp) : log[tp][k].msg = m
                  /\ ~Recorded(m)
                  /\ ~InFlight(m)}

\* A message the group has moved past is in the history, but for one message
\* per failed call or re-sent SETNX and one per goroutine of a crashed process:
\* commits that fail, rebalances, expiries and ignored reads lose nothing (Run,
\* handleMessage).
LossBounded ==
    Cardinality(LostMessages) =<
        used["error"] + used["retry"] + Cardinality(Topics) * used["crash"]

-----------------------------------------------------------------------------
GuardedTypes  == {"StatusNotification", "MeterValues"}
GuardedEvents == {e \in Events : e.type \in GuardedTypes}
GuardedSlots  == {s \in Slots : s[1] \in {"status", "meter"}}

Latest == INSTANCE LatestState WITH
    Cells    <- GuardedSlots,
    CellOf   <- [e \in GuardedEvents |-> GuardSlot(e)],
    Rank     <- [e \in Events |-> Trunc(e.ts)],
    recorded <- history,
    shown    <- [s \in GuardedSlots |-> redis[s]]

\* With one instance and reads that answer, the read, the check and the write
\* of updateConnectorStatus and updateMeterValues behave as one step: status
\* and meter never go back by a second or more, and show recorded events only.
RefinesLatestState == Latest!Spec

Shows(e) == e.type \in GuardedTypes /\ ~Rejected(e) /\ ~NothingToShow(e)
BeingHandled(e) == \E r \in Readers : work[r].ev = e

\* With one instance and no failed call, a status or meter event that has been
\* handled is shown, or one at least as recent to the second is, in whatever
\* order the events came (the guard's early return).
ShowsNewestHandled ==
    used["error"] + used["crash"] + used["read"] = 0 =>
        \A e \in history : Shows(e) /\ ~BeingHandled(e) =>
            /\ redis[GuardSlot(e)] # None
            /\ Trunc(e.ts) =< Trunc(redis[GuardSlot(e)].ts)

-----------------------------------------------------------------------------
StartsFor(e, c) == e.type = "StartTransaction" /\ e.charger = c
\* start is the last StartTransaction of the charger before stop in the log
Pairs(start, stop) == LET l == log[TpOf(stop)] IN
    \E k \in DOMAIN l : \E j \in 1..(k - 1) :
        /\ l[k] = stop
        /\ l[j] = start /\ StartsFor(start, stop.charger)
        /\ \A x \in (j + 1)..(k - 1) : ~StartsFor(l[x], stop.charger)

\* With one instance a charge session joins a stop to the start before it, for a
\* charger that has one transaction at a time (updateTransaction,
\* tx:active:{charger}), whatever one fault happens.  Two can do harm: a start
\* that is lost after an earlier stop's DEL was.
SessionPairsOwnStart ==
    used["any"] =< 1 => \A s \in sessions : Pairs(s.start, s.stop)

Handled(e) == /\ \E k \in Passed(TpOf(e)) : log[TpOf(e)][k] = e
              /\ ~BeingHandled(e)
MissingSessions(c) ==
    {e \in Events : /\ e.type = "StopTransaction" /\ e.charger = c /\ Handled(e)
                    /\ \E start \in Events :
                          Pairs(start, e) /\ [stop |-> e, start |-> start] \notin sessions}

\* With one instance a fault costs each charger one session at most, the INSERT
\* whose error is dropped included, and commits that fail cost none: a loss leaves
\* nothing in tx:active that costs a later transaction its session as well,
\* although a restart can bring a stop that failed back after the next start
\* (updateTransaction).  A restart can cost several chargers a session each.
SessionLossBounded ==
    \A c \in Chargers : Cardinality(MissingSessions(c)) =< used["any"] - used["commit"]

-----------------------------------------------------------------------------
Settled ==
    /\ feed = <<>>
    /\ \A r \in Readers : work[r] = Idle
    /\ \A tp \in TPs : pos[tp] = Len(log[tp])

\* The readers always get to the end of every partition and stay there: no
\* fault makes a goroutine of Run wait or turn for ever.
EventuallyDrained == <>[]Settled

\* the stops that have a start before them, and the connectors last stopped
Paired(e) == e.type = "StopTransaction" /\ \E s \in Events : Pairs(s, e)

\* Without failed calls, every stop that has a start ends up as a session, and
\* the connector of its start is not left active (updateTransaction).
EventuallySessions ==
    <>[](used["any"] > used["commit"] + used["rebalance"] \/ \A e \in Events : Paired(e) =>
            \E s \in sessions : /\ s.stop = e
                                /\ Pairs(s.start, e)
                                /\ redis[<<"active", e.charger, s.start.conn>>] # s.start)
=============================================================================
