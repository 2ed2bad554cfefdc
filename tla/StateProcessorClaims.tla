------------------------- MODULE StateProcessorClaims -------------------------
(***************************************************************************)
(* What the documentation says of the state-processor and the code does    *)
(* not keep: each is the property of a run that TLC finds violated.        *)
(***************************************************************************)
EXTENDS StateProcessorProperties

CONSTANT StartOf   \* the start each stop ends, by its OCPP transaction id

\* docs/architecture.md:93: "History is always written (append-only)."  Run
\* goes on after a handler's error, and the next commit passes the failed
\* offset: the event will not come again.
HistoryAlwaysWritten ==
    \A tp \in TPs : \A k \in DOMAIN log[tp] :
        k =< committed[tp] => Recorded(log[tp][k].msg) \/ InFlight(log[tp][k].msg)

\* docs/platform-dx.md:73: "Even if events arrive out of order from different
\* consumers, the latest state is always correct."  After a rebalance two
\* instances can both pass the check before either writes.
LatestStateCorrect ==
    Settled => \A e \in history : Shows(e) =>
        redis[GuardSlot(e)] # None /\ e.ts =< redis[GuardSlot(e)].ts

\* docs/architecture.md:47: on a StopTransaction the state-processor "pairs it
\* with the corresponding `StartTransaction`".  tx:active has one entry per
\* charger, though its connectors can charge at the same time.
SessionsMatchTransactions == \A s \in sessions : s.start = StartOf[s.stop]
=============================================================================
