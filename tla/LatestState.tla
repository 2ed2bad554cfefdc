----------------------------- MODULE LatestState -----------------------------
(***************************************************************************)
(* What the state-processor promises of the latest state it keeps for the  *)
(* API: events are recorded, and each cell (the status or the meter of a   *)
(* connector) shows a recorded event, replaced in one step and only by one *)
(* at least as recent.                                                     *)
(***************************************************************************)
EXTENDS Integers

CONSTANTS Events,
          Cells,
          CellOf,   \* the events that are shown somewhere -> where
          Rank,     \* how recent an event is
          None

VARIABLES recorded, shown

Init == recorded = {} /\ shown = [c \in Cells |-> None]

Record(e) == recorded' = recorded \union {e} /\ UNCHANGED shown

Show(e) ==
    /\ e \in recorded
    /\ shown[CellOf[e]] = None \/ Rank[shown[CellOf[e]]] =< Rank[e]
    /\ shown' = [shown EXCEPT ![CellOf[e]] = e]
    /\ UNCHANGED recorded

Next == (\E e \in Events : Record(e)) \/ (\E e \in DOMAIN CellOf : Show(e))

Spec == Init /\ [][Next]_<<recorded, shown>>
=============================================================================
