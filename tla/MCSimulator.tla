----------------------------- MODULE MCSimulator -----------------------------
(***************************************************************************)
(* A small instance of Simulator.                                          *)
(***************************************************************************)
EXTENDS Simulator

\* two replies may be late, or one with a dead connection
TwoFaults == [k \in Kinds |-> IF k \in {"late", "any"} THEN 2 ELSE 1]
=============================================================================
