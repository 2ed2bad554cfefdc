----------------------------- MODULE MCDashboard -----------------------------
(***************************************************************************)
(* Small instances of Dashboard: two chargers, so that an answer for one   *)
(* can come when the other's page is open.                                 *)
(***************************************************************************)
EXTENDS Dashboard

MCChargers == {"c1", "c2"}
=============================================================================
