---------------------------- MODULE MCDashboard ----------------------------
(* Model-checking instance of Dashboard.                                   *)
EXTENDS Dashboard

Peers == Thread \cup Tool
=============================================================================
