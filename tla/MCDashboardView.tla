-------------------------- MODULE MCDashboardView --------------------------
(* Instances of DashboardView for TLC. *)
EXTENDS DashboardView
=============================================================================
