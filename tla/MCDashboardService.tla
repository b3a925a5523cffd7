------------------------- MODULE MCDashboardService -------------------------
(* Instances of DashboardService for TLC. *)
EXTENDS DashboardService
=============================================================================
