----------------------------- MODULE MCDashboard -----------------------------
(* A small instance of Dashboard for TLC. *)
EXTENDS Dashboard, TLC

CONSTANTS r1, r2

=============================================================================
