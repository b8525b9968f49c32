----------------------------- MODULE MCLifecycle -----------------------------
(* A small instance of Lifecycle for TLC. *)
EXTENDS Lifecycle, TLC

MCPeriods == <<2>>

=============================================================================
