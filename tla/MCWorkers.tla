------------------------------ MODULE MCWorkers ------------------------------
(* Small instances of Workers for TLC. *)
EXTENDS Workers, TLC

CONSTANTS c1, c2, w1

\* One process with two connections.
MCWidTwo == (c1 :> w1) @@ (c2 :> w1)

=============================================================================
