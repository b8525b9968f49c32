------------------------------- MODULE MCCharts -------------------------------
(* A small instance of Charts for TLC. *)
EXTENDS Charts, TLC

\* A poll that found one job done, and one that overtook another.
MCPoints == {[processed |-> 1, failed |-> 0], [processed |-> -1, failed |-> 1]}

=============================================================================
