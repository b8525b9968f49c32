------------------------------ MODULE MCManager ------------------------------
(* Small instances of Manager for TLC. *)
EXTENDS ManagerRefinement, TLC

CONSTANTS j1, j2, c1, c2

Symmetry == Permutations(Conns)

\* j1 is retried once, j2 never.
MCRetry == (j1 :> 1) @@ (j2 :> 0)
MCRetryOne == (j1 :> 1)

=============================================================================
