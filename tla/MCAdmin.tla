------------------------------- MODULE MCAdmin -------------------------------
(* Small instances of Admin for TLC. *)
EXTENDS Admin, TLC

CONSTANTS a1, a2

Symmetry == Permutations(Admins)

\* Two jobs of different jobtypes, scheduled for the same time.
MCPlace == (1 :> "scheduled") @@ (2 :> "scheduled")
MCScore == (1 :> 1) @@ (2 :> 1)
MCType == (1 :> "A") @@ (2 :> "B")

\* The second one is not retried again.
MCTries == (1 :> 1) @@ (2 :> 0)

\* Filters with one criterion each.
NoFilter == [regexp |-> None, jobtype |-> None, jids |-> {}]
MCFilters == {[NoFilter EXCEPT !.regexp = <<{1, 2}>>]}
                \cup {[NoFilter EXCEPT !.jobtype = <<"A">>], [NoFilter EXCEPT !.jids = {2}]}

=============================================================================
