-------------------------- MODULE ManagerRefinement --------------------------
(***************************************************************************)
(* Manager implements JobLifecycle.  A command or a sweep takes several    *)
(* steps to move a job: it counts as moved with the step that stores it at *)
(* its new place, and until then it is where it came from.                 *)
(***************************************************************************)
EXTENDS Manager

\* The pcs at which a job that was taken from the working set is in hand; the
\* failure was counted before the last of them.
Reaping == TaskHolds /\ task.pc # "enqueue"

State(j) ==
    CASE fate[j] = "unborn" -> "NEW"
      [] InQueue(j) -> "ENQUEUED"
      [] \E c \in Conns : conn[c].pc = "popped" /\ conn[c].val.jid = j -> "ENQUEUED"
      [] InSet("scheduled", j) -> "SCHEDULED"
      [] InSet("retries", j) -> "RETRIES"
      [] InSet("dead", j) -> "DEAD"
      [] InSet("working", j) -> "WORKING"
      [] \E c \in Conns : conn[c].pc = "failadd" /\ conn[c].val.jid = j -> "WORKING"
      [] InSweep(j) /\ task.pc = "enqueue" ->
           IF task.name = "Scheduled" THEN "SCHEDULED" ELSE "RETRIES"
      [] InSweep(j) /\ Reaping -> "WORKING"
      [] OTHER -> "GONE"

\* Every copy of a job, with the failures recorded in it (there is one copy at
\* most, see AtMostOneCopy).
Recorded(j) ==
    {queue[i].fails : i \in {k \in 1..Len(queue) : queue[k].jid = j}}
    \cup (UNION {{e.fails : e \in {x \in zset[s] : x.jid = j}} : s \in SetNames})
    \cup {conn[c].val.fails - (IF conn[c].pc = "failadd" THEN 1 ELSE 0) :
            c \in {d \in Conns : InHand(d, j)}}
    \cup (IF InSweep(j) THEN {task.hand.fails - (IF task.pc = "store" THEN 1 ELSE 0)} ELSE {})

Tries(j) == IF Recorded(j) = {} THEN 0 ELSE CHOOSE n \in Recorded(j) : TRUE

Abstract == INSTANCE JobLifecycle
              WITH state <- [j \in Jobs |-> State(j)],
                   tries <- [j \in Jobs |-> Tries(j)],
                   faults <- crashes + errs

(***************************************************************************)
(* Every behaviour of the job manager is one of the state diagram: under   *)
(* whatever interleaving of commands, sweeps, crashes and failing Redis    *)
(* commands a job goes only along the arrows, never comes back once it is  *)
(* gone, is retried exactly as often as its limit says, and is lost only   *)
(* by a fault or out of a worker's hands.                                  *)
(***************************************************************************)
FollowsDiagram == Abstract!Spec

=============================================================================
