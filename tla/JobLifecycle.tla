---------------------------- MODULE JobLifecycle ----------------------------
(***************************************************************************)
(* What Faktory promises of a job, without connections, sets, sweeps or    *)
(* reservations: the "Work unit state diagram" of the protocol             *)
(* specification (docs/protocol-specification.md) with the retry limit and *)
(* with the one way out it does not draw, a failure of the server or of    *)
(* Redis that loses jobs.                                                  *)
(***************************************************************************)
EXTENDS Integers

CONSTANTS
    Jobs,    \* jids; every jid is pushed once
    Retry    \* Retry[j] is the job's "retry" attribute

VARIABLES
    state,   \* per job: where it is in the diagram
    tries,   \* per job: the failures recorded in it
    faults   \* crashes and failed Redis commands so far

lvars == <<state, tries, faults>>

Init ==
    /\ state = [j \in Jobs |-> "NEW"]
    /\ tries = [j \in Jobs |-> 0]
    /\ faults = 0

\* Job j goes from one state to another; a job that is gone has no record.
Move(j, from, to, n) ==
    /\ state[j] = from
    /\ state' = [state EXCEPT ![j] = to]
    /\ tries' = [tries EXCEPT ![j] = IF to = "GONE" THEN 0 ELSE n]
    /\ UNCHANGED faults

Push(j) == \/ Move(j, "NEW", "SCHEDULED", 0)
           \/ Move(j, "NEW", "ENQUEUED", 0)

\* Time passes.
Enqueue(j) == \/ Move(j, "SCHEDULED", "ENQUEUED", tries[j])
              \/ Move(j, "RETRIES", "ENQUEUED", tries[j])

Fetch(j) == Move(j, "ENQUEUED", "WORKING", tries[j])

Ack(j) == Move(j, "WORKING", "GONE", 0)

\* FAIL, or the end of the reservation.  A job with retry = 0 is not kept.
Fail(j) ==
    \/ tries[j] < Retry[j] /\ Move(j, "WORKING", "RETRIES", tries[j] + 1)
    \/ Retry[j] # 0 /\ tries[j] >= Retry[j] /\ Move(j, "WORKING", "DEAD", tries[j] + 1)
    \/ Retry[j] = 0 /\ Move(j, "WORKING", "GONE", 0)

\* The morgue keeps a job for a time.
Purge(j) == Move(j, "DEAD", "GONE", 0)

\* A fault may lose jobs, but none from the morgue, and it does nothing else.
Fault(L) ==
    /\ \A j \in L : state[j] \notin {"DEAD", "GONE"}
    /\ state' = [j \in Jobs |-> IF j \in L THEN "GONE" ELSE state[j]]
    /\ tries' = [j \in Jobs |-> IF j \in L THEN 0 ELSE tries[j]]
    /\ faults' = faults + 1

Next ==
    \/ \E j \in Jobs : Push(j) \/ Enqueue(j) \/ Fetch(j) \/ Ack(j) \/ Fail(j) \/ Purge(j)
    \/ \E L \in SUBSET Jobs : Fault(L)

Spec == Init /\ [][Next]_lvars

=============================================================================
