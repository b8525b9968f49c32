----------------------------- MODULE TaskRunner -----------------------------
(***************************************************************************)
(* The task runner of the server (server/task_runner.go): a goroutine that *)
(* once a second goes through the recurring tasks (the scans of the sets   *)
(* and the reapers) and executes those whose period divides the second.    *)
(* What the tasks do is in Manager, Admin and Workers; here they take any  *)
(* time, also several seconds.                                             *)
(*                                                                         *)
(* The clock counts seconds, and the ticker fires once in each, at a       *)
(* moment of its own.  A runner that waits for the tick gets it at once:   *)
(* the second does not end before.                                         *)
(***************************************************************************)
EXTENDS Integers, Sequences

CONSTANTS
    Periods,     \* the periods of startTasks' tasks, in the order they are added
    Added,       \* the periods of tasks that subsystems add later
    MaxTasks,    \* bound on the number of tasks
    MaxTime      \* bound on the clock

ASSUME TaskRunnerAssumption ==
    /\ Periods \in Seq(Nat \ {0})
    /\ Added \subseteq Nat \ {0}
    /\ MaxTasks \in Nat
    /\ MaxTime \in Nat

VARIABLES
    now,      \* the wall clock, in seconds
    ticked,   \* has the ticker fired in this second?
    tick,     \* does timer.C, a channel of one, hold a tick?
    runner,   \* what the goroutine is doing
    tasks,    \* ts.tasks: the period of each
    sec,      \* the second the cycle took its start in
    todo,     \* the cycle's next task
    ran,      \* history: per task the last second it ran for, and how often
    longest   \* history: the seconds the longest cycle ran over

trvars == <<now, ticked, tick, runner, tasks, sec, todo, ran, longest>>

\* A task is as good as run up to the second before the runner starts, or up
\* to the second s it was added in.
NotRun(s) == [at |-> s, times |-> 0]

\* startTasks adds the tasks and starts the goroutine.
TaskRunnerInit ==
    /\ now = 0
    /\ ticked = TRUE
    /\ tick = FALSE
    /\ runner = "off"
    /\ tasks = Periods
    /\ sec = 0
    /\ todo = 1
    /\ ran = [t \in 1..Len(Periods) |-> NotRun(-1)]
    /\ longest = 0

\* AddTask waits for ts.mutex, which a cycle holds.
AddTask(p) ==
    /\ runner # "cycle"
    /\ Len(tasks) < MaxTasks
    /\ tasks' = Append(tasks, p)
    /\ ran' = Append(ran, NotRun(now))
    /\ UNCHANGED <<now, ticked, tick, runner, sec, todo, longest>>

\* cycle takes the second once, at its start.
BeginCycle ==
    /\ sec' = now
    /\ todo' = 1
    /\ runner' = "cycle"

\* The goroutine begins with a cycle; the jitter before it is always zero: a
\* float below 1 becomes the Duration 0 before it is multiplied.
FirstCycle ==
    /\ runner = "off"
    /\ BeginCycle
    /\ ticked' = TRUE
    /\ ran' = [t \in 1..Len(tasks) |-> NotRun(now - 1)]
    /\ UNCHANGED <<now, tick, tasks, longest>>

\* Fault: the task is looked up by the second it is reached in.
DueLate(t) == now % tasks[t] = 0

\* Is task t of the cycle due?
Due(t) == sec % tasks[t] = 0

\* One task of the cycle.  Its error is only logged.
Execute ==
    /\ runner = "cycle"
    /\ todo <= Len(tasks)
    /\ ran' = IF Due(todo)
              THEN [ran EXCEPT ![todo] = [at |-> sec, times |-> IF @.at = sec THEN @.times + 1 ELSE 1]]
              ELSE ran
    /\ todo' = todo + 1
    /\ UNCHANGED <<now, ticked, tick, runner, tasks, sec, longest>>

EndCycle ==
    /\ runner = "cycle"
    /\ todo > Len(tasks)
    /\ runner' = "select"
    /\ longest' = IF now - sec > longest THEN now - sec ELSE longest
    /\ UNCHANGED <<now, ticked, tick, tasks, sec, todo, ran>>

\* The select receives a tick ...
NextCycle ==
    /\ runner = "select"
    /\ tick
    /\ tick' = FALSE
    /\ BeginCycle
    /\ UNCHANGED <<now, ticked, tasks, ran, longest>>

\* ... or finds the stopper closed; when both are ready it chooses.
StopTasks ==
    /\ runner = "select"
    /\ runner' = "stopped"
    /\ UNCHANGED <<now, ticked, tick, tasks, sec, todo, ran, longest>>

\* Fault: the ticker fires several times a second.
TickerTwice ==
    /\ runner \in {"cycle", "select"}
    /\ ~tick
    /\ tick' = TRUE
    /\ ticked' = TRUE
    /\ UNCHANGED <<now, runner, tasks, sec, todo, ran, longest>>

\* The ticker fires; a tick that finds the channel full is dropped.
Ticker ==
    /\ ~ticked
    /\ ticked' = TRUE
    /\ tick' = TRUE
    /\ UNCHANGED <<now, runner, tasks, sec, todo, ran, longest>>

\* The next second.
Second ==
    /\ now < MaxTime
    /\ ticked
    /\ ~(runner = "select" /\ tick)
    /\ now' = now + 1
    /\ ticked' = (runner = "off")
    /\ UNCHANGED <<tick, runner, tasks, sec, todo, ran, longest>>

TaskRunnerNext ==
    \/ \E p \in Added : AddTask(p)
    \/ FirstCycle
    \/ Execute
    \/ EndCycle
    \/ NextCycle
    \/ Ticker
    \/ Second

-----------------------------------------------------------------------------
(* Properties *)

TaskRunnerTypeOK ==
    /\ now \in Nat
    /\ {ticked, tick} \subseteq BOOLEAN
    /\ runner \in {"off", "cycle", "select", "stopped"}
    /\ tasks \in Seq(Nat \ {0})
    /\ sec \in 0..now
    /\ todo \in 1..(Len(tasks) + 1)
    /\ ran \in Seq([at : Int, times : Nat])
    /\ Len(ran) = Len(tasks)
    /\ longest \in Nat

(***************************************************************************)
(* A task runs at most twice for the same second, and only once as long as *)
(* every cycle ends in the second it began in.  (After a cycle that ran on *)
(* into the next second two ticks may be left for that second: one that    *)
(* waits in the channel and the one that is yet to come.)                  *)
(***************************************************************************)
AtMostTwice == \A t \in 1..Len(ran) : ran[t].times <= IF longest = 0 THEN 1 ELSE 2

(***************************************************************************)
(* No second is skipped while no cycle runs for more than a second beyond  *)
(* the one it began in: a runner at rest has run every task for the last   *)
(* second its period divides.  (The comment says "every 30 seconds"; after *)
(* a longer cycle a task may wait for up to two periods.)                  *)
(***************************************************************************)
Punctual ==
    runner = "select" /\ longest <= 1 =>
        \A t \in 1..Len(tasks) : LET last == sec - (sec % tasks[t]) IN
            /\ now <= sec + 1
            /\ ran[t].at >= last

=============================================================================
