------------------------------- MODULE Manager -------------------------------
(***************************************************************************)
(* The job manager of Faktory (package manager): PUSH, FETCH, ACK and FAIL *)
(* as the server's connections call them, concurrently with the task       *)
(* runner's periodic sweeps (scheduled jobs, retries, dead jobs and the    *)
(* reservation reaper), over a Redis store that survives a crash of the    *)
(* server process.                                                         *)
(*                                                                         *)
(* One step is one Redis command or one critical section of workingMutex:  *)
(* everything the code can interleave is interleaved here.                 *)
(***************************************************************************)
EXTENDS Integers, Sequences, FiniteSets, SortedSet

CONSTANTS
    Jobs,            \* jids; every jid is pushed once
    Conns,           \* client connections, each runs one command at a time
    Retry,           \* Retry[j] is the job's "retry" attribute
    Timeouts,        \* reservation lengths ("reserve_for")
    RetryDelays,     \* delays nextRetry may choose
    ScheduleDelays,  \* how far in the future a job's "at" may lie
    DeadTTL,         \* how long the morgue keeps a job
    Extensions,      \* how far ahead ExtendReservation may reach; {} = never
    MaxBatch,        \* the maxCount of RemoveBefore (10 or 100 in the code)
    SharedScores,    \* may two jobs have the same float64 score?
    MaxTime,         \* bound on the clock
    MaxCrashes,      \* bound on the crashes of the server process
    MaxErrs          \* bound on the Redis commands that return an error

\* Reservations, retries and the morgue always lie in the future: the code
\* clamps a reservation to 60..86400 seconds, nextRetry adds 15 seconds or
\* more, and DeadTTL is half a year.
ASSUME ManagerAssumption ==
    /\ Jobs # {}
    /\ Retry \in [Jobs -> Int]
    /\ Timeouts \subseteq Nat \ {0}
    /\ RetryDelays \subseteq Nat \ {0}
    /\ ScheduleDelays \subseteq Nat \ {0}
    /\ Extensions \subseteq Nat \ {0}
    /\ DeadTTL \in Nat \ {0}
    /\ MaxBatch \in Nat \ {0}
    /\ SharedScores \in BOOLEAN
    /\ MaxTime \in Nat
    /\ MaxCrashes \in Nat
    /\ MaxErrs \in Nat

VARIABLES
    now,          \* the wall clock, counted from 1 so that 0 is Go's zero time
    queue,        \* Redis list of the jobs' queue, head first
    zset,         \* Redis sorted sets: scheduled, retries, dead, working
    workingMap,   \* manager.workingMap: the jids that have a reservation
    reservation,  \* the *Reservation the map holds, or held last, for a jid
    conn,         \* per connection: the command in progress
    task,         \* the task runner's goroutine
    up,           \* is the server process running?
    crashes,      \* crashes so far
    errs,         \* failed Redis commands so far
    fate,         \* history: what became of each job
    deliveries    \* history: how often a job was handed to a worker

store == <<queue, zset>>
memory == <<workingMap, reservation>>
history == <<fate, deliveries>>
faults == <<up, crashes, errs>>
vars == <<now, queue, zset, workingMap, reservation, conn, task,
          up, crashes, errs, fate, deliveries>>

SetNames == {"scheduled", "retries", "dead", "working"}
TaskNames == {"Scheduled", "Retries", "Dead", "Busy"}

\* Faults: tasks that were given another task's set.
SweptRetriesAsScheduled(n) == IF n = "Dead" THEN "dead"
                              ELSE IF n = "Busy" THEN "working" ELSE "scheduled"
SweptBusyAsDead(n) == CASE n = "Scheduled" -> "scheduled"
                        [] n = "Retries" -> "retries"
                        [] OTHER -> "dead"

\* The set a task sweeps.
Swept(n) == CASE n = "Scheduled" -> "scheduled"
              [] n = "Retries" -> "retries"
              [] n = "Dead" -> "dead"
              [] n = "Busy" -> "working"

(***************************************************************************)
(* A stored job: its jid and its failures so far (0 is no Failure record,  *)
(* n > 0 is RetryCount = n - 1).  exp is the expires_at in the JSON of a   *)
(* working set member, 0 elsewhere.                                        *)
(***************************************************************************)
Value == [jid : Jobs, fails : Nat, exp : Nat]
Entry == [jid : Jobs, fails : Nat, exp : Nat, score : Nat]

\* Fault: RetryCount counted from -1.
NewValueEarly(j, f) == [jid |-> j, fails |-> f - 1, exp |-> 0]
NewValue(j, f) == [jid |-> j, fails |-> f, exp |-> 0]
NewEntry(j, f, x, s) == [jid |-> j, fails |-> f, exp |-> x, score |-> s]
ValueOf(e) == [jid |-> e.jid, fails |-> e.fails, exp |-> e.exp]

\* The in-memory fields of Reservation: Expiry, texpiry, extension and the
\* failure count of its Job.
Reservation == [exp : Nat, texp : Nat, ext : Nat, fails : Nat]

ConnStates == {"idle", "popped", "stored", "ackrem", "failrem", "failadd"}
TaskStates == {"idle", "scan", "next", "enqueue", "check", "extend",
               "clear", "store"}
Fates == {"unborn",     \* not pushed yet
          "live",       \* accepted and not settled
          "done",       \* ACK has cleared its reservation
          "acked",      \* ACK has been answered OK
          "ephemeral",  \* failed with retry = 0
          "purged",     \* the morgue expired it
          "crashed",    \* only in memory when the process died
          "raced",      \* dropped by the reaper, which found no reservation
          "storeerr"}   \* dropped because a Redis command failed

\* What is in the hands of a connection or task that holds no job.
Nothing == NewValue(CHOOSE j \in Jobs : TRUE, 0)

\* A connection between two commands, the task runner between two tasks and
\* a jid that was never reserved.
IdleConn == [pc |-> "idle", val |-> Nothing]
IdleTask == [name |-> "Busy", pc |-> "idle", when |-> 0, batch |-> {},
             count |-> 0, hand |-> Nothing]
NoReservation == [exp |-> 0, texp |-> 0, ext |-> 0, fails |-> 0]

Hold(c, p, v) == conn' = [conn EXCEPT ![c] = [pc |-> p, val |-> v]]
Idle(c) == conn' = [conn EXCEPT ![c] = IdleConn]

\* A job that was live meets its fate; a settled job keeps the one it has.
Settle(j, f) == fate' = [fate EXCEPT ![j] = IF @ = "live" THEN f ELSE @]

Init ==
    /\ now = 1
    /\ queue = << >>
    /\ zset = [s \in SetNames |-> {}]
    /\ workingMap = {}
    /\ reservation = [j \in Jobs |-> NoReservation]
    /\ conn = [c \in Conns |-> IdleConn]
    /\ task = IdleTask
    /\ up = TRUE
    /\ crashes = 0
    /\ errs = 0
    /\ fate = [j \in Jobs |-> "unborn"]
    /\ deliveries = [j \in Jobs |-> 0]

-----------------------------------------------------------------------------
(* PUSH *)

\* The Redis command the closure in Push ends with: a job whose "at" is in
\* the future goes to the scheduled set, every other job to its queue.
Push(j, d) ==
    /\ up
    /\ fate[j] = "unborn"
    /\ \/ /\ d > 0
          /\ zset' = [zset EXCEPT !["scheduled"] =
                        AddElement(@, NewEntry(j, 0, 0, now + d))]
          /\ UNCHANGED queue
       \/ /\ d = 0
          /\ queue' = Append(queue, NewValue(j, 0))
          /\ UNCHANGED zset
    /\ fate' = [fate EXCEPT ![j] = "live"]
    /\ UNCHANGED <<now, memory, conn, task, faults, deliveries>>

\* redisQueue.Push drops the error of LPUSH: PUSH still answers OK.
PushError(j) ==
    /\ up
    /\ fate[j] = "unborn"
    /\ errs < MaxErrs
    /\ errs' = errs + 1
    /\ fate' = [fate EXCEPT ![j] = "storeerr"]
    /\ UNCHANGED <<now, store, memory, conn, task, up, crashes, deliveries>>

-----------------------------------------------------------------------------
(* FETCH *)

\* BRPOP: the oldest job leaves the queue and is only in memory.
FetchPop(c) ==
    /\ up
    /\ conn[c].pc = "idle"
    /\ queue # << >>
    /\ Hold(c, "popped", Head(queue))
    /\ queue' = Tail(queue)
    /\ UNCHANGED <<now, zset, memory, task, faults, history>>

\* reserve: the reservation is stored under its expiry ...
ReserveStore(c, t) ==
    LET v == conn[c].val IN
    /\ up
    /\ conn[c].pc = "popped"
    /\ zset' = [zset EXCEPT !["working"] =
                  AddElement(@, NewEntry(v.jid, v.fails, now + t, now + t))]
    /\ Hold(c, "stored", [v EXCEPT !.exp = now + t])
    /\ UNCHANGED <<now, queue, memory, task, faults, history>>

\* ... then kept in memory, and the job is written to the worker.
ReserveMap(c) ==
    LET v == conn[c].val IN
    /\ up
    /\ conn[c].pc = "stored"
    /\ workingMap' = workingMap \cup {v.jid}
    /\ reservation' = [reservation EXCEPT ![v.jid] =
                         [exp |-> v.exp, texp |-> v.exp, ext |-> 0, fails |-> v.fails]]
    /\ deliveries' = [deliveries EXCEPT ![v.jid] = @ + 1]
    /\ Idle(c)
    /\ UNCHANGED <<now, store, task, faults, fate>>

-----------------------------------------------------------------------------
(* ACK and FAIL: a worker names a job it was given once.  The connection   *)
(* need not be the one that fetched it, and the reservation it meets need  *)
(* not be the one made for it.  Without a reservation ACK answers OK and   *)
(* FAIL an error, and nothing changes.                                     *)

\* Fault: the reservation is looked up and stays in the map.
clearReservationKeeps(j) ==
    /\ j \in workingMap
    /\ UNCHANGED workingMap

\* clearReservation: the lookup and the deletion are one critical section.
clearReservation(j) ==
    /\ j \in workingMap
    /\ workingMap' = workingMap \ {j}

AckClear(c, j) ==
    /\ up
    /\ conn[c].pc = "idle"
    /\ deliveries[j] > 0
    /\ clearReservation(j)
    /\ Hold(c, "ackrem", NewValue(j, 0))
    /\ fate' = [fate EXCEPT ![j] = "done"]
    /\ UNCHANGED <<now, store, reservation, task, faults, deliveries>>

\* Fault: the score is not the one the entry was stored with.
FoundRounded(j) == rem(zset["working"], reservation[j].exp + 1, j, SharedScores)

\* What RemoveElement(res.Expiry, jid) finds in the working set.
Found(j) == rem(zset["working"], reservation[j].exp, j, SharedScores)

\* RemoveElement on the working set; ACK ignores whether it found the entry.
AckRemove(c) ==
    LET j == conn[c].val.jid IN
    /\ up
    /\ conn[c].pc = "ackrem"
    /\ zset' = [zset EXCEPT !["working"] = @ \ Found(j)]
    /\ fate' = [fate EXCEPT ![j] = "acked"]
    /\ Idle(c)
    /\ UNCHANGED <<now, queue, memory, task, faults, deliveries>>

\* processFailure, called by Fail: the reservation is cleared first ...
FailClear(c, j) ==
    /\ up
    /\ conn[c].pc = "idle"
    /\ deliveries[j] > 0
    /\ clearReservation(j)
    /\ Hold(c, "failrem", NewValue(j, 0))
    /\ UNCHANGED <<now, store, reservation, task, faults, history>>

\* ... then the working set entry.  When it is not there the failure is
\* dropped and FAIL answers OK; when it is, one more failure is recorded, and
\* a job without retries is gone.
FailRemove(c) ==
    LET j == conn[c].val.jid
        f == reservation[j].fails + 1
    IN
    /\ up
    /\ conn[c].pc = "failrem"
    /\ zset' = [zset EXCEPT !["working"] = @ \ Found(j)]
    /\ \/ /\ Found(j) # {}
          /\ Retry[j] # 0
          /\ Hold(c, "failadd", NewValue(j, f))
          /\ UNCHANGED fate
       \/ /\ Found(j) # {}
          /\ Retry[j] = 0
          /\ Settle(j, "ephemeral")
          /\ Idle(c)
       \/ /\ Found(j) = {}
          /\ Idle(c)
          /\ UNCHANGED fate
    /\ UNCHANGED <<now, queue, memory, task, faults, deliveries>>

\* Fault: one retry too many.
MayRetryOnce(v) == v.fails - 1 <= Retry[v.jid]

\* RetryCount < Retry
MayRetry(v) == v.fails - 1 < Retry[v.jid]

\* The closure of processFailure: a job that may be retried goes to the
\* retries, every other one to the morgue.
retryOrBury(v) ==
    \/ /\ MayRetry(v)
       /\ \E d \in RetryDelays :
            zset' = [zset EXCEPT !["retries"] =
                       AddElement(@, NewEntry(v.jid, v.fails, 0, now + d))]
    \/ /\ ~MayRetry(v)
       /\ zset' = [zset EXCEPT !["dead"] =
                     AddElement(@, NewEntry(v.jid, v.fails, 0, now + DeadTTL))]

FailStore(c) ==
    /\ up
    /\ conn[c].pc = "failadd"
    /\ retryOrBury(conn[c].val)
    /\ Idle(c)
    /\ UNCHANGED <<now, queue, memory, task, faults, history>>

\* ExtendReservation only remembers the new deadline in memory.
ExtendReservation(j, x) ==
    /\ up
    /\ j \in workingMap
    /\ reservation[j].texp < now + x
    /\ reservation' = [reservation EXCEPT ![j].ext = now + x]
    /\ UNCHANGED <<now, store, workingMap, conn, task, faults, history>>

-----------------------------------------------------------------------------
(* The task runner: one goroutine runs the due tasks one after the other.  *)

Goto(p) == task' = [task EXCEPT !.pc = p]

\* fn is done with a member: RemoveBefore counts it unless fn failed.
NextMember(n) == task' = [task EXCEPT !.pc = "next", !.hand = Nothing, !.count = @ + n]

\* Execute passes time.Now() to the sweep.
TaskStart(n) ==
    /\ up
    /\ task.pc = "idle"
    /\ task' = [task EXCEPT !.name = n, !.pc = "scan", !.when = now]
    /\ UNCHANGED <<now, store, memory, conn, faults, history>>

\* RemoveBefore reads a batch of due members ...
TaskScan ==
    /\ up
    /\ task.pc = "scan"
    /\ \E B \in Batches(zset[Swept(task.name)], task.when, MaxBatch) :
         task' = [task EXCEPT !.pc = "next", !.batch = B, !.count = 0]
    /\ UNCHANGED <<now, store, memory, conn, faults, history>>

\* Fault: due jobs are removed and not enqueued.
AfterRemoveDrops(n) == IF n = "Busy" THEN "check" ELSE "next"

\* What fn does first with a member that was removed.
AfterRemove(n) == CASE n = "Busy" -> "check"
                    [] n = "Dead" -> "next"
                    [] OTHER -> "enqueue"

\* Fault: the reply of ZREM is ignored.
WasThereBlind(e) == TRUE

\* ZREM answers 1: the member was still in the set.
WasThere(e) == e \in zset[Swept(task.name)]

\* ... and removes them one by one.  Only a member that was still there is
\* handed to fn; the morgue's fn does nothing, so its job is gone.
TaskRemove(e) ==
    LET s == Swept(task.name)
        present == WasThere(e)
    IN
    /\ up
    /\ task.pc = "next"
    /\ e \in First(task.batch)
    /\ zset' = [zset EXCEPT ![s] = @ \ {e}]
    /\ task' = [task EXCEPT
                  !.batch = @ \ {e},
                  !.hand = IF present THEN ValueOf(e) ELSE @,
                  !.pc = IF present THEN AfterRemove(task.name) ELSE @,
                  !.count = IF present /\ task.name = "Dead" THEN @ + 1 ELSE @]
    /\ IF present /\ task.name = "Dead" THEN Settle(e.jid, "purged") ELSE UNCHANGED fate
    /\ UNCHANGED <<now, queue, memory, conn, faults, deliveries>>

\* schedule's fn: the job goes back to its queue.
TaskEnqueue ==
    /\ up
    /\ task.pc = "enqueue"
    /\ queue' = Append(queue, NewValue(task.hand.jid, task.hand.fails))
    /\ NextMember(1)
    /\ UNCHANGED <<now, zset, memory, conn, faults, history>>

\* ReapExpiredJobs' fn looks the reservation up: one that was extended
\* beyond the sweep's time gets its new expiry ...
ReapCheck ==
    LET j == task.hand.jid
        extended == j \in workingMap /\ task.when < reservation[j].ext
    IN
    /\ up
    /\ task.pc = "check"
    /\ \/ /\ extended
          /\ reservation' = [reservation EXCEPT ![j] =
                               [@ EXCEPT !.exp = reservation[j].ext,
                                         !.texp = reservation[j].ext]]
          /\ Goto("extend")
       \/ /\ ~extended
          /\ Goto("clear")
          /\ UNCHANGED reservation
    /\ UNCHANGED <<now, store, workingMap, conn, faults, history>>

\* ... and the same JSON, with the expires_at it was stored with, is put back.
ReapExtend ==
    LET v == task.hand IN
    /\ up
    /\ task.pc = "extend"
    /\ zset' = [zset EXCEPT !["working"] =
                  AddElement(@, NewEntry(v.jid, v.fails, v.exp, reservation[v.jid].exp))]
    /\ NextMember(1)
    /\ UNCHANGED <<now, queue, memory, conn, faults, history>>

\* Otherwise processFailure(JobReservationExpired): without a reservation it
\* returns "Job not found" and the member, already removed, is dropped.
ReapClear ==
    LET j == task.hand.jid
        f == reservation[j].fails + 1
    IN
    /\ up
    /\ task.pc = "clear"
    /\ \/ /\ j \notin workingMap
          /\ Settle(j, "raced")
          /\ NextMember(0)
          /\ UNCHANGED workingMap
       \/ /\ clearReservation(j)
          /\ Retry[j] = 0
          /\ Settle(j, "ephemeral")
          /\ NextMember(1)
       \/ /\ clearReservation(j)
          /\ Retry[j] # 0
          /\ task' = [task EXCEPT !.pc = "store", !.hand = NewValue(j, f)]
          /\ UNCHANGED fate
    /\ UNCHANGED <<now, store, reservation, conn, faults, deliveries>>

ReapStore ==
    /\ up
    /\ task.pc = "store"
    /\ retryOrBury(task.hand)
    /\ NextMember(1)
    /\ UNCHANGED <<now, queue, memory, conn, faults, history>>

\* The end of a batch.  schedule and ReapExpiredJobs read another one after a
\* full one; Purge removes one batch only.
TaskEnd ==
    /\ up
    /\ task.pc = "next"
    /\ task.batch = {}
    /\ \/ /\ task.count = MaxBatch
          /\ task.name # "Dead"
          /\ Goto("scan")
       \/ /\ task.count # MaxBatch \/ task.name = "Dead"
          /\ task' = IdleTask
    /\ UNCHANGED <<now, store, memory, conn, faults, history>>

-----------------------------------------------------------------------------
(* Failures of Redis commands *)

\* Fault: FAIL goes on after a ZREM that failed.
StoreErrorIgnored(c) ==
    /\ up
    /\ errs < MaxErrs
    /\ conn[c].pc = "failrem"
    /\ errs' = errs + 1
    /\ Hold(c, "failadd", conn[c].val)
    /\ UNCHANGED <<now, store, memory, task, up, crashes, history>>

\* The command's error is returned to the client.  A job whose ZADD failed is
\* in no set any more; after a failed ZREM the entry stays, without a
\* reservation.
StoreError(c) ==
    /\ up
    /\ errs < MaxErrs
    /\ conn[c].pc \in {"popped", "ackrem", "failrem", "failadd"}
    /\ errs' = errs + 1
    /\ Idle(c)
    /\ IF conn[c].pc \in {"popped", "failadd"}
       THEN Settle(conn[c].val.jid, "storeerr")
       ELSE UNCHANGED fate
    /\ UNCHANGED <<now, store, memory, task, up, crashes, deliveries>>

\* A failed read or ZREM ends the sweep.  An error of fn is logged and the
\* loop goes on with its job dropped and not counted, except that the error
\* of LPUSH is never seen and the job counts as moved.
TaskError ==
    /\ up
    /\ errs < MaxErrs
    /\ errs' = errs + 1
    /\ \/ /\ task.pc = "scan" \/ (task.pc = "next" /\ task.batch # {})
          /\ task' = IdleTask
          /\ UNCHANGED fate
       \/ /\ task.pc \in {"enqueue", "extend", "store"}
          /\ NextMember(IF task.pc = "enqueue" THEN 1 ELSE 0)
          /\ Settle(task.hand.jid, "storeerr")
    /\ UNCHANGED <<now, store, memory, conn, up, crashes, deliveries>>

-----------------------------------------------------------------------------
(* Crash, restart and the clock *)

\* The pcs at which a process holds a job that is nowhere in Redis.
ConnHolds(c) == conn[c].pc \in {"popped", "failadd"}
TaskHolds == task.pc \in {"enqueue", "check", "extend", "clear", "store"}

\* The process dies: its memory is lost, Redis keeps its data.
Crash ==
    /\ up
    /\ crashes < MaxCrashes
    /\ crashes' = crashes + 1
    /\ up' = FALSE
    /\ workingMap' = {}
    /\ reservation' = [j \in Jobs |-> NoReservation]
    /\ conn' = [c \in Conns |-> IdleConn]
    /\ task' = IdleTask
    /\ fate' = [j \in Jobs |->
                  IF /\ fate[j] = "live"
                     /\ \/ \E c \in Conns : ConnHolds(c) /\ conn[c].val.jid = j
                        \/ TaskHolds /\ task.hand.jid = j
                  THEN "crashed" ELSE fate[j]]
    /\ UNCHANGED <<now, store, errs, deliveries>>

\* Fault: Expiry is not restored.
RestoredBlank(j) == [NoReservation EXCEPT !.fails =
                       (CHOOSE x \in zset["working"] : x.jid = j).fails]

\* loadWorkingSet: a reservation comes back from the JSON of its member (a jid
\* has one, see AtMostOneCopy): with the expires_at it was first stored with,
\* and zero times in the fields that are not in the JSON.
Restored(j) ==
    LET e == CHOOSE x \in zset["working"] : x.jid = j
    IN  [exp |-> e.exp, texp |-> 0, ext |-> 0, fails |-> e.fails]

Loaded == {e.jid : e \in zset["working"]}

Boot ==
    /\ ~up
    /\ up' = TRUE
    /\ workingMap' = Loaded
    /\ reservation' = [j \in Jobs |-> IF j \in workingMap' THEN Restored(j)
                                        ELSE NoReservation]
    /\ UNCHANGED <<now, store, conn, task, crashes, errs, history>>

\* The two statements of reserve do not straddle the end of the reservation
\* they make, which is at least a minute long.
ReserveIsQuick == \A c \in Conns : conn[c].pc = "stored" => now + 1 < conn[c].val.exp

Tick ==
    /\ now < MaxTime
    /\ ReserveIsQuick
    /\ now' = now + 1
    /\ UNCHANGED <<store, memory, conn, task, faults, history>>

-----------------------------------------------------------------------------
\* A command of a connection, and a step of the task runner.
ConnNext(c) ==
    \/ FetchPop(c)
    \/ \E t \in Timeouts : ReserveStore(c, t)
    \/ ReserveMap(c)
    \/ \E j \in Jobs : AckClear(c, j) \/ FailClear(c, j)
    \/ AckRemove(c)
    \/ FailRemove(c)
    \/ FailStore(c)
    \/ StoreError(c)

TaskStep ==
    \/ TaskScan
    \/ \E e \in task.batch : TaskRemove(e)
    \/ TaskEnqueue
    \/ ReapCheck
    \/ ReapExtend
    \/ ReapClear
    \/ ReapStore
    \/ TaskEnd

Next ==
    \/ \E j \in Jobs, d \in ScheduleDelays \cup {0} : Push(j, d)
    \/ \E j \in Jobs : PushError(j)
    \/ \E c \in Conns : ConnNext(c)
    \/ \E j \in Jobs, x \in Extensions : ExtendReservation(j, x)
    \/ \E n \in TaskNames : TaskStart(n)
    \/ TaskStep
    \/ TaskError
    \/ Crash
    \/ Boot
    \/ Tick

Spec == Init /\ [][Next]_vars

(***************************************************************************)
(* The clock runs, a crashed server is started again, a sweep that has     *)
(* begun goes on, and the task runner, which looks at its tasks every      *)
(* second, keeps starting each of them.  Clients owe the server nothing:   *)
(* there is no fairness on PUSH, FETCH, ACK or FAIL, but a command in      *)
(* progress is carried on by its goroutine.                                *)
(***************************************************************************)
ConnStep(c) ==
    \/ \E t \in Timeouts : ReserveStore(c, t)
    \/ ReserveMap(c)
    \/ AckRemove(c)
    \/ FailRemove(c)
    \/ FailStore(c)

Fairness ==
    /\ WF_vars(Tick)
    /\ WF_vars(Boot)
    /\ WF_vars(TaskStep)
    /\ \A n \in TaskNames : SF_vars(TaskStart(n))
    /\ \A c \in Conns : WF_vars(ConnStep(c))

FairSpec == Spec /\ Fairness
-----------------------------------------------------------------------------
(* Properties *)

TypeOK ==
    /\ now \in Nat
    /\ queue \in Seq(Value)
    /\ zset \in [SetNames -> SUBSET Entry]
    /\ workingMap \subseteq Jobs
    /\ reservation \in [Jobs -> Reservation]
    /\ conn \in [Conns -> [pc : ConnStates, val : Value]]
    /\ task \in [name : TaskNames, pc : TaskStates, when : Nat,
                 batch : SUBSET Entry, count : Nat, hand : Value]
    /\ up \in BOOLEAN
    /\ crashes \in Nat
    /\ errs \in Nat
    /\ fate \in [Jobs -> Fates]
    /\ deliveries \in [Jobs -> Nat]

\* Where a job can be: in its queue, in a sorted set, in the hands of a
\* connection, in the hands of the task runner.
InQueue(j) == \E i \in 1..Len(queue) : queue[i].jid = j
InSet(s, j) == \E e \in zset[s] : e.jid = j
InHand(c, j) == ConnHolds(c) /\ conn[c].val.jid = j
InSweep(j) == TaskHolds /\ task.hand.jid = j

Exists(j) ==
    \/ InQueue(j)
    \/ \E s \in SetNames : InSet(s, j)
    \/ \E c \in Conns : InHand(c, j)
    \/ InSweep(j)

(***************************************************************************)
(* No job is ever in two places, or twice in one: whatever two commands,   *)
(* a sweep and a crash do to it, a job moves and is never copied.  A copy  *)
(* would be executed twice without anybody having failed.                  *)
(***************************************************************************)
OnceInQueue == \A i, k \in 1..Len(queue) : queue[i].jid = queue[k].jid => i = k
OnceInSets == \A s, t \in SetNames : \A e \in zset[s], f \in zset[t] :
                 e.jid = f.jid => s = t /\ e = f
OnceInHands == \A c, d \in Conns : \A j \in Jobs : InHand(c, j) /\ InHand(d, j) => c = d
QueueOnly == \A j \in Jobs : InQueue(j) =>
                /\ \A s \in SetNames : ~InSet(s, j)
                /\ \A c \in Conns : ~InHand(c, j)
                /\ ~InSweep(j)
HandsOnly == \A j \in Jobs : \A c \in Conns : InHand(c, j) =>
                /\ \A s \in SetNames : ~InSet(s, j)
                /\ ~InSweep(j)
SweepOnly == \A j \in Jobs : InSweep(j) => \A s \in SetNames : ~InSet(s, j)

AtMostOneCopy ==
    /\ OnceInQueue
    /\ OnceInSets
    /\ OnceInHands
    /\ QueueOnly
    /\ HandsOnly
    /\ SweepOnly

(***************************************************************************)
(* A job the server accepted is somewhere until it is settled.  The ways   *)
(* to lose one that was not settled by a worker are exactly the four that  *)
(* fate names: the process or Redis fails while the job is only in memory, *)
(* the morgue lets it expire, or the reaper drops a job whose reservation  *)
(* a concurrent command has just cleared.                                  *)
(***************************************************************************)
Accounted == \A j \in Jobs : fate[j] = "live" => Exists(j)

(***************************************************************************)
(* Once ACK has answered OK nothing of the job is left in the server, and  *)
(* so nothing can ever hand it to a worker again: not a sweep that was     *)
(* under way and has to drop what it holds, not a restart.                 *)
(***************************************************************************)
AckedIsGone == \A j \in Jobs : fate[j] = "acked" => ~Exists(j) \/ InSweep(j)

(***************************************************************************)
(* A worker is given a job at most Retry + 1 times, and once when it is    *)
(* not retried, whatever expires, races or crashes in between.             *)
(***************************************************************************)
Budget(j) == IF Retry[j] > 0 THEN Retry[j] + 1 ELSE 1
DeliveryBudget == \A j \in Jobs : deliveries[j] <= Budget(j)

(***************************************************************************)
(* Every reservation in memory can be found again in the working set at    *)
(* the expiry it carries, unless the reaper is just holding it: otherwise  *)
(* ACK and FAIL would not find the entry they are to remove, and a lost    *)
(* worker's job would never be reaped.                                     *)
(***************************************************************************)
ReservationBacked ==
    \A j \in workingMap :
        \/ \E e \in zset["working"] : e.jid = j /\ e.score = reservation[j].exp
        \/ InSweep(j) /\ task.pc # "enqueue"

(***************************************************************************)
(* The converse: an entry of the working set has its reservation in memory *)
(* unless a command that is still running has taken or not yet put it      *)
(* there.  The reaper drops the job of an entry without one.               *)
(***************************************************************************)
NoOrphanEntry ==
    up => \A e \in zset["working"] :
        \/ e.jid \in workingMap
        \/ \E c \in Conns : /\ conn[c].val.jid = e.jid
                             /\ conn[c].pc \in {"stored", "ackrem", "failrem"}

(***************************************************************************)
(* Memory and store hold the same reservations, in both directions, also   *)
(* when the map is rebuilt after a restart in the middle of a command.     *)
(***************************************************************************)
ReservationsAgree == ReservationBacked /\ NoOrphanEntry

(***************************************************************************)
(* README.md and docs/protocol-specification.md: a job that fails or       *)
(* expires is retried.  Stated: with no crash and no Redis error, no job   *)
(* is ever dropped.                                                        *)
(***************************************************************************)
NeverDropped == \A j \in Jobs : fate[j] # "raced"

(***************************************************************************)
(* A reservation is only ever installed for a jid that no command and no   *)
(* reaper is still working on: the pointers they hold to the old one are   *)
(* never mixed up with the new one.                                        *)
(***************************************************************************)
FreshReservation ==
    [][\A c \in Conns : ReserveMap(c) =>
          LET j == conn[c].val.jid IN
          /\ j \notin workingMap
          /\ \A d \in Conns \ {c} : conn[d].pc # "idle" => conn[d].val.jid # j
          /\ ~InSweep(j)]_vars

(***************************************************************************)
(* Time alone takes a job from its worker, and not before the deadline the *)
(* reservation in memory carries: when the reaper clears a reservation the *)
(* sweep began after its expiry, however the entry it read from the set,   *)
(* an extension or a restart came in between.                              *)
(***************************************************************************)
ReapOnlyExpired ==
    [][\A j \in workingMap \ workingMap' :
          ReapClear => reservation[j].exp <= task.when /\ task.when <= now]_vars

(***************************************************************************)
(* A worker that vanished does not keep its job: when a reservation has    *)
(* expired the job is retried or buried, unless it is settled in some      *)
(* other way.                                                              *)
(***************************************************************************)
Expired(j) == \E e \in zset["working"] : e.jid = j /\ e.score <= now
ExpiredIsReaped ==
    \A j \in Jobs : Expired(j) ~> InSet("retries", j) \/ InSet("dead", j) \/ fate[j] # "live"

(***************************************************************************)
(* A scheduled job or a retry that is due reaches its queue, whatever else *)
(* is due at the same time and however small the batches are.              *)
(***************************************************************************)
Overdue(j) == \E s \in {"scheduled", "retries"} :
                \E e \in zset[s] : e.jid = j /\ e.score <= now
DueIsEnqueued == \A j \in Jobs : Overdue(j) ~> InQueue(j) \/ fate[j] # "live"

=============================================================================
