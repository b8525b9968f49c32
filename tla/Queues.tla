-------------------------------- MODULE Queues --------------------------------
(***************************************************************************)
(* The queues of the store and what pausing one does: redisQueue, GetQueue *)
(* and FLUSH of package storage, Pause, Resume and Fetch of package        *)
(* manager, the QUEUE command and the Web UI's queue page.                 *)
(*                                                                         *)
(* Redis keeps the lists, the names of the queues and the names of the     *)
(* paused ones; the process keeps a copy of both sets of names.  One step  *)
(* is one Redis command or one access to a copy.  FETCH ends here with     *)
(* BRPOP: what becomes of the job is in Manager.                           *)
(***************************************************************************)
EXTENDS Naturals, Sequences, FiniteSets

CONSTANTS
    Names,       \* names of queues
    Jobs,        \* jobs, each pushed once
    Producers,   \* connections that push
    Workers,     \* connections that fetch
    Operators,   \* connections and Web UI requests that administer queues
    Orders,      \* the lists of queues a FETCH may name
    Ops,         \* what operators do: a subset of AllOps
    MaxOps,      \* bound on their commands
    MaxErrs,     \* bound on the Redis commands that return an error
    MaxCrashes   \* bound on the crashes of the server process

AllOps == {"pause", "resume", "clear", "delete", "look", "flush"}
None == "none"

ASSUME QueuesAssumption ==
    /\ Orders \subseteq Seq(Names) \ {<< >>}
    /\ Ops \subseteq AllOps
    /\ MaxOps \in Nat
    /\ MaxErrs \in Nat
    /\ MaxCrashes \in Nat
    /\ None \notin Names \cup Producers \cup Operators

VARIABLES
    list,       \* Redis lists: the oldest job first
    names,      \* Redis set "queues"
    pausedSet,  \* Redis set "paused"
    queueSet,   \* redisStore.queueSet: the queues the process knows
    paused,     \* manager.paused: the queues Fetch leaves out
    mu,         \* the holder of redisStore.mu
    proc,       \* per producer and operator: the command in progress
    asks,       \* per worker: the queues its BRPOP waits for, with their places
    up,         \* is the server process running?
    ops,        \* operators' commands so far
    errs,       \* failed Redis commands so far
    crashes,    \* crashes so far
    pushed,     \* history: the jobs that were pushed
    held,       \* history: queues whose Pause is done and no Resume began
    cleared,    \* history: queues that Clear has begun with, or FLUSH
    flushed     \* history: was the database flushed since the last boot?

redis == <<list, names, pausedSet>>
memory == <<queueSet, paused, mu>>
bounds == <<ops, errs, crashes>>
vars == <<list, names, pausedSet, queueSet, paused, mu, proc, asks, up,
          ops, errs, crashes, pushed, held, cleared, flushed>>
history == <<pushed, held, cleared, flushed>>

Procs == Producers \cup Operators
PcStates == {"idle", "next", "get", "insert", "push", "mark", "read", "write",
             "unlink", "srem", "unmap", "delete"}

\* The operation, the queue it is at, the queues it has still to visit, whether
\* those are "*", the job it pushes or deletes and the copy of m.paused it read.
IdleProc == [pc |-> "idle", op |-> "look", q |-> None, todo |-> {}, star |-> FALSE,
             job |-> {}, copy |-> {}]

Init ==
    /\ list = [q \in Names |-> << >>]
    /\ names = {}
    /\ pausedSet = {}
    /\ queueSet = {}
    /\ paused = {}
    /\ mu = None
    /\ proc = [p \in Procs |-> IdleProc]
    /\ asks = [w \in Workers |-> {}]
    /\ up = TRUE
    /\ ops = 0
    /\ errs = 0
    /\ crashes = 0
    /\ pushed = {}
    /\ held = {}
    /\ cleared = {}
    /\ flushed = FALSE

Goto(p, s) == proc' = [proc EXCEPT ![p].pc = s]

\* A command is done with its queue: QUEUE goes on with the next one.
Done(p) == proc' = [proc EXCEPT ![p] =
                      IF @.op \in {"pause", "resume"} THEN [@ EXCEPT !.pc = "next", !.copy = {}]
                      ELSE IdleProc]

-----------------------------------------------------------------------------
(* GetQueue *)

\* What a command does once it has its queue.
AfterGet(op) == CASE op = "push" -> "push"
                  [] op \in {"pause", "resume"} -> "mark"
                  [] op = "clear" -> "unlink"
                  [] op = "delete" -> "delete"
                  [] op = "look" -> "idle"

\* The process forgets what a command was about when it is idle again.
Proceed(p) == LET next == AfterGet(proc[p].op) IN
    proc' = [proc EXCEPT ![p] = IF next = "idle" THEN IdleProc ELSE [@ EXCEPT !.pc = next]]

\* Fault: the name of a new queue is not stored.
GetQueueUnnamed(p) ==
    LET q == proc[p].q IN
    /\ up
    /\ proc[p].pc = "get"
    /\ mu = None
    /\ \/ /\ q \in queueSet
          /\ Proceed(p)
          /\ UNCHANGED mu
       \/ /\ q \notin queueSet
          /\ mu' = p
          /\ Goto(p, "insert")
    /\ UNCHANGED <<redis, queueSet, paused, asks, up, bounds, history>>

\* Under the lock: a queue that is known is returned, the name of a new one is
\* stored ...
GetQueue(p) ==
    LET q == proc[p].q IN
    /\ up
    /\ proc[p].pc = "get"
    /\ mu = None
    /\ \/ /\ q \in queueSet
          /\ Proceed(p)
          /\ UNCHANGED <<names, mu>>
       \/ /\ q \notin queueSet
          /\ mu' = p
          /\ names' = names \cup {q}
          /\ Goto(p, "insert")
    /\ UNCHANGED <<list, pausedSet, queueSet, paused, asks, up, bounds, history>>

\* ... and then put into the map.
Insert(p) ==
    /\ up
    /\ proc[p].pc = "insert"
    /\ queueSet' = queueSet \cup {proc[p].q}
    /\ mu' = None
    /\ Proceed(p)
    /\ UNCHANGED <<redis, paused, asks, up, bounds, history>>

-----------------------------------------------------------------------------
(* PUSH *)

BeginPush(p, j, q) ==
    /\ up
    /\ proc[p].pc = "idle"
    /\ j \notin pushed
    /\ pushed' = pushed \cup {j}
    /\ proc' = [proc EXCEPT ![p] = [IdleProc EXCEPT !.pc = "get", !.op = "push",
                                                    !.q = q, !.job = {j}]]
    /\ UNCHANGED <<redis, memory, asks, up, bounds, held, cleared, flushed>>

\* LPUSH
Push(p) ==
    /\ up
    /\ proc[p].pc = "push"
    /\ \E j \in proc[p].job : list' = [list EXCEPT ![proc[p].q] = Append(@, j)]
    /\ Done(p)
    /\ UNCHANGED <<names, pausedSet, memory, asks, up, bounds, history>>

-----------------------------------------------------------------------------
(* FETCH *)

\* The queues that are not in m.paused, each with the place it was named at.
filter(qs) == {<<i, qs[i]>> : i \in {k \in 1..Len(qs) : qs[k] \notin paused}}

\* Fetch filters its queues once; when none is left it answers nil.
Fetch(w, qs) ==
    /\ up
    /\ asks[w] = {}
    /\ filter(qs) # {}
    /\ asks' = [asks EXCEPT ![w] = filter(qs)]
    /\ UNCHANGED <<redis, memory, proc, up, bounds, history>>

\* BRPOP takes from the first of its queues that has a job, also from one that
\* was paused while it was waiting.
brpop(w) ==
    /\ up
    /\ \E a \in asks[w] :
         /\ list[a[2]] # << >>
         /\ \A b \in asks[w] : b[1] < a[1] => list[b[2]] = << >>
         /\ list' = [list EXCEPT ![a[2]] = Tail(@)]
    /\ asks' = [asks EXCEPT ![w] = {}]
    /\ UNCHANGED <<names, pausedSet, memory, proc, up, bounds, history>>

\* Two seconds without a job.
brpopTimeout(w) ==
    /\ up
    /\ asks[w] # {}
    /\ \A a \in asks[w] : list[a[2]] = << >>
    /\ asks' = [asks EXCEPT ![w] = {}]
    /\ UNCHANGED <<redis, memory, proc, up, bounds, history>>

-----------------------------------------------------------------------------
(* QUEUE PAUSE, QUEUE RESUME and the Web UI *)

Operate(p, op) ==
    /\ up
    /\ proc[p].pc = "idle"
    /\ op \in Ops
    /\ ops < MaxOps
    /\ ops' = ops + 1

\* QUEUE names queues, or "*": then EachQueue calls Pause or Resume for those
\* in the map.
BeginQueue(p, op, T, star) ==
    /\ Operate(p, op)
    /\ op \in {"pause", "resume"}
    /\ T # {}
    /\ star => T = queueSet
    /\ proc' = [proc EXCEPT ![p] = [IdleProc EXCEPT !.pc = "next", !.op = op,
                                                    !.todo = T, !.star = star]]
    /\ UNCHANGED <<redis, memory, asks, up, errs, crashes, history>>

\* The next queue of the command; "*" passes over those that were deleted.
NextQueue(p) ==
    LET T == IF proc[p].star THEN proc[p].todo \cap queueSet ELSE proc[p].todo IN
    /\ up
    /\ proc[p].pc = "next"
    /\ \/ \E q \in T :
            /\ proc' = [proc EXCEPT ![p].pc = "get", ![p].q = q, ![p].todo = @ \ {q}]
            /\ held' = IF proc[p].op = "resume" THEN held \ {q} ELSE held
       \/ /\ T = {}
          /\ proc' = [proc EXCEPT ![p] = IdleProc]
          /\ UNCHANGED held
    /\ UNCHANGED <<redis, memory, asks, up, bounds, pushed, cleared, flushed>>

\* SADD paused or SREM paused.
Mark(p) ==
    LET q == proc[p].q IN
    /\ up
    /\ proc[p].pc = "mark"
    /\ pausedSet' = IF proc[p].op = "pause" THEN pausedSet \cup {q} ELSE pausedSet \ {q}
    /\ Goto(p, "read")
    /\ UNCHANGED <<list, names, memory, asks, up, bounds, history>>

\* m.paused is read by filter ...
ReadPaused(p) ==
    /\ up
    /\ proc[p].pc = "read"
    /\ proc' = [proc EXCEPT ![p].pc = "write", ![p].copy = paused]
    /\ UNCHANGED <<redis, memory, asks, up, bounds, history>>

\* Fault: Resume leaves m.paused alone.
UpdatedKeeps(p) == proc[p].copy \cup {proc[p].q}

\* What Pause or Resume makes of the copy it read.
Updated(p) == IF proc[p].op = "pause" THEN proc[p].copy \cup {proc[p].q}
              ELSE proc[p].copy \ {proc[p].q}

\* ... and assigned, without a lock in between.  Nothing is promised for a
\* queue that another command is about to resume.
WritePaused(p) ==
    LET q == proc[p].q
        resuming == \E o \in Procs : proc[o].op = "resume" /\ proc[o].q = q
    IN
    /\ up
    /\ proc[p].pc = "write"
    /\ paused' = Updated(p)
    /\ held' = IF proc[p].op = "pause" /\ ~resuming THEN held \cup {q} ELSE held
    /\ proc' = [proc EXCEPT ![p] = [@ EXCEPT !.pc = "next", !.copy = {}, !.q = None]]
    /\ UNCHANGED <<redis, queueSet, mu, asks, up, bounds, pushed, cleared, flushed>>

\* A request on the page of one queue: even looking at a page creates its queue.
BeginPage(p, op, q) ==
    /\ Operate(p, op)
    /\ op \in {"clear", "look"}
    /\ proc' = [proc EXCEPT ![p] = [IdleProc EXCEPT !.pc = "get", !.op = op, !.q = q]]
    /\ cleared' = IF op = "clear" THEN cleared \cup {q} ELSE cleared
    /\ UNCHANGED <<redis, memory, asks, up, errs, crashes, pushed, held, flushed>>

\* "delete" of jobs that were on the page.
BeginDelete(p, q, T) ==
    /\ Operate(p, "delete")
    /\ T # {}
    /\ T \subseteq {list[q][i] : i \in 1..Len(list[q])}
    /\ proc' = [proc EXCEPT ![p] = [IdleProc EXCEPT !.pc = "get", !.op = "delete",
                                                    !.q = q, !.job = T]]
    /\ UNCHANGED <<redis, memory, asks, up, errs, crashes, history>>

\* LREM of one value; a worker may have fetched it in the meantime.
Lrem(q, j) ==
    \/ \E i \in 1..Len(list[q]) :
         /\ list[q][i] = j
         /\ list' = [list EXCEPT ![q] = SubSeq(@, 1, i - 1) \o SubSeq(@, i + 1, Len(@))]
    \/ /\ \A i \in 1..Len(list[q]) : list[q][i] # j
       /\ UNCHANGED list

\* Value by value.
Delete(p) ==
    LET q == proc[p].q IN
    /\ up
    /\ proc[p].pc = "delete"
    /\ \E j \in proc[p].job :
         /\ Lrem(q, j)
         /\ proc' = [proc EXCEPT ![p] = IF @.job = {j} THEN IdleProc
                                        ELSE [@ EXCEPT !.job = proc[p].job \ {j}]]
    /\ UNCHANGED <<names, pausedSet, memory, asks, up, bounds, history>>

\* Clear: UNLINK, SREM queues and, without the lock, the deletion from the map.
Unlink(p) ==
    /\ up
    /\ proc[p].pc = "unlink"
    /\ list' = [list EXCEPT ![proc[p].q] = << >>]
    /\ Goto(p, "srem")
    /\ UNCHANGED <<names, pausedSet, memory, asks, up, bounds, history>>

Srem(p) ==
    /\ up
    /\ proc[p].pc = "srem"
    /\ names' = names \ {proc[p].q}
    /\ Goto(p, "unmap")
    /\ UNCHANGED <<list, pausedSet, memory, asks, up, bounds, history>>

Unmap(p) ==
    /\ up
    /\ proc[p].pc = "unmap"
    /\ queueSet' = queueSet \ {proc[p].q}
    /\ Done(p)
    /\ UNCHANGED <<redis, paused, mu, asks, up, bounds, history>>

\* FLUSH empties the database; the process keeps its copies.
Flush(p) ==
    /\ Operate(p, "flush")
    /\ list' = [q \in Names |-> << >>]
    /\ names' = {}
    /\ pausedSet' = {}
    /\ held' = {}
    /\ cleared' = Names
    /\ flushed' = TRUE
    /\ UNCHANGED <<memory, proc, asks, up, errs, crashes, pushed>>

-----------------------------------------------------------------------------
(* Failures *)

\* An error of SADD or SREM ends GetQueue, Pause or Resume, and QUEUE goes on
\* with the next name; Delete stops; LPUSH's, UNLINK's and Clear's errors are
\* not looked at.
RedisError(p) ==
    LET q == proc[p].q IN
    /\ up
    /\ errs < MaxErrs
    /\ errs' = errs + 1
    /\ \/ /\ proc[p].pc = "get" /\ mu = None /\ q \notin queueSet
          /\ Done(p)
       \/ /\ proc[p].pc \in {"mark", "push"}
          /\ Done(p)
       \/ /\ proc[p].pc = "delete"
          /\ proc' = [proc EXCEPT ![p] = IdleProc]
       \/ /\ proc[p].pc = "unlink"
          /\ Goto(p, "srem")
       \/ /\ proc[p].pc = "srem"
          /\ Goto(p, "unmap")
    /\ UNCHANGED <<redis, memory, asks, up, ops, crashes, history>>

Crash ==
    /\ up
    /\ crashes < MaxCrashes
    /\ crashes' = crashes + 1
    /\ up' = FALSE
    /\ queueSet' = {}
    /\ paused' = {}
    /\ mu' = None
    /\ proc' = [p \in Procs |-> IdleProc]
    /\ asks' = [w \in Workers |-> {}]
    /\ UNCHANGED <<redis, ops, errs, history>>

\* Fault: the paused queues are not read again.
LoadPausedNone == {}

\* NewRedisStore reads the queues' names, newManager the paused ones.
LoadQueues == names
LoadPaused == pausedSet

Boot ==
    /\ ~up
    /\ up' = TRUE
    /\ queueSet' = LoadQueues
    /\ paused' = LoadPaused
    /\ flushed' = FALSE
    /\ UNCHANGED <<redis, mu, proc, asks, bounds, pushed, held, cleared>>

-----------------------------------------------------------------------------
\* A step of a command in progress.
Step(p) ==
    \/ GetQueue(p)
    \/ Insert(p)
    \/ Push(p)
    \/ NextQueue(p)
    \/ Mark(p)
    \/ ReadPaused(p)
    \/ WritePaused(p)
    \/ Delete(p)
    \/ Unlink(p)
    \/ Srem(p)
    \/ Unmap(p)

Next ==
    \/ \E p \in Producers, j \in Jobs, q \in Names : BeginPush(p, j, q)
    \/ \E p \in Procs : Step(p) \/ RedisError(p)
    \/ \E w \in Workers : brpop(w) \/ brpopTimeout(w)
    \/ \E w \in Workers, qs \in Orders : Fetch(w, qs)
    \/ \E p \in Operators :
         \/ \E op \in Ops, T \in SUBSET Names, star \in BOOLEAN : BeginQueue(p, op, T, star)
         \/ \E op \in Ops, q \in Names : BeginPage(p, op, q)
         \/ \E q \in Names, T \in SUBSET Jobs : BeginDelete(p, q, T)
         \/ Flush(p)
    \/ Crash
    \/ Boot

Spec == Init /\ [][Next]_vars

\* Goroutines run on, a crashed server is started again, and workers keep
\* asking for each of their lists of queues.
Fairness ==
    /\ \A p \in Procs : SF_vars(Step(p))
    /\ \A w \in Workers : /\ WF_vars(brpop(w))
                          /\ WF_vars(brpopTimeout(w))
                          /\ \A qs \in Orders : SF_vars(Fetch(w, qs))
    /\ WF_vars(Boot)

FairSpec == Spec /\ Fairness

-----------------------------------------------------------------------------
(* Properties *)

TypeOK ==
    /\ list \in [Names -> Seq(Jobs)]
    /\ names \subseteq Names
    /\ pausedSet \subseteq Names
    /\ queueSet \subseteq Names
    /\ paused \subseteq Names
    /\ mu \in Procs \cup {None}
    /\ proc \in [Procs -> [pc : PcStates, op : AllOps \cup {"push"}, q : Names \cup {None},
                           todo : SUBSET Names, star : BOOLEAN, job : SUBSET Jobs,
                           copy : SUBSET Names]]
    /\ asks \in [Workers -> SUBSET (Nat \X Names)]
    /\ up \in BOOLEAN
    /\ {ops, errs, crashes} \subseteq Nat
    /\ pushed \subseteq Jobs
    /\ held \subseteq Names
    /\ cleared \subseteq Names
    /\ flushed \in BOOLEAN

(***************************************************************************)
(* manager_test.go (FetchWithPause) and client.go ("pause all known        *)
(* queues"): once PAUSE is done, and until a RESUME, no FETCH that begins  *)
(* asks for the queue, whatever other queues are paused and resumed and    *)
(* however often the server is restarted.                                  *)
(***************************************************************************)
PausedIsNotAsked ==
    [][\A w \in Workers, qs \in Orders : Fetch(w, qs) =>
          \A a \in asks'[w] : a[2] \notin held]_vars

(***************************************************************************)
(* What the Web UI shows is what FETCH does: between two commands of the   *)
(* operators the process leaves out exactly the queues that are paused in  *)
(* the store.  FLUSH is the exception: it leaves m.paused as it was until  *)
(* the next restart.  (With the types of the state.)                       *)
(***************************************************************************)
Quiet == up /\ \A p \in Operators : proc[p].pc = "idle"
MemoryAgrees == TypeOK /\ (Quiet /\ ~flushed => paused = pausedSet)

(***************************************************************************)
(* A queue that holds jobs is one the server knows and will know after a   *)
(* restart: it is on the Web UI's page, in the totals of INFO, and meant   *)
(* by QUEUE PAUSE *.  A PUSH that overlaps Clear or FLUSH may leave jobs   *)
(* in a queue whose name is gone; for other queues no sequence of          *)
(* commands, errors and restarts does.                                     *)
(***************************************************************************)
Registered ==
    \A q \in Names \ cleared : list[q] # << >> => q \in names /\ (up => q \in queueSet)

(***************************************************************************)
(* A job in a queue that nobody shows as paused is given to a worker that  *)
(* keeps asking: a Resume reaches the workers, also through a restart.     *)
(* FLUSH is again the exception: it resumes what only memory knows of.     *)
(***************************************************************************)
Waiting(q, j) == /\ q \notin pausedSet
                 /\ ~flushed
                 /\ \E i \in 1..Len(list[q]) : list[q][i] = j
ShownIsServed == \A q \in Names, j \in Jobs : Waiting(q, j) ~> ~Waiting(q, j)

=============================================================================
