# A TLA+ model of Faktory

Faktory is a job server: producers PUSH jobs, workers FETCH them and answer
with ACK or FAIL, and the server keeps everything in a Redis process of its
own. This directory models the parts of it in which something can go wrong
between two steps, checks them with TLC on small instances, and proves with
TLAPS, for instances of any size, that the job manager implements its state
diagram and that the safety properties of the passing runs hold (all but one).

`PROJECT.json` lists the components, the runs, the mutants that show that each
property can fail, the source lines of every definition, the disagreements
between code and documentation that were found, the hazards, and the theorems.

## 1. The system

| component | state | operations | talks to |
|---|---|---|---|
| Job manager (`manager/`) | `workingMap` of reservations (memory); queue lists and the sorted sets scheduled, retries, dead, working (Redis) | Push, Fetch and reserve, Acknowledge, Fail, ExtendReservation, EnqueueScheduledJobs, RetryJobs, Purge, ReapExpiredJobs, loadWorkingSet | called by every connection's goroutine and by the task runner; the store |
| Sorted sets (`storage/sorted_redis.go`) | one Redis sorted set each | AddElement, RemoveElement, Remove, Get, RemoveBefore, MoveTo, Each, Find, Clear | the manager, MUTATE, the Web UI |
| Queues (`storage/queue_redis.go`, `storage/redis.go`) | Redis lists, the sets `queues` and `paused`; copies in `queueSet` and `m.paused` | GetQueue, Push, BRPOP, Pause, Resume, Clear, Delete, FLUSH | the manager, QUEUE, the Web UI |
| Worker registry (`server/workers.go`) | `heartbeats`: wid to ClientData with state, last beat and connections | setupHeartbeat, heartbeat, Signal, RemoveConnection, reapHeartbeats | HELLO, BEAT, FETCH, END, the Busy page, the task runner |
| Task runner (`server/task_runner.go`) | its tasks, a ticker | AddTask, Run, cycle | the manager's sweeps, the beat reaper |
| Operator requests (`server/mutate.go`, `webui/helpers.go`) | none | kill, requeue, discard, clear; delete, retry, kill of keys or of all | sorted sets and queues |
| Client pool (`internal/pool`, `client/pool.go`) | a channel of idle connections | Get, Put, Close, MarkUnusable | the client's commands |
| Server life cycle (`server/server.go`, `cli/`, `cmd/faktory`) | listener, stopper channel, `closed`, the channel of signals, the Web UI's server | Boot, Run, Stop, exit, reload | all of the above |
| Dashboard (`webui/static/dashboard.js`) | the globals `Faktory` and `poller`, a graph and a timer per `realtimeGraph`, `localStorage` | renderGraphs, resetGraphs, the callback of getJSON, the handlers of the slider and of resizes | `/stats`, which reads the counters that ACK and FAIL increment |

What is hard in it:

- every connection has a goroutine, and so has the task runner and each request
  of the Web UI. They meet in Redis, which runs one command at a time, and in a
  few maps with locks. An operation of the manager is several Redis commands
  and critical sections, without transactions;
- a job moves by being removed from one structure and added to another. Between
  the two it is in memory only, and a crash or a Redis error loses it;
- a reservation is held twice, in memory and in the working set, and extended in
  memory only;
- entries of sorted sets are found by their score, and jobs that a client scheduled for
  the same time share one;
- operators act on pages that were rendered some time ago;
- the dashboard's callbacks share globals with graphs that were replaced, and the
  answers they wait for come in any order or not at all;
- main, the signal handler, Run and the task runner meet in one channel that may be
  closed once.

What makes each component correct: a job is in one place at a time, is never
lost for a reason that is not known, is not executed after ACK
and not more often than its retries allow (manager); a request touches only what
it names, and doubles or loses nothing (operators; what becomes of this with errors and
shared scores is in section 3); a paused queue is left
alone and a resumed one is served (queues); a worker in the registry has connections,
one that is gone leaves it, and a worker that was quieted does not run again (workers;
the registry does not know of every connection, see section 3); a connection has
one owner and a broken one is not lent again (pool); the server goes down in
order when it is told to, and otherwise only for a known cause (life cycle); tasks run when they are due
(task runner); every job is drawn once and the figures are true in the end
(dashboard).

## 2. The modules

| module | models | actions are |
|---|---|---|
| `SortedSet` | the Redis sorted set commands as operators on sets of entries | - |
| `Manager` | package manager, with restarts and Redis errors | one Redis command or one critical section of `workingMutex` |
| `JobLifecycle` | the abstract specification: the state diagram of `docs/protocol-specification.md` with the retry limit | one arrow of the diagram, or a fault |
| `ManagerRefinement` | the refinement mapping from `Manager` to `JobLifecycle` | - |
| `ManagerProofs` | theorems about `Manager`, in three parts: copies; reservations, deliveries and ACK; the refinement of `JobLifecycle` | - |
| `Workers` | the registry with HELLO, BEAT, FETCH's check, END, the reaper, the Busy page | one critical section of `workers.mu` or one unlocked access |
| `Queues` | queues, pausing, FLUSH, the queue page | one Redis command or one access to a copy |
| `Admin` | MUTATE and the Web UI's actions on sorted sets | one Redis command |
| `ChannelPool` | the client's pool | one critical section of the pool's lock, one channel operation, one call of the factory |
| `TaskRunner` | when tasks run: seconds, ticker, cycles | one task of a cycle, one event of the clock |
| `Lifecycle` | the server process; extends `TaskRunner` | one statement of main, Run or HandleSignals that others can see |
| `Dashboard` | the polling page and the counters it asks for | one callback or event of the page, one Redis command |
| `Charts` | what the page draws | one callback or event of the page |
| `QueuesProofs`, `WorkersProofs`, `AdminProofs`, `ChannelPoolProofs`, `LifecycleProofs`, `DashboardProofs`, `ChartsProofs` | theorems about the module of that name (`LifecycleProofs`: about `TaskRunner` too) | - |
| `MC...` | instances for TLC | - |

`Manager` and `Admin` extend `SortedSet`. `Manager`, `Queues` and `Admin` share the
queue and the sets at different grain: `Manager` has one queue and FETCH, ACK
and FAIL in full; `Queues` has several queues and ends with BRPOP; `Admin` has a
worker's whole run as one step. Definitions whose comment begins with
"Fault:" are deliberately wrong variants of the definition that follows them; no specification uses them.

**Manager.** `zset` is the four sorted sets, `queue` the list, `workingMap` and
`reservation` the map of reservations. A job is a record of its jid, its number
of failures (0 is no `Failure` record, n is `RetryCount` n - 1) and, in the working
set, the `expires_at` of its JSON; an entry adds the score. `conn[c]` says where a
connection is in its command: `popped` (BRPOP done), `stored` (reservation in
Redis), `ackrem`, `failrem` (reservation cleared, entry not yet removed), `failadd`
(entry removed, not yet in retries or dead). `task` is the task runner in one
of its four sweeps: `scan` reads a batch, `next` removes members one by one,
`enqueue`, `check`, `extend`, `clear` and `store` are the steps of the callback.
`fate` and `deliveries` are history. Each jid is pushed once: Faktory does not
look for duplicates, and two jobs with one jid are outside of what it promises.
The model keeps the reservation a command has cleared in `reservation`, since
the command holds a pointer to it. Two assumptions: `reserve` does not take
longer than the reservation it makes lasts (a minute at least), and, unless
`SharedScores` is set, two jobs do not have the same float64 score.

**Workers.** A `ClientData` is named by the connection whose HELLO made it;
`heartbeats` maps a wid to that name. Connections are used once. What FETCH does
with jobs is left out, what it tests is kept. A request of the Busy page (`ui`) tests and
assigns a state in two steps without the lock; there are as many of them as `UiRequests`,
and they overlap each other and BEATs, which may carry a state of their own (`BeatStates`).

**Queues.** `held` is history: the queues whose Pause is done and for which no
Resume has begun; `cleared` and `flushed` mark what Clear and FLUSH have touched. The
operator's command goes through GetQueue (which stores the
name of a new queue), the Redis set, the reading and the writing of `m.paused`. `asks`
holds the queues a BRPOP waits for with the places they were named at, since BRPOP
looks at them in that order.

**Admin.** A request has the keys or entries still to do; those of the Web UI may
be out of date when it gets to them. A member of a set is the JSON of a job: its jid, the
number of its failures and the `next_at` of its retry, so that the retries of two copies
of a job are two members. A job's first score is a parameter, since it is the client's
`at`: jobs may share one, and so do those that one kill of several keys on the Web UI
buries. Other scores are times of their own. `mixed` is history: the jobs Remove took in
place of another of their score, and these others. Any Redis command may fail: `Push`
ignores it (`AddFails`, `SweepFails`, `RequeueFails`), all other callers return the error, which
ends the request (`Stop`). `lost` is history: the jobs that were between two structures when the
second command failed or the process died. `Fault` bounds errors and crashes together. A
filter is reduced to the jobs each criterion stands for. The scheduler may find any entry due.

**ChannelPool.** `conns` is what the channel buffers; `shut`, `over` and
`factory` tell apart the three things Close does at different moments. `broken` are
connections that do not work any more, `seen` those on which a command noticed.

**JobLifecycle.** `state` is a job's place in the diagram, `tries` the failures recorded
in it. In `ManagerRefinement` a job that a command or a sweep carries is where it came
from until the step that stores it: the steps of `Manager` map to one arrow or to
none, a crash or a Redis error to `Fault`, which is the only step that loses a job
that no worker holds. The diagram draws an arrow from WORKING to ENQUEUED for an
expired reservation, while its text says RETRIES; the code does what the text says.

**TaskRunner.** The clock counts seconds; in each the ticker fires once, into a channel
of one. A task may take any time. A runner that waits gets its tick before the second
ends. The jitter before the first cycle is always zero (`time.Duration(rand.Float64())`
is 0), so the first cycle begins at once. `ran` and `longest` are history.

**Lifecycle.** `main` goes from `boot` through `wait` (for the stopper) and `stop` to
`defer` (Redis is told to stop) and `done`. `signals` is the channel of HandleSignals,
`handler` the signal it is working on. `web` is the Web UI as reload sees it: not
started, switched off (no closer), or on. The task runner's steps are those of
`TaskRunner`, with the stopper as the other case of its select. `RedisDies`, `CommandPanics` and
`HeartbeatsRace` are what other goroutines may bring about at any moment: Redis ends with an
error and the goroutine that waits for it panics (`RedisWait`); a command comes without the
argument its handler cuts off the line (`cmd[5:]`, `qs[1]`); the Web UI ranges over the map of
heartbeats, without its lock, while a connection writes it. `thrown` is history.

**Dashboard.** The page is one record and the functions of the script are operators
from page to page, named as in the script; a handler applies them in the order of
its statements. `timers` are the intervals that are set, `shown` the graphs in
`#realtime`, `poller` the global; a request remembers the graph it was sent for and is
answered in two reads of the counters. A fresh page gets its summary from `summary.ego`,
which reads the counters too (`SummaryRead`, in the phases before the script runs). Redis errors
are as `history.go` treats them: an INCR that fails is not noticed, a read that fails is 0.
FLUSH may come at any moment. `counted`, `early` and `settled` are history, and so are
`drifted` (a failure is counted, or will be, whose job is not) and `torn` (an answer whose
reads do not belong together). Time is left out: a timer that is set may fire at any moment.

**Charts.** Each realtime graph is its window of points and the point under the
pointer; a point may be added to any graph, also to a replaced one. `added` is
history, `answers` bounds the run. `FixedDuration` and `addData` are Rickshaw's, which the script
includes. For the history graph only dates matter: hours are counted in a local calendar with
one day that is an hour longer or shorter (`DayStart`, `Date`), `History` is the set of dates that its
24-hour steps hit (the attributes are JSON objects, so a date is there once), and the page is
rendered with one call for each series, between which an hour may end. `historyGraph` is `Blank` when
the series differ in length: Rickshaw refuses to stack them and throws. `HoverIndex` is how its
HoverDetail finds a point in each series, by the x of that series.

## 3. The runs

Passing runs:

| run | instance | shows |
|---|---|---|
| `manager_core` | 2 jobs (one retried once, one never), 2 connections, batch size 1, time to 3, 1 crash | `AtMostOneCopy`, `Accounted`, `AckedIsGone`, `DeliveryBudget`, `ReservationsAgree`, `FreshReservation`, `FollowsDiagram` (it implements `JobLifecycle`) |
| `manager_faults` | 1 job, 2 connections, time to 4, 1 crash, 1 Redis error, extensions | `ReapOnlyExpired`, `FollowsDiagram` |
| `manager_live` | 2 jobs, 1 connection, 1 crash | `ExpiredIsReaped`, `DueIsEnqueued` |
| `workers_registry` | 1 process with 2 connections, BEATs without a state, with quiet and with terminate, 2 overlapping requests of the Busy page with both signals, time to 2 | `KnownIsConnected`, `ForgottenForCause`, `NeverUnquiet`, `GoneIsForgotten` |
| `pool_race` | 3 goroutines, 3 sockets, capacity 2, 1 initial connection | `OneOwner`, `BrokenIsNotReused`, `SendIsSafe`, `ClosedIsDrained` |
| `admin_moves` | 2 jobs scheduled for the same time, 2 requests of any of the nine kinds with up to 2 keys, 1 crash or Redis error | `NoCopies`, `NoLoss`, `OnlyNamed` |
| `queues_pause` | 2 queues, 1 job, 1 operator with 2 commands of any kind, 1 error, 1 crash | `MemoryAgrees`, `Registered`, `PausedIsNotAsked`, `ShownIsServed` |
| `server_down` | a task of period 2 and one of period 3 that is added, time to 3, 2 signals of any kind, crashes of Redis, commands that panic | `AtMostTwice`, `Punctual`, `DownInOrder`, `PanicHasCause`, `StopsWhenTold` |
| `dashboard_polling` | 2 requests in flight, 2 events of the user, 2 intervals, 1 job, 1 fault (a lost request, a Redis error or a FLUSH) | `DrawnOnce`, `OnePoller`, `LabelHonest`, `FailedWithinProcessed`, `CatchesUp` |
| `charts_drawing` | 2 graphs with a window of 3 points, 3 answers, 3 days of 3 hours of history in calendars with a long, a short or no odd day, rendered at every hour around it | `WindowIsLatest`, `LegendCurrent`, `HistoryHonest` |

The types are checked too: as `TypeOK` in `manager_core`, in the other modules as the
first conjunct of one invariant (`KnownIsConnected`, `OneOwner`, `NoCopies`, `MemoryAgrees`,
`DownInOrder`, `OnePoller`, `WindowIsLatest`). `AtMostOneCopy` and `Accounted` are not
repeated in `manager_faults`: they are proved for any number of Redis errors, and
`FollowsDiagram` says there which steps may lose a job.

The bounds are enough for the cases the properties are about: with a batch size
of 1 two due jobs need a second batch; with retry 1 a job is given out, fails,
waits, is given out again and is buried; a clock to 3 lets a reservation of
length 1 expire, its retry of delay 1 come due and that reservation expire; two
connections race each other and the task runner. Two connections of one process
can register together, one after the other, and again after the reaper; two requests of
the Busy page and a BEAT are three writers of one state. Two jobs at one score are what
Remove mistakes for each other. Two
commands of an operator pause and resume a queue, or pause one and clear, delete
from or flush it, around a restart. Three goroutines are a borrower, one that
gives back and one that closes. Three seconds let a cycle run over a tick into the
second after it (two cycles in one second) and over a due second (which is
skipped). Two signals are two TERMs, or a TERM and a HUP in either order. Two
requests overtake each other; with three graphs (two redraws) an answer comes for a graph that
was replaced twice, and a job that fails changes the totals twice. Three answers
fill a window of three points, which begins with one zero, and push a point out of it. A
day of three hours has hours at its ends and one between, and three days from every hour
around the odd day begin before it, in it and after it. Mutants in `PROJECT.json` show for every property
that a plausible mistake in the code is found within the bounds. Deadlock checking
is off where everything may have been done (bounded requests, closed
connections); in `Manager` it is on.

Two runs are refuted by TLC: they state what a comment or a document of the
repository says, and the counterexample is what the code does. Each is described
under "findings".

- `manager_dropped`: a FAIL racing the reservation reaper drops the job;
- `workers_quiet`: a worker with two connections that was told to be quiet still gets
  jobs on the second one, whose ClientData nobody signals.

Where a property of a passing run names an exception, or an instance leaves a
request out, the code has a corner that the property does not survive. These are
the ones met while modelling:

- an extended reservation is stored under its new expiry with the JSON of the old
  one: after a restart it is not found under the expiry it is loaded with
  (`manager_core` has no extensions); an ACK that meets the reaper while it holds an
  extended reservation leaves its entry in the working set;
- removal by score takes the single entry at the score whatever its jid (`SharedScores` in
  `Manager`). In `Admin` a stale key of the Web UI then deletes or buries another job, and "retry" of
  it enqueues the job it read a second time and loses the other one (`mixed`): scheduled jobs with the
  same `at` meet this, and the jobs of one kill of several keys;
- LPUSH's error is dropped, so PUSH answers OK for a job that is not stored (`fate`
  "storeerr" of `PushError`), and retries from the Web UI and MUTATE requeue remove an entry whose
  job was not stored; a ZADD of MoveTo that fails leaves the job in no set (`lost` in `Admin`);
- a connection that says HELLO when its worker is known is not added to the worker's
  connections: the reaper does not close it;
- requests of the Busy page signal without the lock that BEAT holds: a quiet that was tested
  while the worker was running may be assigned after a terminate, and the worker goes from
  terminate back to quiet, although `workers.go` says that it never moves backward
  (`NeverUnquiet` allows exactly this step);
- MUTATE requeue pushes before it removes and does not look whether the entry was
  still there: the scheduler may have moved it, and the job runs twice (`NoCopies`
  allows one more copy per requeue);
- of two PAUSE commands at the same time one update of `m.paused` is lost: with two
  `Operators` `PausedIsNotAsked` fails;
- a second TERM, a TERM when a subsystem has failed, a HUP before the Web UI was
  started and a HUP that changes the options of a Web UI that is off all panic; so does the
  process when Redis crashes, when PUSH, ACK, FAIL, BEAT or QUEUE comes without its argument, and
  when the Web UI reads the heartbeats while they change (`PanicHasCause` lists them); nothing
  recovers outside of the Web UI's handlers. A Redis that ends without an error is not
  noticed. A TERM that finds the channel of signals full is dropped;
- a cycle that overruns makes tasks wait another period, or run twice in a second;
- a window that is resized before the page is ready leaves a second poller (`early` in
  `OnePoller`), a redraw after another tab stored an interval polls at that one under
  the old label, and answers that overtake each other draw a negative point;
- FLUSH between two INCRs or two reads, and a Redis error in one of them, let the page show more
  failures than jobs processed (`torn`); a fresh page shows this without a fault when a job
  fails between the two reads of `summary.ego`, until the first answer;
- History steps back 24 hours of local time: called in the first hour of a day it leaves out
  the day on which the clocks are put forward, in the last hour it finds the day on which they
  are put back twice. Midnight between its two calls shifts one series; when an hour ends
  between the calls, one series may have a day less, Rickshaw throws, the history graph is missing
  and the ready handler ends before it has restored the slider (`Dashboard` does not model this
  last consequence);
- a Get that Close overtakes may call a nil factory (pc "panic"); the capacity
  bounds the idle connections only; MUTATE does not mark a broken connection;
- MoveTo is two commands with a crash window; "retry all" pages by position through
  the set it is emptying; "kill all" calls EnqueueAll; a filter's jids count only
  when there is neither a pattern nor a jobtype;
- FLUSH leaves `m.paused` as it was, and a PUSH that overlaps Clear leaves jobs in a
  queue whose name is gone.

### Fairness

`manager_live`: the clock runs; a crashed server is started again; a sweep that
began goes on (weak fairness); the runner, which looks at its tasks every
second, keeps starting each of them (strong fairness, since another task may be
running when it looks); a command in progress is carried on by its goroutine.
Clients owe nothing. `workers_registry`: goroutines run on, and a goroutine that
waits for `workers.mu` gets it (Go's mutex hands over to a starving waiter), the
runner keeps calling the reaper, the clock runs to its bound. `pool_race`:
goroutines run on and give back what they borrowed, as `With` does with a deferred
Put. `queues_pause`: commands run on, a crashed server is started again, and the
worker keeps asking for each of its lists of queues, as workers do; nothing is
assumed of operators. `server_down`: goroutines that can go on do; a reload waits
for requests of the Web UI, which its timeouts end; the goroutine that waits for Redis
notices its crash; nothing is assumed of signals, of Redis or of commands.
`dashboard_polling`: the server renders the page and answers, the browser parses the page
and fires its timers, only finitely many faults happen, and a call of Failure is carried
to its end; the user owes nothing.

## 4. The proofs

TLAPS checks every step of the proof modules. The theorems hold for every value of
the constants that satisfies the module's ASSUME (any number of jobs, connections,
workers, goroutines, queues, requests, crashes, errors, any clock), and under the
hypotheses that the table names. TLC evaluates the same ASSUMEs, and checked every
inductive invariant on the instances of section 3 before it was proved.

| module | theorem | states | hypotheses |
|---|---|---|---|
| `ManagerProofs` | `Typing` | `[]TypeOK` | - |
| | `OneCopy` | `[]AtMostOneCopy` | `~SharedScores` |
| | `NothingVanishes` | `[]Accounted` | `~SharedScores` |
| | `ReservationsAreFresh` | `FreshReservation` | `~SharedScores` |
| | `OnlyExpiredIsReaped` | `ReapOnlyExpired` | `~SharedScores` |
| | `DeliveriesAreBounded` | `[]DeliveryBudget` | `~SharedScores` |
| | `AcknowledgedIsGone` | `[]AckedIsGone` | `~SharedScores`, `Extensions = {}` |
| | `MemoryMatchesStore` | `[]ReservationsAgree` | `~SharedScores`, `Extensions = {}`, `MaxErrs = 0` |
| | `ImplementsDiagram` | `FollowsDiagram`: `Manager` implements `JobLifecycle` | `~SharedScores` |
| `QueuesProofs` | `QueuesStayRegistered` | `[]Registered` | - |
| | `StoreAndMemoryAgree` | `[]MemoryAgrees` | one operator |
| | `PausedQueuesAreLeftOut` | `PausedIsNotAsked` | one operator |
| `WorkersProofs` | `KnownWorkersAreConnected` | `[]KnownIsConnected` | - |
| | `WorkersForgottenForCause` | `ForgottenForCause` | - |
| | `QuietWorkersStayQuiet` | `NeverUnquiet` | - |
| `AdminProofs` | `NothingDoubled` | `[]NoCopies` | - |
| | `NothingLost` | `[]NoLoss` | - |
| | `OnlyKeysTaken` | `OnlyNamed` | - |
| `ChannelPoolProofs` | `EveryConnectionHasOneOwner` | `[]OneOwner` | - |
| | `BrokenConnectionsLeave` | `[]BrokenIsNotReused` | - |
| | `PutNeverPanics` | `SendIsSafe` | - |
| `LifecycleProofs` | `GoesDownInOrder` | `[]DownInOrder` | - |
| | `PanicsForCause` | `[]PanicHasCause` | - |
| | `RunsAtMostTwice` | `[]AtMostTwice` | - |
| | `RunsPunctually` | `[]Punctual` | - |
| `DashboardProofs` | `NoJobDrawnTwice` | `[]DrawnOnce` | - |
| | `OnePollerRuns` | `[]OnePoller` | - |
| | `LabelIsHonest` | `[]LabelHonest` | - |
| | `FailuresAmongProcessed` | `[]FailedWithinProcessed` | - |
| `ChartsProofs` | `WindowsFollow` | `[]WindowIsLatest` | - |
| | `LegendFollows` | `[]LegendCurrent` | - |

The hypotheses are those under which the runs check the properties; each excludes one
of the corners of section 3, where the code really breaks the property.

- `~SharedScores`: two jobs do not have the same float64 time in a set. With shared
  scores ACK or FAIL may remove another job's entry.
- `Extensions = {}`: nothing in the server calls ExtendReservation, only
  `manager/working_test.go` does. An extension moves the entry only at the next sweep,
  and an ACK in between leaves the entry behind.
- `MaxErrs = 0`: a ZREM that fails leaves an entry without a reservation until the
  reaper finds it. Only the agreement of the two copies needs this.
- One operator: Pause and Resume read and assign `m.paused` without a lock, and of two
  that overlap one is lost.

### The arguments

**Copies (`ManagerProofs`).** The inductive invariant is `TypeOK` with `Custody`, which is
`AtMostOneCopy`, `UnbornIsNowhere` and `Accounted` together. `AtMostOneCopy` alone is not
inductive: PUSH adds a job, and nothing says that a job that was not pushed is not in the
server already; `UnbornIsNowhere` does. `Accounted` in turn needs `AtMostOneCopy`: a sweep or
a command that takes a job away settles its fate or carries it, and only because there is
no other copy is it known where the job is afterwards. The hypothesis on scores is used
where ACK and FAIL remove an entry: with it they remove one of their own job (`RemOwn`).
Actions are reduced to what they do to the four kinds of places (queue, sorted sets, hands
of a connection, hand of the sweep): `IntoSet` and `IntoQueue` for a job that arrives, `Shrink`
when places only lose jobs, `Still` when nothing moves.

**Reservations (`ManagerProofs`).** `ReserveInv` says who may decide about a job: the
right (a `Ticket`) is in `workingMap` or with exactly one command, and nobody has it while
the job waits anywhere else. This is what a FAIL racing the reaper, or two ACKs, could
break. `Expiries` adds that the expiry in memory is never later than the score in the store,
so that what a sweep finds due has expired. `Counted` relates deliveries to the recorded failures of
the one copy of the job, in each place by the step the command is at; `DeliveryBudget` alone
says nothing about the failures still to come. `ExactInv` is stronger and holds without
extensions: memory and store have the same expiry (`Exact`), every reservation is backed by
an entry, and a job that was acknowledged is nowhere, not even with a sweep that read it
before the ACK.

**Refinement (`ManagerProofs`).** The mapping takes a job's state and failures from
wherever the job is found. The proof sees each place as a `Copy` of the job with a state of the
diagram, shows that the mapping shows the copy (`View`, from `AtMostOneCopy`), and then has one
lemma per action: the copy it moves goes along an arrow, or stays where it is, and all
others stay. Two more invariants are needed: the failures that memory, entry and reaper
have of one job are the same (`Agreed`), since `processFailure` counts with the one in memory, and
what waits in retries has failed and may still be retried (`Retried`). The theorem needs
neither `Extensions = {}` nor `MaxErrs = 0`: what goes wrong there is a `Fault` of the diagram.

**Queues.** `Shaped` says which command may be at which step. For `Registered`, the name is in the
store before the queue is in the map (`Named`), and both before the LPUSH (`Announced`); a
queue in `cleared` is excepted from the moment Clear begins, since its three commands run
without the lock. For pausing, the store is ahead of `m.paused` by exactly the queue that the
operator is at (`Synced`), the copy it read is still current when it writes (`Current`, the
place where one operator is needed), and what is to stay paused is so in both (`Kept`).

**Workers.** `RegistryInv`: the entry of a worker is the ClientData of one of its own
connections (`OwnEntry`), and a BEAT under way has found one. `SignalsSound`: what a request of the
Busy page is about to assign is quiet or terminate, and so is what a BEAT under the lock has found
allowed. From this each step is seen to keep a worker from running again, and to
take nothing back but by an assignment in `LateQuiet`; that no new one gets there is the test of
`Signal`, which lets quiet pass for running workers only.

**Operator requests.** Each action is reduced to what it does to the places a job can be in:
entries leave a set (`Leaves`), go from a set into a hand (`Lifts`, `SweepLifts`), from a hand into the
queue or the dead set (`Pushes`, `SweepPushes`, `Buries`), are copied (`Requeues`), run (`Works`, `Fails`) or
lost (`Drops`: a crash, or a command that failed). Scores may be shared: what Get and Remove find for
a key is the entry of the key or the only one at its score (`NamedFinds`), and in the second case
both jobs are in `mixed` from then on (`MistakenAre`), so that the step has to be accounted for only
when the entry that was found is the one in hand. For `NoCopies` the copies are counted place by place, and in
each of these steps one place loses at least what another gains; a requeue adds one to both
sides. `NoLoss` is not inductive: requeue removes what it pushed some time ago, and the worker
that has run it since may have stored a retry, which has failed again. `KeptInv` and `PushedInv`
therefore speak of attempts: what was pushed is in the queue still, or a later attempt of the
job is somewhere.

**Pool.** `PoolInv`: a goroutine has a connection exactly between Get and Put, the channel is
closed only after the field was set to nil, and an error that was noticed is on a marked connection
in the hands of the goroutine that noticed it.

**Life cycle.** `LifeInv`: where main is says what is open (`MainInOrder`); the places a TERM can
be in were each sent one (`SignalsWereSent`). The steps that end the process from outside (`Crash`)
change nothing else that these speak of. For the task runner, the runs of a task in this
second and those that may still come are within the limit (`RoomToRun`), and a second
that was not served yet has a tick left for it (`NothingSkipped`).

**Dashboard.** `DashInv`: timers and requests belong to graphs that were drawn, what pollers
there are in each phase of the page, the slider before it is ready, and what the answers
under way may hold (`Counts`): unless the counters have drifted, the failures counted and the calls
between their INCRs are no more than the jobs processed, and an answer that is not torn has read no
more failures than that. The functions of the script get a lemma each that says what
they do field by field; the handlers compose them.

**Charts.** `ChartsInv` is the types and the two properties of the realtime graphs. `addData`
moves a window by one point, whatever its length (`addDataMovesWindow`).

### Only model-checked

- `ExpiredIsReaped`, `DueIsEnqueued`, `GoneIsForgotten`, `ClosedIsDrained`, `ShownIsServed`, `StopsWhenTold`,
  `CatchesUp`: liveness under fairness, out of the prover's reach.
- `HistoryHonest`: about the dates of a calendar around one odd day; TLC goes through every hour
  of the small calendar of `charts_drawing`.

All other properties of the passing runs are proved, with the hypotheses of the table.

## 5. Not modelled

- Commands in flight when the server stops: seen by a job, a Stop is the crash of
  `Manager`. `Manager` and `Workers` assume only that tasks run again and again.
- Redis itself: persistence (a crash of Redis loses what was not saved), and the
  start of its process.
- The page script `webui/static/application.js`, but for the global `Faktory`: its
  `updatePage` is never called (every page of the server has an empty `data-poll-path`),
  and what is left (the check-all box, confirmations, the menu, times in words) changes
  the look of the page only. Of the dashboard: colours, axes, `numberWithDelimiter`, the beacon,
  `updateServerStats` (which reads `data.commands` where the server sends
  `command_count`, so that this figure never changes) and the clock in the footer.
- Middleware: the chains are empty in this repository.
- Batches and tracking (the server refuses both), the handshake's password
  hash, configuration, rendering, logging.
- An extension that arrives between the reaper's test and its `clearReservation`
  is lost; the model has the step, no property is stated about it.
- Reservations that FLUSH leaves in the working map.
- A Redis that ends with status 0: `bootRedis` looks at errors only, so the server lives on and its
  commands fail. What a page shows when History itself fails (an error text in place of the series).
- A FETCH that waits in BRPOP when its queue is paused may still take a job of it; the
  model has the step, and `PausedIsNotAsked` is about FETCHes that begin later.

## 6. Plan

1. Done: all modules of section 2 and their runs; the theorems of section 4.
2. Left: liveness and the history graph's dates, which stay with TLC.
