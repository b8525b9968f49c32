--------------------------- MODULE LifecycleProofs ---------------------------
(***************************************************************************)
(* Proofs about Lifecycle and the task runner inside of it, for all        *)
(* periods, any number of tasks and signals and any time a task takes.     *)
(***************************************************************************)
EXTENDS Lifecycle, SequenceTheorems, TLAPS

-----------------------------------------------------------------------------
(* The invariant of the task runner *)

\* The cycles that may still begin in this second: one for a tick that waits
\* in the channel, one for the tick that is yet to come.
Waiting == (IF tick THEN 1 ELSE 0) + (IF ticked THEN 0 ELSE 1)

\* How often a task may run for one second.
Limit == IF longest = 0 THEN 1 ELSE 2

\* The same for the second that it is now: a cycle that has run on into it is
\* in longest only when it ends.
LimitNow == IF longest = 0 /\ ~(runner = "cycle" /\ sec < now) THEN 1 ELSE 2

\* The runs of task t for this second, and the one the cycle has before it.
Runs(t) == IF ran[t].at = now THEN ran[t].times ELSE 0
Pending(t) == IF runner = "cycle" /\ sec = now /\ todo <= t THEN 1 ELSE 0

\* A task that the cycle has before it has not run too often for its second.
RoomToRun ==
    /\ runner = "off" => ~tick /\ ticked
    /\ \A t \in 1..Len(ran) : ran[t].at <= now /\ ran[t].times <= Limit
    /\ runner = "cycle" =>
         \A t \in 1..Len(ran) : todo <= t /\ ran[t].at = sec => ran[t].times < Limit
    /\ runner # "stopped" =>
         /\ Waiting <= LimitNow
         /\ \A t \in 1..Len(ran) : Runs(t) + Pending(t) + Waiting <= LimitNow

\* The last second up to s that a period divides.
LastDue(s, p) == s - (s % p)

\* A second that the runner has not come to yet has a tick left for it, and a
\* task has run for the last second up to the cycle's that it was due in; up
\* to the one before, if the cycle has it before it.
NothingSkipped ==
    /\ runner = "cycle" /\ now > sec => ~ticked \/ tick
    /\ runner = "select" /\ longest <= 1 =>
         /\ now <= sec + 1
         /\ now = sec + 1 => ~ticked \/ tick
    /\ runner \in {"cycle", "select"} /\ longest <= 1 =>
         \A t \in 1..Len(tasks) :
            ran[t].at >= LastDue(IF runner = "cycle" /\ todo <= t THEN sec - 1 ELSE sec, tasks[t])

-----------------------------------------------------------------------------
(* The invariant of the process *)

\* Where main is says what is open, and whether Server.Run was called.
MainInOrder ==
    /\ main = "boot" => store = "none" /\ listener = "none"
    /\ main \in {"booted", "wait"} => store = "open" /\ listener = "open"
    /\ main = "stop" => store = "open" /\ listener = "closed"
    /\ main \in {"defer", "done"} => store # "open" /\ listener # "open"
    /\ redis = "stopped" => main = "done"
    /\ main \in {"boot", "booted"} => run = "off"

\* The places in which a TERM is after it was sent: it has closed the stopper,
\* the handler has it, or the channel has it.
Closed == stopper = "closed" /\ run # "failed"
Handled(s) == handler = s
Queued(s) == signals = <<s>>

\* Two signals were sent.
SentTwice(s) == \E j, k \in Sent(s) : j # k

\* Every signal in one of these places was sent, and those in two were two.
SignalsWereSent ==
    /\ Handled("HUP") \/ Queued("HUP") => Sent("HUP") # {}
    /\ Closed \/ Handled("TERM") \/ Queued("TERM") => Sent("TERM") # {}
    /\ \/ Closed /\ Handled("TERM")
       \/ Closed /\ Queued("TERM")
       \/ Handled("TERM") /\ Queued("TERM")
       => SentTwice("TERM")

\* The inductive invariant.
LifeInv ==
    /\ TypeOK
    /\ RoomToRun
    /\ NothingSkipped
    /\ MainInOrder
    /\ Alive => SignalsWereSent
    /\ PanicHasCause

-----------------------------------------------------------------------------
(* Arithmetic and sequences *)

\* Division with remainder.
LEMMA Remainder ==
    ASSUME NEW s \in Int, NEW p \in Nat \ {0}
    PROVE  /\ s = p * (s \div p) + (s % p)
           /\ s % p \in 0..(p - 1)
           /\ s \div p \in Int
           /\ LastDue(s, p) \in Int
           /\ LastDue(s, p) <= s
<1>1. s = p * (s \div p) + (s % p) /\ s % p \in 0..(p - 1) /\ s \div p \in Int
  OBVIOUS
<1> QED
  BY <1>1 DEF LastDue

\* A second that the period does not divide has the same last one as the
\* second before it, and the last one never goes back.
LEMMA LastDueSteps ==
    ASSUME NEW s \in Int, NEW p \in Nat \ {0}
    PROVE  /\ (s % p # 0) => LastDue(s, p) = LastDue(s - 1, p)
           /\ LastDue(s - 1, p) <= LastDue(s, p)
<1> DEFINE a == (s - 1) \div p
           b == s \div p
           u == (s - 1) % p
           v == s % p
<1>1. /\ s - 1 = p * a + u /\ u \in 0..(p - 1) /\ a \in Int
      /\ s = p * b + v /\ v \in 0..(p - 1) /\ b \in Int
      /\ LastDue(s - 1, p) = s - 1 - u /\ LastDue(s, p) = s - v
  BY Remainder DEF LastDue
<1> HIDE DEF a, b, u
<1>2. p * a \in Int /\ p * b \in Int
  BY <1>1
<1>3. ASSUME NEW x \in Int, NEW y \in Int, x < y
      PROVE  p * x + p <= p * y
  BY <1>3
<1>4. CASE a < b
  <2>1. p * a + p <= p * b
    BY <1>1, <1>3, <1>4
  <2>2. v = 0 /\ u = p - 1
    BY <1>1, <1>2, <2>1
  <2> QED
    BY <1>1, <1>2, <2>1, <2>2
<1>5. CASE b < a
  <2>1. p * b + p <= p * a
    BY <1>1, <1>3, <1>5
  <2> QED
    BY <1>1, <1>2, <2>1
<1>6. CASE a = b
  BY <1>1, <1>2, <1>6
<1> QED
  BY <1>1, <1>4, <1>5, <1>6

-----------------------------------------------------------------------------
(* Types *)

Record == [at : Int, times : Nat]

\* The state of the task runner as it starts.
LEMMA RunnerTypeInit == TaskRunnerInit => TaskRunnerTypeOK
<1> SUFFICES ASSUME TaskRunnerInit PROVE TaskRunnerTypeOK
  OBVIOUS
<1>1. Periods \in Seq(Nat \ {0}) /\ Len(Periods) \in Nat
  BY TaskRunnerAssumption
<1>2. ran \in Seq(Record) /\ Len(ran) = Len(Periods)
  BY <1>1 DEF TaskRunnerInit, NotRun, Record
<1>3. {ticked, tick} \subseteq BOOLEAN
  BY Zenon DEF TaskRunnerInit
<1>4. /\ now = 0 /\ sec = 0 /\ todo = 1 /\ longest = 0 /\ runner = "off" /\ tasks = Periods
  BY DEF TaskRunnerInit
<1> QED
  BY <1>1, <1>2, <1>3, <1>4 DEF TaskRunnerTypeOK, Record

\* A task is added at the end.
LEMMA AddTaskFields ==
    ASSUME TaskRunnerTypeOK, NEW p \in Added, AddTask(p)
    PROVE  /\ tasks' \in Seq(Nat \ {0}) /\ ran' \in Seq(Record)
           /\ Len(tasks') = Len(tasks) + 1 /\ Len(ran') = Len(ran) + 1
           /\ \A t \in 1..Len(tasks) : tasks'[t] = tasks[t] /\ ran'[t] = ran[t]
           /\ ran'[Len(ran) + 1].at = now /\ ran'[Len(ran) + 1].times = 0
<1>1. NotRun(now) \in Record /\ NotRun(now).at = now /\ NotRun(now).times = 0
  BY DEF NotRun, Record, TaskRunnerTypeOK
<1>2. p \in Nat \ {0}
  BY TaskRunnerAssumption
<1>3. /\ tasks \in Seq(Nat \ {0}) /\ ran \in Seq(Record) /\ Len(ran) = Len(tasks)
      /\ tasks' = Append(tasks, p) /\ ran' = Append(ran, NotRun(now))
  BY DEF TaskRunnerTypeOK, Record, AddTask
<1> QED
  BY <1>1, <1>2, <1>3

\* A task is executed.
LEMMA ExecuteFields ==
    ASSUME TaskRunnerTypeOK, Execute
    PROVE  /\ ran' \in Seq(Record) /\ Len(ran') = Len(ran) /\ todo \in 1..Len(ran)
           /\ \A t \in (1..Len(ran)) \ {todo} : ran'[t] = ran[t]
           /\ ~Due(todo) => ran'[todo] = ran[todo]
           /\ Due(todo) => /\ ran'[todo].at = sec
                           /\ ran'[todo].times = IF ran[todo].at = sec THEN ran[todo].times + 1 ELSE 1
<1> DEFINE e == [at |-> sec, times |-> IF ran[todo].at = sec THEN ran[todo].times + 1 ELSE 1]
<1>1. ran \in Seq(Record) /\ todo \in 1..Len(ran) /\ Len(ran) \in Nat
  BY DEF TaskRunnerTypeOK, Execute, Record
<1>2. e \in Record /\ e.at = sec
      /\ e.times = IF ran[todo].at = sec THEN ran[todo].times + 1 ELSE 1
  <2>1. ran[todo] \in Record /\ sec \in Int
    BY <1>1, ElementOfSeq DEF TaskRunnerTypeOK
  <2>2. ran[todo].times \in Nat
    BY <2>1 DEF Record
  <2> DEFINE k == IF ran[todo].at = sec THEN ran[todo].times + 1 ELSE 1
  <2>3. k \in Nat
    BY <2>2
  <2> HIDE DEF k
  <2>4. [at |-> sec, times |-> k] \in Record
    BY <2>1, <2>3 DEF Record
  <2> QED
    BY <2>4 DEF k
<1>3. ran' = IF Due(todo) THEN [ran EXCEPT ![todo] = e] ELSE ran
  BY DEF Execute
<1> HIDE DEF e
<1>4. /\ [ran EXCEPT ![todo] = e] \in Seq(Record)
      /\ Len([ran EXCEPT ![todo] = e]) = Len(ran)
      /\ \A t \in 1..Len(ran) : [ran EXCEPT ![todo] = e][t] = IF t = todo THEN e ELSE ran[t]
  BY <1>1, <1>2, ExceptSeq
<1> QED
  BY <1>1, <1>2, <1>3, <1>4

\* The first cycle.
LEMMA FirstCycleFields ==
    ASSUME TaskRunnerTypeOK, FirstCycle
    PROVE  /\ ran' \in Seq(Record) /\ Len(ran') = Len(tasks)
           /\ \A t \in 1..Len(tasks) : ran'[t].at = now - 1 /\ ran'[t].times = 0
<1>1. NotRun(now - 1) \in Record /\ NotRun(now - 1).at = now - 1 /\ NotRun(now - 1).times = 0
  BY DEF NotRun, Record, TaskRunnerTypeOK
<1>2. Len(tasks) \in Nat
  BY DEF TaskRunnerTypeOK
<1>3. ran' = [t \in 1..Len(tasks) |-> NotRun(now - 1)]
  BY DEF FirstCycle
<1> QED
  BY <1>1, <1>2, <1>3

\* Every step of the task runner keeps its types.
LEMMA RunnerTypeStep ==
    ASSUME TaskRunnerTypeOK, TaskRunnerNext \/ StopTasks \/ UNCHANGED trvars
    PROVE  TaskRunnerTypeOK'
<1> USE DEF TaskRunnerTypeOK
<1>1. ASSUME NEW p \in Added, AddTask(p)
      PROVE  TaskRunnerTypeOK'
  <2>1. /\ tasks' \in Seq(Nat \ {0}) /\ ran' \in Seq([at : Int, times : Nat])
        /\ Len(tasks') = Len(tasks) + 1 /\ Len(ran') = Len(ran) + 1
    BY <1>1, AddTaskFields DEF Record
  <2>2. /\ UNCHANGED <<now, ticked, tick, runner, sec, todo, longest>>
    BY <1>1 DEF AddTask
  <2>3. todo \in 1..(Len(tasks') + 1)
    BY <2>1
  <2> QED
    BY <2>1, <2>2, <2>3
<1>2. CASE FirstCycle
  <2>1. ran' \in Seq([at : Int, times : Nat]) /\ Len(ran') = Len(tasks)
    BY <1>2, FirstCycleFields DEF Record
  <2> QED
    BY <1>2, <2>1 DEF FirstCycle, BeginCycle
<1>3. CASE Execute
  <2>1. ran' \in Seq([at : Int, times : Nat]) /\ Len(ran') = Len(ran)
    BY <1>3, ExecuteFields DEF Record
  <2> QED
    BY <1>3, <2>1 DEF Execute
<1>4. CASE EndCycle
  BY <1>4 DEF EndCycle
<1>5. CASE NextCycle
  <2>1. {ticked', tick'} \subseteq BOOLEAN
    BY <1>5, Zenon DEF NextCycle
  <2> QED
    BY <1>5, <2>1 DEF NextCycle, BeginCycle
<1>6. CASE Ticker
  BY <1>6 DEF Ticker
<1>7. CASE Second
  <2>1. now' = now + 1 /\ ticked' \in BOOLEAN
        /\ UNCHANGED <<tick, runner, tasks, sec, todo, ran, longest>>
    BY <1>7 DEF Second
  <2> QED
    BY <2>1
<1>8. CASE StopTasks
  BY <1>8 DEF StopTasks
<1>9. CASE UNCHANGED trvars
  BY <1>9 DEF trvars
<1> QED
  BY <1>1, <1>2, <1>3, <1>4, <1>5, <1>6, <1>7, <1>8, <1>9 DEF TaskRunnerNext

-----------------------------------------------------------------------------
(* The task runner's invariant *)

\* It holds when the tasks are started.
LEMMA RunnerInit == TaskRunnerInit => RoomToRun /\ NothingSkipped
<1> SUFFICES ASSUME TaskRunnerInit PROVE RoomToRun /\ NothingSkipped
  OBVIOUS
<1>1. TaskRunnerTypeOK
  BY RunnerTypeInit
<1>2. /\ now = 0 /\ ticked /\ ~tick /\ runner = "off" /\ sec = 0 /\ longest = 0
      /\ Len(ran) = Len(Periods)
  BY <1>1 DEF TaskRunnerInit, TaskRunnerTypeOK
<1>3. \A t \in 1..Len(ran) : ran[t].at = -1 /\ ran[t].times = 0
  BY <1>2 DEF TaskRunnerInit, NotRun
<1> QED
  BY <1>2, <1>3 DEF RoomToRun, NothingSkipped, Waiting, Limit, LimitNow, Runs, Pending

\* The values that the invariant speaks of.
LEMMA Values ==
    ASSUME TaskRunnerTypeOK
    PROVE  /\ now \in Nat /\ sec \in Nat /\ sec <= now /\ todo \in Nat /\ longest \in Nat
           /\ Len(ran) \in Nat /\ Len(tasks) = Len(ran)
           /\ ticked \in BOOLEAN /\ tick \in BOOLEAN
           /\ \A t \in 1..Len(ran) :
                ran[t].at \in Int /\ ran[t].times \in Nat /\ tasks[t] \in Nat \ {0}
<1>1. /\ \A t \in 1..Len(ran) : ran[t] \in Record /\ tasks[t] \in Nat \ {0}
  BY ElementOfSeq DEF TaskRunnerTypeOK, Record
<1> QED
  BY <1>1 DEF TaskRunnerTypeOK, Record

\* No task runs too often.
LEMMA RoomToRunStep ==
    ASSUME TaskRunnerTypeOK, TaskRunnerTypeOK', RoomToRun,
           TaskRunnerNext \/ StopTasks \/ UNCHANGED trvars
    PROVE  RoomToRun'
<1> USE Values DEF RoomToRun, Waiting, Limit, LimitNow, Runs, Pending
<1>1. ASSUME NEW p \in Added, AddTask(p)
      PROVE  RoomToRun'
  <2>1. /\ Len(ran') = Len(ran) + 1
        /\ \A t \in 1..Len(ran) : ran'[t] = ran[t]
        /\ ran'[Len(ran) + 1].at = now /\ ran'[Len(ran) + 1].times = 0
    BY <1>1, AddTaskFields
  <2>2. UNCHANGED <<now, ticked, tick, runner, sec, todo, longest>> /\ runner # "cycle"
    BY <1>1 DEF AddTask
  <2>3. \A t \in 1..Len(ran') : t \in 1..Len(ran) \/ t = Len(ran) + 1
    BY <2>1
  <2>4. \A t \in 1..Len(ran') : ran'[t].at <= now /\ ran'[t].times <= Limit
    BY <2>1, <2>3
  <2>5. ASSUME runner # "stopped", NEW t \in 1..Len(ran')
        PROVE  (Runs(t) + Pending(t) + Waiting <= LimitNow)'
    <3>1. Waiting' = Waiting /\ LimitNow' = LimitNow /\ Pending(t)' = 0
      BY <2>2
    <3>2. CASE t \in 1..Len(ran)
      <4>1. Runs(t)' = Runs(t) /\ Pending(t) = 0
        BY <2>1, <2>2, <3>2
      <4> QED
        BY <2>5, <3>1, <3>2, <4>1
    <3>3. CASE t = Len(ran) + 1
      <4>1. Runs(t)' = 0
        BY <2>1, <3>3
      <4> QED
        BY <2>5, <3>1, <4>1
    <3> QED
      BY <2>3, <3>2, <3>3
  <2>6. Limit' = Limit /\ Waiting' = Waiting /\ LimitNow' = LimitNow
    BY <2>2
  <2> HIDE DEF Limit, Waiting, LimitNow, Runs, Pending
  <2> QED
    BY <2>2, <2>4, <2>5, <2>6
<1>2. CASE FirstCycle
  <2>1. /\ Len(ran') = Len(ran)
        /\ \A t \in 1..Len(ran) : ran'[t].at = now - 1 /\ ran'[t].times = 0
    BY <1>2, FirstCycleFields
  <2> QED
    BY <1>2, <2>1 DEF FirstCycle, BeginCycle
<1>3. CASE Execute
  <2>1. /\ Len(ran') = Len(ran) /\ todo \in 1..Len(ran)
        /\ \A t \in (1..Len(ran)) \ {todo} : ran'[t] = ran[t]
        /\ \/ ran'[todo] = ran[todo]
           \/ /\ ran'[todo].at = sec
              /\ ran'[todo].times = IF ran[todo].at = sec THEN ran[todo].times + 1 ELSE 1
    BY <1>3, ExecuteFields
  <2>2. UNCHANGED <<now, ticked, tick, runner, sec, longest>> /\ runner = "cycle"
        /\ todo' = todo + 1
    BY <1>3 DEF Execute
  <2>3. /\ ran[todo].at = sec => ran[todo].times < Limit
        /\ ran'[todo].at <= now /\ ran'[todo].times <= Limit
    BY <2>1, <2>2, SMTT(40)
  <2>4. \A t \in 1..Len(ran') : ran'[t].at <= now /\ ran'[t].times <= Limit
    BY <2>1, <2>3
  <2>5. \A t \in 1..Len(ran') : todo + 1 <= t /\ ran'[t].at = sec => ran'[t].times < Limit
    BY <2>1, <2>2
  <2>6. Limit' = Limit /\ Waiting' = Waiting /\ LimitNow' = LimitNow
    BY <2>2
  <2>7. ASSUME NEW t \in 1..Len(ran')
        PROVE  Runs(t)' + Pending(t)' <= Runs(t) + Pending(t)
    <3>1. CASE t # todo
      <4>1. t \in 1..Len(ran) /\ ran'[t] = ran[t] /\ (todo' <= t <=> todo <= t)
        BY <2>1, <2>2, <3>1
      <4>2. Runs(t)' = Runs(t) /\ Pending(t)' = Pending(t)
        BY <2>2, <4>1
      <4>3. Runs(t) \in Int /\ Pending(t) \in Int
        BY <4>1
      <4> HIDE DEF Runs, Pending
      <4> QED
        BY <4>2, <4>3
    <3>2. CASE t = todo /\ sec = now
      <4>1. Pending(t)' = 0 /\ Pending(t) = 1
        BY <2>2, <3>2
      <4>2. Runs(t)' <= Runs(t) + 1
        BY <2>1, <2>2, <3>2
      <4> QED
        BY <4>1, <4>2, <3>2, <2>1
    <3>3. CASE t = todo /\ sec # now
      BY <2>1, <2>2, <3>3
    <3> QED
      BY <3>1, <3>2, <3>3
  <2>8. /\ Waiting \in Int /\ LimitNow \in Int
        /\ \A t \in 1..Len(ran') : Runs(t) \in Int /\ Pending(t) \in Int
                                    /\ Runs(t)' \in Int /\ Pending(t)' \in Int
    BY <2>1, <2>2, SMTT(40)
  <2> HIDE DEF Limit, Waiting, LimitNow, Runs, Pending
  <2>9. \A t \in 1..Len(ran') : Runs(t)' + Pending(t)' + Waiting' <= LimitNow'
    BY <2>1, <2>2, <2>6, <2>7, <2>8, SMTT(40)
  <2> QED
    BY <2>1, <2>2, <2>4, <2>5, <2>6, <2>9
<1>4. CASE EndCycle
  <2>1. /\ runner = "cycle" /\ runner' = "select" /\ todo > Len(ran)
        /\ longest' = IF now - sec > longest THEN now - sec ELSE longest
        /\ UNCHANGED <<now, ticked, tick, sec, todo, ran>>
    BY <1>4 DEF EndCycle
  <2>2. Limit <= Limit' /\ Limit \in Nat /\ Limit' \in Nat
    BY <2>1
  <2>3. LimitNow' = LimitNow
    BY <2>1
  <2>4. Waiting' = Waiting
    BY <2>1
  <2>5. \A t \in 1..Len(ran) : Runs(t)' = Runs(t) /\ Pending(t)' = Pending(t)
    BY <2>1
  <2> HIDE DEF Limit, Waiting, LimitNow, Runs, Pending
  <2>6. \A t \in 1..Len(ran) : ran[t].at <= now /\ ran[t].times <= Limit'
    BY <2>2
  <2>7. /\ Waiting' <= LimitNow'
        /\ \A t \in 1..Len(ran) : Runs(t)' + Pending(t)' + Waiting' <= LimitNow'
    BY <2>1, <2>3, <2>4, <2>5
  <2> QED
    BY <2>1, <2>6, <2>7
<1>5. CASE NextCycle
  BY <1>5 DEF NextCycle, BeginCycle
<1>6. CASE Ticker
  BY <1>6 DEF Ticker
<1>7. CASE Second
  <2>1. /\ now' = now + 1 /\ ticked' = (runner = "off") /\ ~(runner = "select" /\ tick)
        /\ UNCHANGED <<tick, runner, tasks, sec, todo, ran, longest>>
    BY <1>7 DEF Second
  <2>2. \A t \in 1..Len(ran) : ran[t].at <= now' /\ ran[t].at # now'
    BY <2>1
  <2>3. sec # now' /\ sec < now'
    BY <2>1
  <2>4. runner # "stopped" => Waiting' <= LimitNow'
    <3>1. CASE runner = "off"
      BY <2>1, <3>1
    <3>2. CASE runner = "cycle"
      <4>1. LimitNow' = 2
        BY <2>1, <2>3, <3>2
      <4>2. Waiting' <= 2
        OBVIOUS
      <4> QED
        BY <4>1, <4>2
    <3>3. CASE runner = "select"
      <4>1. ~tick' /\ ~ticked'
        BY <2>1, <3>3
      <4> QED
        BY <4>1
    <3> QED
      BY <3>1, <3>2, <3>3 DEF TaskRunnerTypeOK
  <2>5. ASSUME runner # "stopped", NEW t \in 1..Len(ran)
        PROVE  Runs(t)' = 0 /\ Pending(t)' = 0
    BY <2>1, <2>2, <2>3
  <2> QED
    BY <2>1, <2>2, <2>4, <2>5
<1>8. CASE StopTasks
  BY <1>8 DEF StopTasks
<1>9. CASE UNCHANGED trvars
  BY <1>9 DEF trvars
<1> QED
  BY <1>1, <1>2, <1>3, <1>4, <1>5, <1>6, <1>7, <1>8, <1>9 DEF TaskRunnerNext

\* No second is skipped.
LEMMA NothingSkippedStep ==
    ASSUME TaskRunnerTypeOK, TaskRunnerTypeOK', NothingSkipped, RoomToRun,
           TaskRunnerNext \/ StopTasks \/ UNCHANGED trvars
    PROVE  NothingSkipped'
<1> USE Values DEF NothingSkipped
<1>0. \A t \in 1..Len(ran) :
        /\ LastDue(sec, tasks[t]) \in Int /\ LastDue(sec, tasks[t]) <= sec
        /\ LastDue(sec - 1, tasks[t]) \in Int /\ LastDue(sec - 1, tasks[t]) <= LastDue(sec, tasks[t])
        /\ ~Due(t) => LastDue(sec, tasks[t]) = LastDue(sec - 1, tasks[t])
  <2> TAKE t \in 1..Len(ran)
  <2>1. tasks[t] \in Nat \ {0} /\ sec \in Int /\ sec - 1 \in Int
    OBVIOUS
  <2> QED
    BY <2>1, Remainder, LastDueSteps DEF Due
<1>1. ASSUME NEW p \in Added, AddTask(p)
      PROVE  NothingSkipped'
  <2>1. /\ Len(tasks') = Len(tasks) + 1 /\ Len(ran') = Len(ran) + 1
        /\ \A t \in 1..Len(tasks) : tasks'[t] = tasks[t] /\ ran'[t] = ran[t]
        /\ ran'[Len(ran) + 1].at = now
        /\ tasks'[Len(ran) + 1] \in Nat \ {0}
    BY <1>1, AddTaskFields
  <2>2. UNCHANGED <<now, ticked, tick, runner, sec, todo, longest>> /\ runner # "cycle"
    BY <1>1 DEF AddTask
  <2>3. LastDue(sec, tasks'[Len(ran) + 1]) <= sec /\ LastDue(sec, tasks'[Len(ran) + 1]) \in Int
    <3>1. sec \in Int
      OBVIOUS
    <3> QED
      BY <2>1, <3>1, Remainder
  <2> QED
    BY <2>1, <2>2, <2>3
<1>2. CASE FirstCycle
  <2>1. /\ Len(ran') = Len(ran)
        /\ \A t \in 1..Len(ran) : ran'[t].at = now - 1
    BY <1>2, FirstCycleFields
  <2>2. /\ runner' = "cycle" /\ sec' = now /\ todo' = 1 /\ UNCHANGED <<now, tasks, longest>>
    BY <1>2 DEF FirstCycle, BeginCycle
  <2>3. ASSUME NEW t \in 1..Len(ran)
        PROVE  LastDue(now - 1, tasks[t]) <= now - 1
    <3>1. tasks[t] \in Nat \ {0} /\ now - 1 \in Int
      OBVIOUS
    <3> QED
      BY <3>1, Remainder
  <2> QED
    BY <2>1, <2>2, <2>3
<1>3. CASE Execute
  <2>1. /\ Len(ran') = Len(ran) /\ todo \in 1..Len(ran)
        /\ \A t \in (1..Len(ran)) \ {todo} : ran'[t] = ran[t]
        /\ ~Due(todo) => ran'[todo] = ran[todo]
        /\ Due(todo) => ran'[todo].at = sec
    BY <1>3, ExecuteFields
  <2>2. UNCHANGED <<now, ticked, tick, runner, tasks, sec, longest>> /\ runner = "cycle"
        /\ todo' = todo + 1
    BY <1>3 DEF Execute
  <2>3. longest <= 1 => ran'[todo].at >= LastDue(sec, tasks[todo])
    BY <1>0, <2>1, <2>2
  <2> QED
    BY <1>0, <2>1, <2>2, <2>3
<1>4. CASE EndCycle
  BY <1>0, <1>4 DEF EndCycle
<1>5. CASE NextCycle
  <2>1. /\ runner = "select" /\ runner' = "cycle" /\ sec' = now /\ todo' = 1
        /\ UNCHANGED <<now, tasks, ran, longest>>
    BY <1>5 DEF NextCycle, BeginCycle
  <2>2. ASSUME longest <= 1, NEW t \in 1..Len(tasks)
        PROVE  ran[t].at >= LastDue(now - 1, tasks[t])
    <3>1. now = sec \/ now = sec + 1
      BY <2>1, <2>2
    <3>2. ran[t].at >= LastDue(sec, tasks[t])
      BY <2>1, <2>2
    <3>3. CASE now = sec
      BY <1>0, <3>2, <3>3
    <3>4. CASE now = sec + 1
      <4>1. now - 1 = sec
        BY <3>4
      <4> QED
        BY <3>2, <4>1
    <3> QED
      BY <3>1, <3>3, <3>4
  <2> QED
    BY <2>1, <2>2
<1>6. CASE Ticker
  BY <1>6 DEF Ticker
<1>7. CASE Second
  <2>1. runner = "select" => ticked /\ ~tick
    BY <1>7 DEF Second
  <2> QED
    BY <1>7, <2>1 DEF Second
<1>8. CASE StopTasks
  BY <1>8 DEF StopTasks
<1>9. CASE UNCHANGED trvars
  BY <1>9 DEF trvars
<1> QED
  BY <1>1, <1>2, <1>3, <1>4, <1>5, <1>6, <1>7, <1>8, <1>9 DEF TaskRunnerNext

-----------------------------------------------------------------------------
(* The process *)

\* The types of the process's own variables.
LifeTypes ==
    /\ proc \in {"alive", "exited", "panicked", "killed"}
    /\ main \in {"boot", "booted", "wait", "stop", "defer", "done"}
    /\ {store, listener} \subseteq {"none", "open", "closed"}
    /\ redis \in {"up", "stopped", "crashed"}
    /\ stopper \in {"open", "closed"}
    /\ run \in {"off", "start", "accept", "failed", "ended"}
    /\ handler \in {"off", "idle"} \cup Signals
    /\ signals \in Seq(Signals) /\ Len(signals) <= 1
    /\ web \in {"unset", "off", "on"}
    /\ sent \in Seq(Signals)
    /\ thrown \in BOOLEAN

\* Redis crashes, or a panic that no signal has to do with.
Crash == RedisDies \/ RedisWait \/ CommandPanics \/ HeartbeatsRace

\* A step of the process, as opposed to one of the task runner.
LifeStep == MainStep \/ RunStep \/ Receive \/ Handle \/ Crash \/ \E s \in Signals : Signal(s)

\* What the invariant says of the process, without the task runner.
ProcessInv ==
    /\ LifeTypes
    /\ MainInOrder
    /\ Alive => SignalsWereSent
    /\ PanicHasCause

\* A signal that is sent joins the others.
LEMMA SignalSent ==
    ASSUME LifeTypes, NEW s \in Signals, sent' = Append(sent, s)
    PROVE  /\ sent' \in Seq(Signals)
           /\ \A x : Sent(x) \subseteq Sent(x)'
           /\ Sent(s)' # {}
           /\ Sent(s) # {} => SentTwice(s)'
           /\ \A x : SentTwice(x) => SentTwice(x)'
<1>1. /\ sent' \in Seq(Signals) /\ Len(sent) \in Nat /\ Len(sent') = Len(sent) + 1
      /\ \A k \in 1..Len(sent) : sent'[k] = sent[k]
      /\ sent'[Len(sent) + 1] = s
  BY DEF LifeTypes
<1>2. ASSUME NEW x
      PROVE  Sent(x) \subseteq Sent(x)'
  BY <1>1 DEF Sent
<1>3. Len(sent) + 1 \in Sent(s)' /\ Len(sent) + 1 \notin Sent(s)
  BY <1>1 DEF Sent
<1>4. Sent(s) # {} => SentTwice(s)'
  BY <1>2, <1>3 DEF SentTwice
<1> QED
  BY <1>1, <1>2, <1>3, <1>4 DEF SentTwice

\* The process as it begins.
LEMMA ProcessInit == Init => ProcessInv
<1> SUFFICES ASSUME Init PROVE ProcessInv
  OBVIOUS
<1>1. /\ signals \in Seq(Signals) /\ Len(signals) = 0 /\ sent \in Seq(Signals)
      /\ \A s : signals # <<s>>
  BY DEF Init
<1>2. LifeTypes
  <2>1. thrown \in BOOLEAN
    BY Zenon DEF Init
  <2>2. /\ proc = "alive" /\ main = "boot" /\ store = "none" /\ listener = "none" /\ redis = "up"
        /\ stopper = "open" /\ run = "off" /\ handler = "off" /\ web = "unset"
    BY DEF Init
  <2> QED
    BY <1>1, <2>1, <2>2 DEF LifeTypes
<1>3. MainInOrder /\ SignalsWereSent /\ PanicHasCause
  BY <1>1 DEF Init, MainInOrder, SignalsWereSent, Handled, Queued, Closed, PanicHasCause
<1> QED
  BY <1>2, <1>3 DEF ProcessInv

\* The signal that the handler takes is the one in its channel.
LEMMA ReceiveFields ==
    ASSUME LifeTypes, Receive
    PROVE  /\ handler' \in Signals
           /\ Queued(handler')
           /\ signals' \in Seq(Signals) /\ Len(signals') = 0 /\ \A s : ~Queued(s)'
           /\ UNCHANGED <<proc, main, store, listener, redis, stopper, run, web, sent, thrown>>
<1>1. Len(signals) = 1
  <2>1. signals \in Seq(Signals) /\ Len(signals) <= 1 /\ signals # << >>
    BY DEF LifeTypes, Receive
  <2>2. Len(signals) \in Nat \ {0}
    BY <2>1, EmptySeq, Zenon
  <2> QED
    BY <2>1, <2>2
<1>2. signals \in Seq(Signals)
  BY DEF LifeTypes
<1>3. signals = <<Head(signals)>> /\ Head(signals) \in Signals
  BY <1>1, <1>2
<1> QED
  BY <1>3 DEF Receive, Queued

\* Every step of the process keeps the types.
LEMMA LifeTypesStep ==
    ASSUME LifeTypes, Alive, LifeStep
    PROVE  LifeTypes'
<1> USE DEF LifeTypes
<1>1. CASE MainStep
  BY <1>1 DEF MainStep, Boot, BootFail, Go, Stop, StopStore, stopRedis
<1>2. CASE RunStep
  BY <1>2 DEF RunStep, AcceptEnds, StartSubsystems, StartFail, CloseStopper
<1>3. CASE Receive
  <2>1. /\ handler' \in Signals /\ signals' \in Seq(Signals) /\ Len(signals') = 0
        /\ UNCHANGED <<proc, main, store, listener, redis, stopper, run, web, sent, thrown>>
    BY <1>3, ReceiveFields
  <2> QED
    BY <2>1
<1>4. CASE Handle
  BY <1>4 DEF Handle, exit, reloadSame, threadDump, reloadWeb, CloseStopper, Alive
<1>5. ASSUME NEW s \in Signals, Signal(s)
      PROVE  LifeTypes'
  <2>1. sent' \in Seq(Signals)
    BY <1>5 DEF Signal
  <2>2. signals' \in Seq(Signals) /\ Len(signals') <= 1
    BY <1>5 DEF Signal
  <2> QED
    BY <1>5, <2>1, <2>2 DEF Signal
<1>6. CASE Crash
  BY <1>6 DEF Crash, RedisDies, RedisWait, CommandPanics, HeartbeatsRace
<1> QED
  BY <1>1, <1>2, <1>3, <1>4, <1>5, <1>6 DEF LifeStep

\* Every step of the process keeps the order in which the server goes down.
LEMMA MainInOrderStep ==
    ASSUME LifeTypes, MainInOrder, LifeStep
    PROVE  MainInOrder'
<1> USE DEF MainInOrder
<1>1. CASE MainStep
  BY <1>1 DEF LifeTypes, MainStep, Boot, BootFail, Go, Stop, StopStore, stopRedis
<1>2. CASE ~MainStep
  <2>1. /\ UNCHANGED <<main, store, listener>> /\ (run = "off" => run' = "off")
        /\ redis' = redis \/ redis' = "crashed"
    BY <1>2 DEF LifeStep, RunStep, AcceptEnds, StartSubsystems, StartFail, Receive, Handle, exit,
                reloadSame, threadDump, reloadWeb, Signal,
                Crash, RedisDies, RedisWait, CommandPanics, HeartbeatsRace
  <2> QED
    BY <2>1
<1> QED
  BY <1>1, <1>2

\* A signal that is handled was sent, and a panic has its cause.
LEMMA SignalsStep ==
    ASSUME LifeTypes, LifeTypes', MainInOrder, Alive, SignalsWereSent, LifeStep
    PROVE  /\ Alive' => SignalsWereSent'
           /\ PanicHasCause'
<1> USE DEF SignalsWereSent, Closed, Handled, Queued, Alive
<1>0. \A x : UNCHANGED sent => Sent(x)' = Sent(x) /\ SentTwice(x)' = SentTwice(x)
  BY DEF Sent, SentTwice
<1>1. CASE MainStep
  <2>1. /\ UNCHANGED <<stopper, signals, sent>>
        /\ handler' = handler \/ handler' = "idle"
        /\ run' = run \/ (run' = "start" /\ run = "off")
        /\ proc' # "panicked"
    <3>1. main = "booted" => run = "off"
      BY DEF MainInOrder
    <3> QED
      BY <1>1, <3>1 DEF MainStep, Boot, BootFail, Go, Stop, StopStore, stopRedis
  <2> QED
    BY <1>0, <2>1 DEF PanicHasCause
<1>2. CASE AcceptEnds \/ \E w \in {"off", "on"} : StartSubsystems(w)
  <2>1. /\ UNCHANGED <<proc, stopper, handler, signals, sent>>
        /\ run' # "failed" /\ run # "failed"
    BY <1>2 DEF AcceptEnds, StartSubsystems
  <2> QED
    BY <1>0, <2>1 DEF PanicHasCause
<1>3. ASSUME NEW w, StartFail(w)
      PROVE  /\ Alive' => SignalsWereSent'
             /\ PanicHasCause'
  <2>1. /\ UNCHANGED <<handler, signals, sent>>
        /\ run' = "failed" /\ run # "failed" /\ stopper' = "closed"
        /\ proc' = IF stopper = "closed" THEN "panicked" ELSE proc
    BY <1>3 DEF StartFail, CloseStopper
  <2> QED
    BY <1>0, <2>1 DEF PanicHasCause
<1>4. CASE Receive
  <2>1. /\ handler' \in Signals /\ signals = <<handler'>> /\ \A s : signals' # <<s>>
        /\ UNCHANGED <<proc, stopper, run, sent>>
    BY <1>4, ReceiveFields
  <2> QED
    BY <1>0, <2>1 DEF PanicHasCause
<1>5. CASE exit
  <2>1. /\ UNCHANGED <<run, signals, sent>> /\ handler = "TERM" /\ handler' = "idle"
        /\ stopper' = "closed"
        /\ proc' = IF stopper = "closed" THEN "panicked" ELSE proc
    BY <1>5 DEF exit, CloseStopper
  <2>2. CASE stopper = "closed"
    BY <1>0, <2>1, <2>2 DEF PanicHasCause, SentTwice
  <2>3. CASE stopper # "closed"
    BY <1>0, <2>1, <2>3 DEF PanicHasCause
  <2> QED
    BY <2>2, <2>3
<1>6. CASE reloadSame \/ \E w \in {"off", "on"} : reloadWeb(w)
  <2>1. /\ UNCHANGED <<run, stopper, signals, sent>> /\ handler = "HUP" /\ handler' = "idle"
        /\ proc' = "panicked" => web' # "on"
    BY <1>6 DEF reloadSame, reloadWeb
  <2> QED
    BY <1>0, <2>1 DEF PanicHasCause
<1>7. CASE threadDump
  <2>1. UNCHANGED <<proc, run, stopper, signals, sent>> /\ handler' = "idle"
    BY <1>7 DEF threadDump
  <2> QED
    BY <1>0, <2>1 DEF PanicHasCause
<1>8. ASSUME NEW s \in Signals, Signal(s)
      PROVE  /\ Alive' => SignalsWereSent'
             /\ PanicHasCause'
  <2>1. /\ sent' = Append(sent, s) /\ UNCHANGED <<stopper, run, handler>>
        /\ signals' = signals \/ signals' = <<s>>
        /\ proc' # "panicked"
    BY <1>8 DEF Signal
  <2>2. \A x : signals' = <<x>> => x = s \/ signals = <<x>>
    BY <2>1
  <2>3. /\ \A x : Sent(x) \subseteq Sent(x)'
        /\ Sent(s)' # {}
        /\ Sent(s) # {} => SentTwice(s)'
        /\ \A x : SentTwice(x) => SentTwice(x)'
    BY <2>1, SignalSent
  <2>4. PanicHasCause'
    BY <2>1 DEF PanicHasCause
  <2>5. (Handled("HUP") \/ Queued("HUP"))' => Sent("HUP")' # {}
    BY <2>1, <2>2, <2>3
  <2>6. (Closed \/ Handled("TERM") \/ Queued("TERM"))' => Sent("TERM")' # {}
    BY <2>1, <2>2, <2>3
  <2>7. \/ (Closed /\ Handled("TERM"))'
        \/ (Closed /\ Queued("TERM"))'
        \/ (Handled("TERM") /\ Queued("TERM"))'
        => SentTwice("TERM")'
    <3>1. CASE signals' = signals
      BY <2>1, <2>3, <3>1
    <3>2. CASE signals' = <<s>> /\ s = "TERM"
      BY <2>1, <2>3, <3>2
    <3>3. CASE signals' = <<s>> /\ s # "TERM"
      BY <2>1, <2>2, <2>3, <3>3
    <3> QED
      BY <2>1, <3>1, <3>2, <3>3
  <2> QED
    BY <2>4, <2>5, <2>6, <2>7
<1>9. CASE Crash
  <2>1. /\ UNCHANGED <<run, stopper, handler, signals, sent>>
        /\ proc' = "panicked" => redis' = "crashed" \/ thrown'
    BY <1>9 DEF Crash, RedisDies, RedisWait, CommandPanics, HeartbeatsRace
  <2> QED
    BY <1>0, <2>1 DEF PanicHasCause
<1> QED
  BY <1>1, <1>2, <1>3, <1>4, <1>5, <1>6, <1>7, <1>8, <1>9 DEF LifeStep, RunStep, Handle

-----------------------------------------------------------------------------
(* The theorems *)

\* The types, in two parts.
LEMMA TypesSplit == TypeOK <=> TaskRunnerTypeOK /\ LifeTypes
  BY DEF TypeOK, LifeTypes

\* The process as it begins satisfies the invariant.
LEMMA LifeInit == Init => LifeInv
<1> SUFFICES ASSUME Init PROVE LifeInv
  OBVIOUS
<1>1. TaskRunnerTypeOK /\ RoomToRun /\ NothingSkipped
  BY RunnerTypeInit, RunnerInit DEF Init
<1>2. ProcessInv
  BY ProcessInit
<1> QED
  BY <1>1, <1>2, TypesSplit DEF LifeInv, ProcessInv

\* Every step keeps it.
LEMMA LifeInvStep == LifeInv /\ [Next]_vars => LifeInv'
<1> SUFFICES ASSUME LifeInv, [Next]_vars PROVE LifeInv'
  OBVIOUS
<1> USE DEF LifeInv
<1>1. TaskRunnerTypeOK /\ LifeTypes
  BY TypesSplit
<1>0. TypeOK' <=> TaskRunnerTypeOK' /\ LifeTypes'
  BY DEF TypeOK, LifeTypes
<1>2. ASSUME UNCHANGED trvars
      PROVE  (TaskRunnerTypeOK /\ RoomToRun /\ NothingSkipped)'
  <2>1. TaskRunnerTypeOK'
    BY <1>1, <1>2, RunnerTypeStep
  <2> QED
    BY <1>1, <1>2, <2>1, RoomToRunStep, NothingSkippedStep
<1>3. ASSUME UNCHANGED lcvars
      PROVE  ProcessInv'
  BY <1>1, <1>3 DEF lcvars, ProcessInv, LifeTypes, MainInOrder, Alive, SignalsWereSent, Closed,
                   Handled, Queued, Sent, SentTwice, PanicHasCause
<1>4. CASE Alive /\ LifeStep /\ UNCHANGED trvars
  <2>1. LifeTypes'
    BY <1>1, <1>4, LifeTypesStep
  <2>2. MainInOrder'
    BY <1>1, <1>4, MainInOrderStep
  <2>3. (Alive => SignalsWereSent)' /\ PanicHasCause'
    BY <1>1, <1>4, <2>1, SignalsStep
  <2> QED
    BY <1>0, <1>2, <1>4, <2>1, <2>2, <2>3
<1>5. CASE Tasks /\ UNCHANGED lcvars
  <2>1. TaskRunnerNext \/ StopTasks
    BY <1>5 DEF Tasks
  <2>2. TaskRunnerTypeOK'
    BY <1>1, <2>1, RunnerTypeStep
  <2>3. RoomToRun' /\ NothingSkipped'
    BY <1>1, <2>1, <2>2, RoomToRunStep, NothingSkippedStep
  <2> QED
    BY <1>0, <1>3, <1>5, <2>2, <2>3 DEF ProcessInv
<1>6. CASE UNCHANGED vars
  BY <1>0, <1>2, <1>3, <1>6 DEF vars, ProcessInv
<1> QED
  BY <1>4, <1>5, <1>6 DEF Next, LifeStep, Crash

\* The invariant holds throughout.
LEMMA LifeInvariant == Spec => []LifeInv
<1>1. Init => LifeInv
  BY LifeInit
<1>2. LifeInv /\ [Next]_vars => LifeInv'
  BY LifeInvStep
<1> QED
  BY <1>1, <1>2, PTL DEF Spec

(***************************************************************************)
(* Wherever main returns from, the listener is closed before the store and *)
(* the store before Redis is stopped (Boot, Stop and the deferred stopper  *)
(* of storage.Boot).                                                       *)
(***************************************************************************)
THEOREM GoesDownInOrder == Spec => []DownInOrder
<1>1. LifeInv => DownInOrder
  BY DEF LifeInv, MainInOrder, DownInOrder, TypeOK
<1> QED
  BY <1>1, LifeInvariant, PTL

(***************************************************************************)
(* A panic of the process is due to a stopper that is closed twice, for    *)
(* which two TERMs or a TERM and a failing subsystem are needed, to a HUP  *)
(* without a running Web UI, to Redis that crashed, to a command without   *)
(* its argument or to heartbeats that changed while the Web UI read them:  *)
(* without the last three, a single TERM never ends in one.                *)
(***************************************************************************)
THEOREM PanicsForCause == Spec => []PanicHasCause
<1>1. LifeInv => PanicHasCause
  BY DEF LifeInv
<1> QED
  BY <1>1, LifeInvariant, PTL

(***************************************************************************)
(* A task is executed at most twice for one second, and once if no cycle   *)
(* has run on into the next second (taskRunner.Run and cycle).             *)
(***************************************************************************)
THEOREM RunsAtMostTwice == Spec => []AtMostTwice
<1>1. LifeInv => AtMostTwice
  BY DEF LifeInv, RoomToRun, AtMostTwice, Limit
<1> QED
  BY <1>1, LifeInvariant, PTL

(***************************************************************************)
(* As long as no cycle runs on for more than a second, every task has run  *)
(* for the last second that its period divides.                            *)
(***************************************************************************)
THEOREM RunsPunctually == Spec => []Punctual
<1>1. LifeInv => Punctual
  BY DEF LifeInv, NothingSkipped, Punctual, LastDue
<1> QED
  BY <1>1, LifeInvariant, PTL
=============================================================================
