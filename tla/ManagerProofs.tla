---------------------------- MODULE ManagerProofs ----------------------------
(***************************************************************************)
(* Proofs about Manager, for every set of jobs and connections, every      *)
(* retry attribute, timeout and batch size, and any number of crashes,     *)
(* Redis errors and extensions.  In three parts: the copies of a job; its  *)
(* reservations; and the refinement of JobLifecycle.                       *)
(***************************************************************************)
EXTENDS ManagerRefinement, TLAPS

\* A job value, entry, idle connection or idle task is well typed.
LEMMA ValueTypes ==
    /\ Nothing \in Value
    /\ \A j \in Jobs, f \in Nat : NewValue(j, f) \in Value
    /\ \A j \in Jobs, f \in Nat, x \in Nat, s \in Nat : NewEntry(j, f, x, s) \in Entry
    /\ \A e \in Entry : ValueOf(e) \in Value /\ ValueOf(e).jid = e.jid
    /\ IdleConn \in [pc : ConnStates, val : Value]
    /\ IdleTask \in [name : TaskNames, pc : TaskStates, when : Nat,
                     batch : SUBSET Entry, count : Nat, hand : Value]
    /\ NoReservation \in Reservation
<1>1. (CHOOSE j \in Jobs : TRUE) \in Jobs
  BY ManagerAssumption
<1>2. Nothing \in Value
  BY <1>1 DEF Nothing, NewValue, Value
<1> QED
  BY <1>2 DEF NewValue, Value, NewEntry, Entry, ValueOf, IdleConn, ConnStates,
     IdleTask, TaskNames, TaskStates, NoReservation, Reservation

\* The sorted set operators return members of the set they are given.
LEMMA SortedSetTypes ==
    /\ \A S, t, j, b : rem(S, t, j, b) \subseteq S
    /\ \A S, t, n : \A B \in Batches(S, t, n) : B \subseteq S
    /\ \A n \in TaskNames : Swept(n) \in SetNames
  BY DEF rem, getScore, Batches, Due, TaskNames, Swept, SetNames

\* Without shared scores RemoveElement deletes only entries of its own job.
LEMMA RemOwn ==
    ASSUME ~SharedScores, NEW S, NEW t, NEW j
    PROVE  \A e \in rem(S, t, j, SharedScores) : e.jid = j
  BY DEF rem, getScore

-----------------------------------------------------------------------------
\* The initial state is well typed.
LEMMA InitType == Init => TypeOK
  BY ValueTypes, ManagerAssumption
     DEF Init, TypeOK, SetNames, Fates

\* The jobs that connections, the task runner and reservations name.
LEMMA HandTypes ==
    ASSUME TypeOK
    PROVE  /\ \A c \in Conns : conn[c].val \in Value /\ conn[c].val.jid \in Jobs
                               /\ conn[c].val.fails \in Nat /\ conn[c].val.exp \in Nat
           /\ task.hand \in Value /\ task.hand.jid \in Jobs
           /\ task.hand.fails \in Nat /\ task.hand.exp \in Nat
           /\ \A j \in Jobs : /\ reservation[j].exp \in Nat
                              /\ reservation[j].texp \in Nat
                              /\ reservation[j].ext \in Nat
                              /\ reservation[j].fails + 1 \in Nat
<1>1. /\ \A c \in Conns : conn[c].val \in Value
      /\ task.hand \in Value
      /\ \A j \in Jobs : reservation[j] \in Reservation
  BY DEF TypeOK
<1>2. \A v \in Value : v.jid \in Jobs /\ v.fails \in Nat /\ v.exp \in Nat
  BY DEF Value
<1>3. \A r \in Reservation : /\ r.exp \in Nat /\ r.texp \in Nat
                             /\ r.ext \in Nat /\ r.fails \in Nat
  BY DEF Reservation
<1>4. \A n \in Nat : n + 1 \in Nat
  OBVIOUS
<1> QED
  BY <1>1, <1>2, <1>3, <1>4

\* retryOrBury puts the job it is given into one of the sorted sets.
LEMMA retryOrBuryEntry ==
    ASSUME TypeOK, NEW v \in Value, retryOrBury(v)
    PROVE  \E s \in SetNames : \E e \in Entry :
             e.jid = v.jid /\ zset' = [zset EXCEPT ![s] = AddElement(@, e)]
<1>1. v.jid \in Jobs /\ v.fails \in Nat
  BY DEF Value
<1>2. \A d \in Nat : now + d \in Nat
  BY DEF TypeOK
<1>3. \A d \in Nat : /\ NewEntry(v.jid, v.fails, 0, now + d) \in Entry
                     /\ NewEntry(v.jid, v.fails, 0, now + d).jid = v.jid
  BY <1>1, <1>2, ValueTypes DEF NewEntry
<1>4. "retries" \in SetNames /\ "dead" \in SetNames
  BY DEF SetNames
<1>5. ASSUME NEW d \in RetryDelays,
             zset' = [zset EXCEPT !["retries"] =
                        AddElement(@, NewEntry(v.jid, v.fails, 0, now + d))]
      PROVE  \E s \in SetNames : \E e \in Entry :
               e.jid = v.jid /\ zset' = [zset EXCEPT ![s] = AddElement(@, e)]
  <2>1. d \in Nat
    BY ManagerAssumption
  <2> QED
    BY <1>3, <1>4, <1>5, <2>1
<1>6. CASE zset' = [zset EXCEPT !["dead"] =
                      AddElement(@, NewEntry(v.jid, v.fails, 0, now + DeadTTL))]
  <2>1. DeadTTL \in Nat
    BY ManagerAssumption
  <2> QED
    BY <1>3, <1>4, <1>6, <2>1
<1> QED
  BY <1>5, <1>6 DEF retryOrBury, MayRetry

\* retryOrBury preserves the types, so that FAIL and the reaper do.
LEMMA retryOrBuryType ==
    ASSUME TypeOK, NEW v \in Value, retryOrBury(v)
    PROVE  zset' \in [SetNames -> SUBSET Entry]
<1>1. PICK s \in SetNames, e \in Entry : zset' = [zset EXCEPT ![s] = AddElement(@, e)]
  BY retryOrBuryEntry
<1> QED
  BY <1>1 DEF TypeOK, AddElement

\* Every step of a connection preserves the types.
LEMMA ConnType ==
    ASSUME TypeOK, NEW c \in Conns, ConnNext(c)
    PROVE  TypeOK'
<1> USE HandTypes DEF Hold, Idle
<1>1. CASE FetchPop(c)
  <2>1. Head(queue) \in Value /\ Tail(queue) \in Seq(Value)
    BY <1>1 DEF FetchPop, TypeOK
  <2>2. queue' \in Seq(Value)
    BY <1>1, <2>1 DEF FetchPop
  <2>3. conn' \in [Conns -> [pc : ConnStates, val : Value]]
    BY <1>1, <2>1 DEF FetchPop, TypeOK, ConnStates
  <2> QED
    BY <1>1, <2>2, <2>3 DEF FetchPop, TypeOK, memory, faults, history
<1>2. ASSUME NEW t \in Timeouts, ReserveStore(c, t)
      PROVE  TypeOK'
  <2>1. now + t \in Nat
    BY ManagerAssumption DEF TypeOK
  <2>2. NewEntry(conn[c].val.jid, conn[c].val.fails, now + t, now + t) \in Entry
    BY <2>1, ValueTypes
  <2>3. [conn[c].val EXCEPT !.exp = now + t] \in Value
    BY <2>1 DEF Value
  <2>4. zset' \in [SetNames -> SUBSET Entry]
    BY <1>2, <2>2 DEF ReserveStore, TypeOK, AddElement
  <2>5. conn' \in [Conns -> [pc : ConnStates, val : Value]]
    BY <1>2, <2>3 DEF ReserveStore, TypeOK, ConnStates
  <2> QED
    BY <1>2, <2>4, <2>5 DEF ReserveStore, TypeOK, memory, faults, history
<1>3. CASE ReserveMap(c)
  <2>1. reservation' \in [Jobs -> Reservation]
    BY <1>3 DEF ReserveMap, TypeOK, Reservation
  <2>2. deliveries' \in [Jobs -> Nat] /\ workingMap' \subseteq Jobs
    BY <1>3 DEF ReserveMap, TypeOK
  <2>3. conn' \in [Conns -> [pc : ConnStates, val : Value]]
    BY <1>3, ValueTypes DEF ReserveMap, TypeOK
  <2> QED
    BY <1>3, <2>1, <2>2, <2>3 DEF ReserveMap, TypeOK, store, faults
<1>4. ASSUME NEW j \in Jobs, AckClear(c, j)
      PROVE  TypeOK'
  <2>1. conn' \in [Conns -> [pc : ConnStates, val : Value]]
    BY <1>4, ValueTypes DEF AckClear, TypeOK, ConnStates
  <2>2. workingMap' \subseteq Jobs /\ fate' \in [Jobs -> Fates]
    BY <1>4 DEF AckClear, clearReservation, TypeOK, Fates
  <2> QED
    BY <1>4, <2>1, <2>2 DEF AckClear, TypeOK, store, faults
<1>5. ASSUME NEW j \in Jobs, FailClear(c, j)
      PROVE  TypeOK'
  <2>1. conn' \in [Conns -> [pc : ConnStates, val : Value]]
    BY <1>5, ValueTypes DEF FailClear, TypeOK, ConnStates
  <2>2. workingMap' \subseteq Jobs
    BY <1>5 DEF FailClear, clearReservation, TypeOK
  <2> QED
    BY <1>5, <2>1, <2>2 DEF FailClear, TypeOK, store, faults, history
<1>6. CASE AckRemove(c)
  <2>1. conn' \in [Conns -> [pc : ConnStates, val : Value]]
    BY <1>6, ValueTypes DEF AckRemove, TypeOK
  <2>2. zset' \in [SetNames -> SUBSET Entry]
    BY <1>6 DEF AckRemove, TypeOK
  <2>3. fate' \in [Jobs -> Fates]
    BY <1>6 DEF AckRemove, TypeOK, Fates
  <2> QED
    BY <1>6, <2>1, <2>2, <2>3 DEF AckRemove, TypeOK, memory, faults
<1>7. CASE FailRemove(c)
  <2>1. NewValue(conn[c].val.jid, reservation[conn[c].val.jid].fails + 1) \in Value
    BY ValueTypes
  <2>2. conn' \in [Conns -> [pc : ConnStates, val : Value]]
    <3>1. CASE Hold(c, "failadd", NewValue(conn[c].val.jid,
                                           reservation[conn[c].val.jid].fails + 1))
      BY <3>1, <2>1 DEF TypeOK, ConnStates
    <3>2. CASE Idle(c)
      BY <3>2, ValueTypes DEF TypeOK
    <3> QED
      BY <1>7, <3>1, <3>2 DEF FailRemove
  <2>3. zset' \in [SetNames -> SUBSET Entry]
    BY <1>7 DEF FailRemove, TypeOK
  <2>4. fate' \in [Jobs -> Fates]
    BY <1>7 DEF FailRemove, Settle, TypeOK, Fates
  <2> QED
    BY <1>7, <2>2, <2>3, <2>4 DEF FailRemove, TypeOK, memory, faults
<1>8. CASE FailStore(c)
  <2>1. conn' \in [Conns -> [pc : ConnStates, val : Value]]
    BY <1>8, ValueTypes DEF FailStore, TypeOK
  <2>2. zset' \in [SetNames -> SUBSET Entry]
    BY <1>8, retryOrBuryType DEF FailStore
  <2> QED
    BY <1>8, <2>1, <2>2 DEF FailStore, TypeOK, memory, faults, history
<1>9. CASE StoreError(c)
  <2>1. conn' \in [Conns -> [pc : ConnStates, val : Value]]
    BY <1>9, ValueTypes DEF StoreError, TypeOK
  <2>2. errs' \in Nat
    BY <1>9 DEF StoreError, TypeOK
  <2>3. fate' \in [Jobs -> Fates]
    BY <1>9 DEF StoreError, Settle, TypeOK, Fates
  <2> QED
    BY <1>9, <2>1, <2>2, <2>3 DEF StoreError, TypeOK, store, memory
<1> QED
  BY <1>1, <1>2, <1>3, <1>4, <1>5, <1>6, <1>7, <1>8, <1>9 DEF ConnNext

TaskType == [name : TaskNames, pc : TaskStates, when : Nat,
             batch : SUBSET Entry, count : Nat, hand : Value]

\* The two ways the task runner goes on.
LEMMA GotoType ==
    ASSUME TypeOK
    PROVE  /\ \A p \in TaskStates : Goto(p) => task' \in TaskType
           /\ \A n \in Nat : NextMember(n) => task' \in TaskType
<1>1. ASSUME NEW p \in TaskStates, Goto(p)
      PROVE  task' \in TaskType
  BY <1>1 DEF Goto, TypeOK, TaskType
<1>2. ASSUME NEW n \in Nat, NextMember(n)
      PROVE  task' \in TaskType
  <2>1. task.count + n \in Nat /\ "next" \in TaskStates /\ Nothing \in Value
    BY ValueTypes DEF TypeOK, TaskStates
  <2> QED
    BY <1>2, <2>1 DEF NextMember, TypeOK, TaskType
<1> QED
  BY <1>1, <1>2

\* Every step of a sweep preserves the types.
LEMMA TaskStepType ==
    ASSUME TypeOK, TaskStep
    PROVE  TypeOK'
<1> USE HandTypes
<1>1. CASE TaskScan
  <2>1. \A B \in Batches(zset[Swept(task.name)], task.when, MaxBatch) : B \in SUBSET Entry
    BY SortedSetTypes DEF TypeOK
  <2>2. task' \in TaskType
    <3>1. PICK B \in SUBSET Entry :
            task' = [task EXCEPT !.pc = "next", !.batch = B, !.count = 0]
      BY <1>1, <2>1 DEF TaskScan
    <3> QED
      BY <3>1 DEF TypeOK, TaskType, TaskStates
  <2> QED
    BY <1>1, <2>2 DEF TaskScan, TypeOK, TaskType, store, memory, faults, history
<1>2. ASSUME NEW e \in task.batch, TaskRemove(e)
      PROVE  TypeOK'
  <2>1. Swept(task.name) \in SetNames /\ e \in Entry
    BY SortedSetTypes DEF TypeOK
  <2>2. ValueOf(e) \in Value /\ e.jid \in Jobs
    BY <2>1, ValueTypes DEF Entry
  <2>3. AfterRemove(task.name) \in TaskStates
    BY DEF AfterRemove, TaskStates
  <2>4. zset' \in [SetNames -> SUBSET Entry]
    BY <1>2, <2>1 DEF TaskRemove, WasThere, TypeOK
  <2>5. fate' \in [Jobs -> Fates]
    BY <1>2, <2>2 DEF TaskRemove, WasThere, Settle, TypeOK, Fates
  <2>6. task' \in TaskType
    <3> DEFINE present == e \in zset[Swept(task.name)]
               h == IF present THEN ValueOf(e) ELSE task.hand
               p == IF present THEN AfterRemove(task.name) ELSE task.pc
               n == IF present /\ task.name = "Dead" THEN task.count + 1 ELSE task.count
    <3>1. task' = [task EXCEPT !.batch = task.batch \ {e}, !.hand = h, !.pc = p, !.count = n]
      BY <1>2 DEF TaskRemove, WasThere
    <3>2. h \in Value /\ p \in TaskStates
      BY <2>2, <2>3 DEF TypeOK
    <3>3. n \in Nat
      BY DEF TypeOK
    <3>4. task.batch \ {e} \in SUBSET Entry
      BY DEF TypeOK
    <3> HIDE DEF h, p, n
    <3> QED
      BY <3>1, <3>2, <3>3, <3>4 DEF TypeOK, TaskType
  <2> QED
    BY <1>2, <2>4, <2>5, <2>6 DEF TaskRemove, WasThere, TypeOK, TaskType, memory, faults
<1>3. CASE TaskEnqueue
  <2>1. NewValue(task.hand.jid, task.hand.fails) \in Value
    BY ValueTypes
  <2>2. Append(queue, NewValue(task.hand.jid, task.hand.fails)) \in Seq(Value)
    BY <2>1 DEF TypeOK
  <2>3. queue' \in Seq(Value)
    BY <1>3, <2>2 DEF TaskEnqueue
  <2>4. task' \in TaskType
    BY <1>3, GotoType DEF TaskEnqueue
  <2> QED
    BY <1>3, <2>3, <2>4 DEF TaskEnqueue, TypeOK, TaskType, memory, faults, history
<1>4. CASE ReapCheck
  <2>1. task' \in TaskType
    BY <1>4, GotoType DEF ReapCheck, TaskStates
  <2>2. reservation' \in [Jobs -> Reservation]
    <3>1. CASE UNCHANGED reservation
      BY <3>1 DEF TypeOK
    <3> DEFINE r == reservation[task.hand.jid]
    <3>2. CASE reservation' = [reservation EXCEPT ![task.hand.jid] =
                                 [@ EXCEPT !.exp = r.ext, !.texp = r.ext]]
      <4>1. [r EXCEPT !.exp = r.ext, !.texp = r.ext] \in Reservation
        BY ZenonT(60) DEF TypeOK, Reservation
      <4> QED
        BY <3>2, <4>1 DEF TypeOK
    <3> QED
      BY <1>4, <3>1, <3>2 DEF ReapCheck
  <2> QED
    BY <1>4, <2>1, <2>2 DEF ReapCheck, TypeOK, TaskType, store, faults, history
<1>5. CASE ReapExtend
  <2>1. NewEntry(task.hand.jid, task.hand.fails, task.hand.exp,
                 reservation[task.hand.jid].exp) \in Entry
    BY ValueTypes
  <2>2. zset' \in [SetNames -> SUBSET Entry]
    BY <1>5, <2>1 DEF ReapExtend, AddElement, TypeOK
  <2>3. task' \in TaskType
    BY <1>5, GotoType DEF ReapExtend
  <2> QED
    BY <1>5, <2>2, <2>3 DEF ReapExtend, TypeOK, TaskType, memory, faults, history
<1>6. CASE ReapClear
  <2>1. NewValue(task.hand.jid, reservation[task.hand.jid].fails + 1) \in Value
    BY ValueTypes
  <2>2. task' \in TaskType
    <3>1. CASE NextMember(0) \/ NextMember(1)
      BY <3>1, GotoType
    <3>2. CASE task' = [task EXCEPT !.pc = "store",
                          !.hand = NewValue(task.hand.jid, reservation[task.hand.jid].fails + 1)]
      BY <3>2, <2>1 DEF TypeOK, TaskType, TaskStates
    <3> QED
      BY <1>6, <3>1, <3>2 DEF ReapClear
  <2>3. workingMap' \subseteq Jobs /\ fate' \in [Jobs -> Fates]
    BY <1>6 DEF ReapClear, clearReservation, Settle, TypeOK, Fates
  <2> QED
    BY <1>6, <2>2, <2>3 DEF ReapClear, TypeOK, TaskType, store, faults
<1>7. CASE ReapStore
  <2>1. task' \in TaskType
    BY <1>7, GotoType DEF ReapStore
  <2>2. zset' \in [SetNames -> SUBSET Entry]
    BY <1>7, retryOrBuryType DEF ReapStore
  <2> QED
    BY <1>7, <2>1, <2>2 DEF ReapStore, TypeOK, TaskType, memory, faults, history
<1>8. CASE TaskEnd
  <2>1. task' \in TaskType
    BY <1>8, GotoType, ValueTypes DEF TaskEnd, TaskStates, TaskType
  <2> QED
    BY <1>8, <2>1 DEF TaskEnd, TypeOK, TaskType, store, memory, faults, history
<1> QED
  BY <1>1, <1>2, <1>3, <1>4, <1>5, <1>6, <1>7, <1>8 DEF TaskStep

\* Every step preserves the types.
LEMMA NextType == TypeOK /\ [Next]_vars => TypeOK'
<1> SUFFICES ASSUME TypeOK, [Next]_vars
             PROVE  TypeOK'
  OBVIOUS
<1>1. ASSUME NEW j \in Jobs, NEW d \in ScheduleDelays \cup {0}, Push(j, d)
      PROVE  TypeOK'
  <2>1. now + d \in Nat
    BY ManagerAssumption DEF TypeOK
  <2>2. NewEntry(j, 0, 0, now + d) \in Entry /\ NewValue(j, 0) \in Value
    BY <2>1, ValueTypes
  <2>3. Append(queue, NewValue(j, 0)) \in Seq(Value)
    BY <2>2 DEF TypeOK
  <2>4. queue' \in Seq(Value)
    BY <1>1, <2>3 DEF Push, TypeOK
  <2>5. zset' \in [SetNames -> SUBSET Entry]
    BY <1>1, <2>2, SMTT(40) DEF Push, AddElement, TypeOK
  <2>6. fate' \in [Jobs -> Fates]
    BY <1>1 DEF Push, TypeOK, Fates
  <2> QED
    BY <1>1, <2>4, <2>5, <2>6 DEF Push, TypeOK, memory, faults
<1>2. ASSUME NEW j \in Jobs, PushError(j)
      PROVE  TypeOK'
  BY <1>2 DEF PushError, TypeOK, Fates, store, memory
<1>3. ASSUME NEW c \in Conns, ConnNext(c)
      PROVE  TypeOK'
  BY <1>3, ConnType
<1>4. ASSUME NEW j \in Jobs, NEW x \in Extensions, ExtendReservation(j, x)
      PROVE  TypeOK'
  <2>1. now + x \in Nat
    BY ManagerAssumption DEF TypeOK
  <2>2. reservation' \in [Jobs -> Reservation]
    BY <1>4, <2>1 DEF ExtendReservation, TypeOK, Reservation
  <2> QED
    BY <1>4, <2>2 DEF ExtendReservation, TypeOK, store, faults, history
<1>5. ASSUME NEW n \in TaskNames, TaskStart(n)
      PROVE  TypeOK'
  <2>1. task' \in TaskType
    BY <1>5 DEF TaskStart, TypeOK, TaskType, TaskStates
  <2> QED
    BY <1>5, <2>1 DEF TaskStart, TypeOK, TaskType, store, memory, faults, history
<1>6. CASE TaskStep
  BY <1>6, TaskStepType
<1>7. CASE TaskError
  <2>1. task' \in TaskType
    BY <1>7, GotoType, ValueTypes DEF TaskError, TaskType
  <2>2. errs' \in Nat
    BY <1>7 DEF TaskError, TypeOK
  <2>3. fate' \in [Jobs -> Fates]
    BY <1>7, HandTypes DEF TaskError, Settle, TypeOK, Fates
  <2> QED
    BY <1>7, <2>1, <2>2, <2>3 DEF TaskError, TypeOK, TaskType, store, memory
<1>8. CASE Crash
  <2>1. /\ conn' \in [Conns -> [pc : ConnStates, val : Value]]
        /\ task' \in TaskType
        /\ reservation' \in [Jobs -> Reservation]
    BY <1>8, ValueTypes DEF Crash, TaskType
  <2>2. fate' \in [Jobs -> Fates]
    BY <1>8 DEF Crash, TypeOK, Fates
  <2>3. crashes' \in Nat
    BY <1>8 DEF Crash, TypeOK
  <2>4. up' \in BOOLEAN /\ workingMap' \subseteq Jobs
    BY <1>8 DEF Crash
  <2> QED
    BY <1>8, <2>1, <2>2, <2>3, <2>4 DEF Crash, TypeOK, TaskType, store
<1>9. CASE Boot
  <2>1. zset["working"] \subseteq Entry
    BY DEF TypeOK, SetNames
  <2>2. workingMap' \subseteq Jobs
    BY <1>9, <2>1 DEF Boot, Loaded, Entry
  <2>3. \A j \in Jobs : j \in workingMap' => Restored(j) \in Reservation
    <3> SUFFICES ASSUME NEW j \in Jobs, j \in workingMap'
                 PROVE  Restored(j) \in Reservation
      OBVIOUS
    <3>1. (CHOOSE x \in zset["working"] : x.jid = j) \in zset["working"]
      BY <1>9 DEF Boot, Loaded
    <3> QED
      BY <2>1, <3>1 DEF Restored, Reservation, Entry
  <2>4. reservation' \in [Jobs -> Reservation]
    BY <1>9, <2>3, ValueTypes DEF Boot, Loaded
  <2> QED
    BY <1>9, <2>2, <2>4 DEF Boot, Loaded, TypeOK, store, history
<1>10. CASE Tick
  BY <1>10 DEF Tick, TypeOK, store, memory, faults, history
<1>11. CASE UNCHANGED vars
  BY <1>11 DEF vars, TypeOK
<1> QED
  BY <1>1, <1>2, <1>3, <1>4, <1>5, <1>6, <1>7, <1>8, <1>9, <1>10, <1>11 DEF Next

(***************************************************************************)
(* The manager's state is well typed in every behaviour: every job a       *)
(* connection, a sweep, a queue or a sorted set holds is a job, with a     *)
(* natural number of failures.                                             *)
(***************************************************************************)
THEOREM Typing == Spec => []TypeOK
  BY InitType, NextType, PTL DEF Spec

-----------------------------------------------------------------------------
(***************************************************************************)
(* Where the jobs are.  AtMostOneCopy and Accounted speak about four kinds *)
(* of places; the lemmas below say how each kind of place changes, once    *)
(* and for all actions.                                                    *)
(***************************************************************************)

\* A step that leaves the queue alone: the same jobs are in it.
LEMMA QueueSame ==
    ASSUME UNCHANGED queue
    PROVE  /\ \A j \in Jobs : InQueue(j)' <=> InQueue(j)
           /\ OnceInQueue => OnceInQueue'
  BY DEF InQueue, OnceInQueue

\* A step that leaves the sorted sets alone: the same jobs are in them.
LEMMA SetsSame ==
    ASSUME UNCHANGED zset
    PROVE  /\ \A s \in SetNames, j \in Jobs : InSet(s, j)' <=> InSet(s, j)
           /\ OnceInSets => OnceInSets'
  BY DEF InSet, OnceInSets

\* A step that leaves the connections alone: they hold the same jobs.
LEMMA HandsSame ==
    ASSUME UNCHANGED conn
    PROVE  \A c \in Conns, j \in Jobs : InHand(c, j)' <=> InHand(c, j)
  BY DEF InHand, ConnHolds

\* A step that leaves the task runner alone: it holds the same job.
LEMMA SweepSame ==
    ASSUME UNCHANGED task
    PROVE  \A j \in Jobs : InSweep(j)' <=> InSweep(j)
  BY DEF InSweep, TaskHolds

\* LPUSH puts one job into the queue.
LEMMA QueueAppend ==
    ASSUME queue \in Seq(Value), NEW v \in Value, queue' = Append(queue, v)
    PROVE  /\ \A j \in Jobs : InQueue(j)' <=> InQueue(j) \/ j = v.jid
           /\ OnceInQueue /\ ~InQueue(v.jid) => OnceInQueue'
<1>1. /\ Len(queue') = Len(queue) + 1
      /\ Len(queue) \in Nat
      /\ \A i \in 1..Len(queue) : queue'[i] = queue[i]
      /\ queue'[Len(queue) + 1] = v
  OBVIOUS
<1>2. \A i : i \in 1..Len(queue') <=> i \in 1..Len(queue) \/ i = Len(queue) + 1
  BY <1>1
<1>3. \A j \in Jobs : InQueue(j)' <=> InQueue(j) \/ j = v.jid
  BY <1>1, <1>2 DEF InQueue
<1>4. ASSUME OnceInQueue, ~InQueue(v.jid)
      PROVE  OnceInQueue'
  BY <1>1, <1>2, <1>4 DEF InQueue, OnceInQueue
<1> QED
  BY <1>3, <1>4

\* BRPOP takes one job from the queue.
LEMMA QueueTail ==
    ASSUME queue \in Seq(Value), queue # << >>, queue' = Tail(queue)
    PROVE  /\ \A j \in Jobs : InQueue(j) <=> InQueue(j)' \/ j = Head(queue).jid
           /\ OnceInQueue => OnceInQueue'
           /\ OnceInQueue => \A j \in Jobs : j = Head(queue).jid => ~InQueue(j)'
<1>1. /\ Len(queue) \in Nat
      /\ Len(queue) > 0
      /\ Len(queue') = Len(queue) - 1
      /\ \A i \in 1..Len(queue') : queue'[i] = queue[i + 1]
      /\ Head(queue) = queue[1]
  OBVIOUS
<1>2. \A i \in 1..Len(queue) : i = 1 \/ (i - 1 \in 1..Len(queue') /\ queue[i] = queue'[i - 1])
  BY <1>1
<1>3. \A i \in 1..Len(queue') : i + 1 \in 1..Len(queue) /\ i + 1 # 1
  BY <1>1
<1>4. 1 \in 1..Len(queue)
  BY <1>1
<1>5. \A j \in Jobs : InQueue(j) <=> InQueue(j)' \/ j = Head(queue).jid
  BY <1>1, <1>2, <1>3, <1>4, SMTT(40) DEF InQueue
<1>6. ASSUME OnceInQueue
      PROVE  OnceInQueue'
  <2>1. \A i, k \in 1..Len(queue') : i + 1 = k + 1 => i = k
    BY <1>1
  <2> QED
    BY <1>1, <1>3, <1>6, <2>1 DEF OnceInQueue
<1>7. ASSUME OnceInQueue
      PROVE  \A j \in Jobs : j = Head(queue).jid => ~InQueue(j)'
  <2>1. \A i \in 1..Len(queue') : queue[i + 1].jid # queue[1].jid
    BY <1>3, <1>4, <1>7 DEF OnceInQueue
  <2> QED
    BY <1>1, <2>1 DEF InQueue
<1> QED
  BY <1>5, <1>6, <1>7

\* ZADD puts one job into one set.
LEMMA SetAdd ==
    ASSUME TypeOK, NEW s0 \in SetNames, NEW e0 \in Entry,
           zset' = [zset EXCEPT ![s0] = AddElement(@, e0)]
    PROVE  /\ \A s \in SetNames, j \in Jobs :
                InSet(s, j)' <=> InSet(s, j) \/ (s = s0 /\ j = e0.jid)
           /\ OnceInSets /\ (\A s \in SetNames : ~InSet(s, e0.jid)) => OnceInSets'
<1>1. /\ zset'[s0] = zset[s0] \cup {e0}
      /\ \A s \in SetNames : s # s0 => zset'[s] = zset[s]
  BY DEF TypeOK, AddElement
<1>2. \A s \in SetNames, j \in Jobs :
        InSet(s, j)' <=> InSet(s, j) \/ (s = s0 /\ j = e0.jid)
  <2>1. \A j \in Jobs : InSet(s0, j)' <=> InSet(s0, j) \/ j = e0.jid
    BY <1>1 DEF InSet
  <2>2. \A s \in SetNames, j \in Jobs : s # s0 => (InSet(s, j)' <=> InSet(s, j))
    BY <1>1 DEF InSet
  <2> QED
    BY <2>1, <2>2
<1>3. ASSUME OnceInSets, \A s \in SetNames : ~InSet(s, e0.jid)
      PROVE  OnceInSets'
  <2>1. \A s \in SetNames : \A e \in zset[s] : e.jid # e0.jid
    BY <1>3 DEF InSet
  <2> SUFFICES ASSUME NEW s \in SetNames, NEW t \in SetNames,
                      NEW e \in zset'[s], NEW f \in zset'[t], e.jid = f.jid
               PROVE  s = t /\ e = f
    BY DEF OnceInSets
  <2>2. /\ e \in zset[s] \/ (e = e0 /\ s = s0)
        /\ f \in zset[t] \/ (f = e0 /\ t = s0)
    BY <1>1
  <2> QED
    BY <1>3, <2>1, <2>2 DEF OnceInSets
<1> QED
  BY <1>2, <1>3

\* ZREM takes entries of one job from one set.
LEMMA SetRemove ==
    ASSUME TypeOK, NEW s0 \in SetNames, NEW j0 \in Jobs, NEW D,
           \A e \in D : e.jid = j0,
           zset' = [zset EXCEPT ![s0] = @ \ D]
    PROVE  /\ \A s \in SetNames, j \in Jobs : InSet(s, j)' => InSet(s, j)
           /\ \A s \in SetNames, j \in Jobs : j # j0 => (InSet(s, j)' <=> InSet(s, j))
           /\ OnceInSets => OnceInSets'
           /\ \A e \in D : OnceInSets /\ e \in zset[s0] =>
                InSet(s0, j0) /\ \A s \in SetNames : ~InSet(s, j0)'
<1>1. \A s \in SetNames : zset'[s] = IF s = s0 THEN zset[s] \ D ELSE zset[s]
  BY DEF TypeOK
<1> QED
  BY <1>1 DEF InSet, OnceInSets

\* A connection changes what it holds.
LEMMA HandChange ==
    ASSUME TypeOK, NEW c0 \in Conns, NEW p, NEW v, Hold(c0, p, v)
    PROVE  \A c \in Conns, j \in Jobs :
             InHand(c, j)' <=> IF c = c0 THEN p \in {"popped", "failadd"} /\ v.jid = j
                               ELSE InHand(c, j)
  BY DEF TypeOK, Hold, InHand, ConnHolds

\* A connection that ends its command holds no job.
LEMMA HandIdle ==
    ASSUME TypeOK, NEW c0 \in Conns, Idle(c0)
    PROVE  \A c \in Conns, j \in Jobs : InHand(c, j)' <=> c # c0 /\ InHand(c, j)
  BY DEF TypeOK, Idle, IdleConn, InHand, ConnHolds

\* The task runner lets go of what it holds.
LEMMA SweepDone ==
    ASSUME TypeOK, task' = IdleTask \/ Goto("scan") \/ \E n \in Nat : NextMember(n)
    PROVE  \A j \in Jobs : ~InSweep(j)'
<1>1. CASE task' = IdleTask
  BY <1>1 DEF IdleTask, InSweep, TaskHolds
<1>2. CASE Goto("scan")
  BY <1>2 DEF TypeOK, Goto, InSweep, TaskHolds
<1>3. ASSUME NEW n \in Nat, NextMember(n)
      PROVE  \A j \in Jobs : ~InSweep(j)'
  <2>1. task'.pc = "next"
    BY <1>3 DEF TypeOK, NextMember
  <2> QED
    BY <2>1 DEF InSweep, TaskHolds
<1> QED
  BY <1>1, <1>2, <1>3

-----------------------------------------------------------------------------
\* A job that was not pushed yet is nowhere.
UnbornIsNowhere == \A j \in Jobs : fate[j] = "unborn" => ~Exists(j)

\* The inductive invariant: every job is in one place while it is live, and
\* in none before it is pushed.
Custody == AtMostOneCopy /\ UnbornIsNowhere /\ Accounted

\* What a step owes the invariant, once AtMostOneCopy is known to survive it.
LEMMA CustodyStep ==
    ASSUME Custody, AtMostOneCopy',
           \A j \in Jobs : Exists(j)' => Exists(j),
           \A j \in Jobs : Exists(j) /\ fate'[j] = "live" => Exists(j)',
           \A j \in Jobs : fate'[j] = "unborn" => fate[j] = "unborn",
           \A j \in Jobs : fate'[j] = "live" => fate[j] = "live"
    PROVE  Custody'
  BY DEF Custody, UnbornIsNowhere, Accounted

\* A settled job is not live, and nobody else's fate changes.
LEMMA SettleFate ==
    ASSUME TypeOK, NEW j \in Jobs, NEW f \in Fates \ {"live", "unborn"}, Settle(j, f)
    PROVE  /\ \A i \in Jobs : fate'[i] = "live" => fate[i] = "live" /\ i # j
           /\ \A i \in Jobs : fate'[i] = "unborn" => fate[i] = "unborn"
  BY DEF TypeOK, Settle

\* A step that only takes jobs away keeps AtMostOneCopy.
LEMMA Shrink ==
    ASSUME AtMostOneCopy, OnceInQueue', OnceInSets',
           \A j \in Jobs : InQueue(j)' => InQueue(j),
           \A s \in SetNames, j \in Jobs : InSet(s, j)' => InSet(s, j),
           \A c \in Conns, j \in Jobs : InHand(c, j)' => InHand(c, j),
           \A j \in Jobs : InSweep(j)' => InSweep(j)
    PROVE  AtMostOneCopy' /\ \A j \in Jobs : Exists(j)' => Exists(j)
<1>1. OnceInHands' /\ QueueOnly' /\ HandsOnly' /\ SweepOnly'
  BY DEF AtMostOneCopy, OnceInHands, QueueOnly, HandsOnly, SweepOnly
<1>2. \A j \in Jobs : Exists(j)' => Exists(j)
  BY DEF Exists
<1> QED
  BY <1>1, <1>2 DEF AtMostOneCopy

\* A step that leaves every job where it is.
LEMMA Still ==
    ASSUME Custody, UNCHANGED <<queue, zset>>,
           \A c \in Conns, j \in Jobs : InHand(c, j)' <=> InHand(c, j),
           \A j \in Jobs : InSweep(j)' <=> InSweep(j),
           \A j \in Jobs : fate'[j] = "unborn" => fate[j] = "unborn",
           \A j \in Jobs : fate'[j] = "live" => fate[j] = "live"
    PROVE  Custody'
<1>1. /\ OnceInQueue' /\ OnceInSets'
      /\ \A j \in Jobs : InQueue(j)' <=> InQueue(j)
      /\ \A s \in SetNames, j \in Jobs : InSet(s, j)' <=> InSet(s, j)
  BY QueueSame, SetsSame DEF Custody, AtMostOneCopy
<1>2. AtMostOneCopy' /\ \A j \in Jobs : Exists(j)' => Exists(j)
  BY <1>1, Shrink DEF Custody
<1>3. \A j \in Jobs : Exists(j) => Exists(j)'
  BY <1>1 DEF Exists
<1> QED
  BY <1>2, <1>3, CustodyStep

\* A job that is nowhere, or only in the hands that let go of it, enters one
\* of the sorted sets.
LEMMA IntoSet ==
    ASSUME TypeOK, AtMostOneCopy, UNCHANGED queue,
           NEW s0 \in SetNames, NEW e0 \in Entry,
           zset' = [zset EXCEPT ![s0] = AddElement(@, e0)],
           ~InQueue(e0.jid),
           \A s \in SetNames : ~InSet(s, e0.jid),
           \A c \in Conns, j \in Jobs : InHand(c, j)' <=> InHand(c, j) /\ j # e0.jid,
           \A j \in Jobs : InSweep(j)' <=> InSweep(j) /\ j # e0.jid
    PROVE  /\ AtMostOneCopy'
           /\ \A j \in Jobs : Exists(j)' <=> Exists(j) \/ j = e0.jid
<1>1. /\ OnceInQueue' /\ OnceInSets'
      /\ \A j \in Jobs : InQueue(j)' <=> InQueue(j)
      /\ \A s \in SetNames, j \in Jobs :
           InSet(s, j)' <=> InSet(s, j) \/ (s = s0 /\ j = e0.jid)
  BY QueueSame, SetAdd DEF AtMostOneCopy
<1>2. OnceInHands' /\ QueueOnly' /\ HandsOnly' /\ SweepOnly'
  BY <1>1 DEF AtMostOneCopy, OnceInHands, QueueOnly, HandsOnly, SweepOnly
<1>3. \A j \in Jobs : Exists(j)' <=> Exists(j) \/ j = e0.jid
  BY <1>1 DEF Exists
<1> QED
  BY <1>1, <1>2, <1>3 DEF AtMostOneCopy

\* The same for the queue.
LEMMA IntoQueue ==
    ASSUME TypeOK, AtMostOneCopy, UNCHANGED zset,
           NEW v \in Value,
           queue' = Append(queue, v),
           ~InQueue(v.jid),
           \A s \in SetNames : ~InSet(s, v.jid),
           \A c \in Conns, j \in Jobs : InHand(c, j)' <=> InHand(c, j) /\ j # v.jid,
           \A j \in Jobs : InSweep(j)' <=> InSweep(j) /\ j # v.jid
    PROVE  /\ AtMostOneCopy'
           /\ \A j \in Jobs : Exists(j)' <=> Exists(j) \/ j = v.jid
<1>1. /\ OnceInQueue' /\ OnceInSets'
      /\ \A j \in Jobs : InQueue(j)' <=> InQueue(j) \/ j = v.jid
      /\ \A s \in SetNames, j \in Jobs : InSet(s, j)' <=> InSet(s, j)
  <2>1. queue \in Seq(Value)
    BY DEF TypeOK
  <2> QED
    BY <2>1, SetsSame, QueueAppend DEF AtMostOneCopy
<1>2. OnceInHands' /\ QueueOnly' /\ HandsOnly' /\ SweepOnly'
  BY <1>1 DEF AtMostOneCopy, OnceInHands, QueueOnly, HandsOnly, SweepOnly
<1>3. \A j \in Jobs : Exists(j)' <=> Exists(j) \/ j = v.jid
  BY <1>1 DEF Exists
<1> QED
  BY <1>1, <1>2, <1>3 DEF AtMostOneCopy

-----------------------------------------------------------------------------
\* The commands of the connections keep every job in one place.
LEMMA ConnCustody ==
    ASSUME ~SharedScores, TypeOK, Custody, NEW c \in Conns, ConnNext(c)
    PROVE  Custody'
<1> DEFINE h == conn[c].val.jid
<1>0. h \in Jobs /\ conn[c].val \in Value
  BY HandTypes
<1>1. CASE FetchPop(c)
  <2>1. /\ queue \in Seq(Value) /\ queue # << >> /\ queue' = Tail(queue)
        /\ Head(queue).jid \in Jobs
    <3>1. queue \in Seq(Value) /\ queue # << >> /\ queue' = Tail(queue)
      BY <1>1 DEF FetchPop, TypeOK
    <3>2. Head(queue) \in Value
      BY <3>1
    <3> QED
      BY <3>1, <3>2 DEF Value
  <2> DEFINE q == Head(queue).jid
  <2>2. /\ OnceInQueue'
        /\ \A j \in Jobs : InQueue(j) <=> InQueue(j)' \/ j = q
        /\ \A j \in Jobs : j = q => ~InQueue(j)'
    BY <2>1, QueueTail DEF Custody, AtMostOneCopy
  <2>3. /\ OnceInSets'
        /\ \A s \in SetNames, j \in Jobs : InSet(s, j)' <=> InSet(s, j)
    BY <1>1, SetsSame DEF FetchPop, Custody, AtMostOneCopy
  <2>4. \A d \in Conns, j \in Jobs : InHand(d, j)' <=> IF d = c THEN j = q ELSE InHand(d, j)
    BY <1>1, HandChange DEF FetchPop
  <2>5. \A j \in Jobs : InSweep(j)' <=> InSweep(j)
    BY <1>1, SweepSame DEF FetchPop
  <2>6. \A j \in Jobs : ~InHand(c, j)
    BY <1>1 DEF FetchPop, InHand, ConnHolds
  <2>7. q \in Jobs /\ InQueue(q)
    BY <2>1, <2>2
  <2> HIDE DEF q
  <2>8. AtMostOneCopy'
    BY <2>2, <2>3, <2>4, <2>5, <2>7
       DEF Custody, AtMostOneCopy, OnceInHands, QueueOnly, HandsOnly, SweepOnly
  <2>9. \A j \in Jobs : Exists(j)' <=> Exists(j)
    BY <2>2, <2>3, <2>4, <2>5, <2>6, <2>7 DEF Exists
  <2>10. UNCHANGED fate
    BY <1>1 DEF FetchPop, history
  <2> QED
    BY <2>8, <2>9, <2>10, CustodyStep
<1>2. ASSUME NEW t \in Timeouts, ReserveStore(c, t)
      PROVE  Custody'
  <2> DEFINE e0 == NewEntry(h, conn[c].val.fails, now + t, now + t)
  <2>1. InHand(c, h)
    BY <1>2 DEF ReserveStore, InHand, ConnHolds
  <2>2. /\ e0 \in Entry /\ e0.jid = h
        /\ zset' = [zset EXCEPT !["working"] = AddElement(@, e0)]
    <3>1. now + t \in Nat
      BY ManagerAssumption DEF TypeOK
    <3>2. e0 \in Entry
      BY <3>1, HandTypes, ValueTypes
    <3> QED
      BY <1>2, <3>2 DEF ReserveStore, NewEntry
  <2>3. \A d \in Conns, j \in Jobs : InHand(d, j)' <=> d # c /\ InHand(d, j)
    BY <1>2, HandChange DEF ReserveStore
  <2>4. \A d \in Conns, j \in Jobs : InHand(d, j)' <=> InHand(d, j) /\ j # h
    BY <2>1, <2>3, <1>0 DEF Custody, AtMostOneCopy, OnceInHands, InHand
  <2>5. \A j \in Jobs : InSweep(j)' <=> InSweep(j)
    BY <1>2, SweepSame DEF ReserveStore
  <2>6. /\ ~InQueue(h) /\ ~InSweep(h)
        /\ \A s \in SetNames : ~InSet(s, h)
    BY <2>1, <1>0 DEF Custody, AtMostOneCopy, QueueOnly, HandsOnly
  <2>7. UNCHANGED <<queue, fate>>
    BY <1>2 DEF ReserveStore, history
  <2>8. Exists(h)
    BY <2>1 DEF Exists
  <2>9. "working" \in SetNames
    BY DEF SetNames
  <2> HIDE DEF e0, h
  <2>10. AtMostOneCopy' /\ \A j \in Jobs : Exists(j)' <=> Exists(j) \/ j = h
    BY <2>2, <2>4, <2>5, <2>6, <2>7, <2>9, <1>0, IntoSet DEF Custody
  <2> QED
    BY <2>7, <2>8, <2>10, CustodyStep
<1>3. CASE ReserveMap(c)
  <2>1. \A d \in Conns, j \in Jobs : InHand(d, j)' <=> InHand(d, j)
    BY <1>3, HandIdle DEF ReserveMap, InHand, ConnHolds
  <2>2. \A j \in Jobs : InSweep(j)' <=> InSweep(j)
    BY <1>3, SweepSame DEF ReserveMap
  <2> QED
    BY <1>3, <2>1, <2>2, Still DEF ReserveMap, store
<1>4. ASSUME NEW j \in Jobs, AckClear(c, j) \/ FailClear(c, j)
      PROVE  Custody'
  <2>1. \A d \in Conns, i \in Jobs : InHand(d, i)' <=> InHand(d, i)
    BY <1>4, HandChange DEF AckClear, FailClear, InHand, ConnHolds
  <2>2. \A i \in Jobs : InSweep(i)' <=> InSweep(i)
    BY <1>4, SweepSame DEF AckClear, FailClear
  <2>3. /\ \A i \in Jobs : fate'[i] = "unborn" => fate[i] = "unborn"
        /\ \A i \in Jobs : fate'[i] = "live" => fate[i] = "live"
    BY <1>4 DEF AckClear, FailClear, TypeOK, history
  <2> QED
    BY <1>4, <2>1, <2>2, <2>3, Still DEF AckClear, FailClear, store
<1>5. CASE AckRemove(c)
  <2>1. \A e \in Found(h) : e.jid = h
    BY RemOwn DEF Found
  <2>2. /\ OnceInSets'
        /\ \A s \in SetNames, j \in Jobs : InSet(s, j)' => InSet(s, j)
        /\ \A s \in SetNames, j \in Jobs : j # h => (InSet(s, j)' <=> InSet(s, j))
    <3>1. "working" \in SetNames /\ zset' = [zset EXCEPT !["working"] = @ \ Found(h)]
      BY <1>5 DEF AckRemove, SetNames
    <3> HIDE DEF h
    <3> QED
      BY <1>0, <2>1, <3>1, SetRemove DEF Custody, AtMostOneCopy
  <2>3. \A d \in Conns, j \in Jobs : InHand(d, j)' <=> InHand(d, j)
    BY <1>5, HandIdle DEF AckRemove, InHand, ConnHolds
  <2>4. \A j \in Jobs : InSweep(j)' <=> InSweep(j)
    BY <1>5, SweepSame DEF AckRemove
  <2>5. /\ OnceInQueue'
        /\ \A j \in Jobs : InQueue(j)' <=> InQueue(j)
    BY <1>5, QueueSame DEF AckRemove, Custody, AtMostOneCopy
  <2>6. /\ \A j \in Jobs : fate'[j] = "unborn" => fate[j] = "unborn"
        /\ \A j \in Jobs : fate'[j] = "live" => fate[j] = "live" /\ j # h
    BY <1>0, <1>5 DEF AckRemove, TypeOK
  <2> HIDE DEF h
  <2>7. AtMostOneCopy' /\ \A j \in Jobs : Exists(j)' => Exists(j)
    BY <2>2, <2>3, <2>4, <2>5, Shrink DEF Custody
  <2>8. \A j \in Jobs : Exists(j) /\ j # h => Exists(j)'
    BY <2>2, <2>3, <2>4, <2>5 DEF Exists
  <2> QED
    BY <2>6, <2>7, <2>8, CustodyStep
<1>6. CASE FailRemove(c)
  <2>1. \A e \in Found(h) : e.jid = h
    BY RemOwn DEF Found
  <2>2. /\ OnceInSets'
        /\ \A s \in SetNames, j \in Jobs : InSet(s, j)' => InSet(s, j)
        /\ \A s \in SetNames, j \in Jobs : j # h => (InSet(s, j)' <=> InSet(s, j))
        /\ \A e \in Found(h) : e \in zset["working"] =>
              InSet("working", h) /\ \A s \in SetNames, j \in Jobs : j = h => ~InSet(s, j)'
    <3>1. "working" \in SetNames /\ zset' = [zset EXCEPT !["working"] = @ \ Found(h)]
      BY <1>6 DEF FailRemove, SetNames
    <3> HIDE DEF h
    <3>2. OnceInSets
      BY DEF Custody, AtMostOneCopy
    <3> QED
      BY <1>0, <2>1, <3>1, <3>2, SetRemove
  <2>3. Found(h) \subseteq zset["working"]
    BY SortedSetTypes DEF Found
  <2>4. \A j \in Jobs : InSweep(j)' <=> InSweep(j)
    BY <1>6, SweepSame DEF FailRemove
  <2>5. /\ OnceInQueue'
        /\ \A j \in Jobs : InQueue(j)' <=> InQueue(j)
    BY <1>6, QueueSame DEF FailRemove, Custody, AtMostOneCopy
  <2>6. \A j \in Jobs : ~InHand(c, j)
    BY <1>6 DEF FailRemove, InHand, ConnHolds
  <2>7. CASE Found(h) # {} /\ Retry[h] # 0
    <3>1. InSet("working", h) /\ \A s \in SetNames, j \in Jobs : j = h => ~InSet(s, j)'
      BY <2>2, <2>3, <2>7
    <3>2. \A d \in Conns, j \in Jobs : InHand(d, j)' <=> IF d = c THEN j = h ELSE InHand(d, j)
      <4>1. Hold(c, "failadd", NewValue(h, reservation[h].fails + 1))
        BY <1>6, <2>7 DEF FailRemove
      <4> QED
        BY <4>1, HandChange DEF NewValue
    <3>3. UNCHANGED fate
      BY <1>6, <2>7 DEF FailRemove
    <3>4. "working" \in SetNames
      BY DEF SetNames
    <3> HIDE DEF h
    <3>5. AtMostOneCopy'
      <4>1. ~InQueue(h) /\ ~InSweep(h) /\ \A d \in Conns : ~InHand(d, h)
        BY <1>0, <3>1, <3>4 DEF Custody, AtMostOneCopy, QueueOnly, HandsOnly, SweepOnly
      <4>2. OnceInHands'
        BY <3>2, <4>1 DEF Custody, AtMostOneCopy, OnceInHands
      <4>3. QueueOnly' /\ SweepOnly'
        BY <2>2, <2>4, <2>5, <3>2, <4>1 DEF Custody, AtMostOneCopy, QueueOnly, SweepOnly
      <4>4. HandsOnly'
        <5> SUFFICES ASSUME NEW j \in Jobs, NEW d \in Conns, InHand(d, j)'
                     PROVE  /\ \A s \in SetNames : ~InSet(s, j)'
                            /\ ~InSweep(j)'
          BY DEF HandsOnly
        <5>1. CASE d = c
          BY <2>4, <3>1, <3>2, <4>1, <5>1
        <5>2. CASE d # c
          BY <2>2, <2>4, <3>2, <5>2 DEF Custody, AtMostOneCopy, HandsOnly
        <5> QED
          BY <5>1, <5>2
      <4> QED
        BY <2>2, <2>5, <4>2, <4>3, <4>4 DEF AtMostOneCopy
    <3>6. \A j \in Jobs : Exists(j)' <=> Exists(j)
      BY <1>0, <2>2, <2>4, <2>5, <2>6, <3>1, <3>2, <3>4 DEF Exists
    <3> QED
      BY <3>3, <3>5, <3>6, CustodyStep
  <2>8. CASE ~(Found(h) # {} /\ Retry[h] # 0)
    <3>1. \A d \in Conns, j \in Jobs : InHand(d, j)' <=> InHand(d, j)
      <4>1. Idle(c)
        BY <1>6, <2>8 DEF FailRemove
      <4> QED
        BY <4>1, <2>6, HandIdle
    <3>2. /\ \A j \in Jobs : fate'[j] = "unborn" => fate[j] = "unborn"
          /\ \A j \in Jobs : fate'[j] = "live" => fate[j] = "live"
          /\ Found(h) # {} => fate'[h] # "live"
      <4>1. CASE Settle(h, "ephemeral")
        BY <1>0, <4>1, SettleFate DEF Fates
      <4>2. CASE Found(h) = {} /\ UNCHANGED fate
        BY <4>2
      <4> QED
        BY <1>6, <2>8, <4>1, <4>2 DEF FailRemove
    <3>3. AtMostOneCopy' /\ \A j \in Jobs : Exists(j)' => Exists(j)
      BY <2>2, <2>4, <2>5, <3>1, Shrink DEF Custody
    <3>4. Found(h) = {} => zset' = zset
      BY <1>6 DEF FailRemove, TypeOK
    <3>5. \A s \in SetNames, j \in Jobs : j # h \/ Found(h) = {} => (InSet(s, j)' <=> InSet(s, j))
      BY <2>2, <3>4, SetsSame
    <3> HIDE DEF h
    <3>6. \A j \in Jobs : Exists(j) /\ fate'[j] = "live" => Exists(j)'
      BY <1>0, <2>4, <2>5, <3>1, <3>2, <3>5 DEF Exists
    <3> QED
      BY <3>2, <3>3, <3>6, CustodyStep
  <2> QED
    BY <2>7, <2>8
<1>7. CASE FailStore(c)
  <2>1. InHand(c, h)
    BY <1>7 DEF FailStore, InHand, ConnHolds
  <2>2. \E s \in SetNames : \E e \in Entry :
          e.jid = h /\ zset' = [zset EXCEPT ![s] = AddElement(@, e)]
    BY <1>0, <1>7, retryOrBuryEntry DEF FailStore
  <2>3. \A d \in Conns, j \in Jobs : InHand(d, j)' <=> d # c /\ InHand(d, j)
    BY <1>7, HandIdle DEF FailStore
  <2>4. \A d \in Conns, j \in Jobs : InHand(d, j)' <=> InHand(d, j) /\ j # h
    BY <2>1, <2>3, <1>0 DEF Custody, AtMostOneCopy, OnceInHands, InHand
  <2>5. \A j \in Jobs : InSweep(j)' <=> InSweep(j)
    BY <1>7, SweepSame DEF FailStore
  <2>6. /\ ~InQueue(h) /\ ~InSweep(h)
        /\ \A s \in SetNames : ~InSet(s, h)
    BY <2>1, <1>0 DEF Custody, AtMostOneCopy, QueueOnly, HandsOnly
  <2>7. UNCHANGED <<queue, fate>>
    BY <1>7 DEF FailStore, history
  <2>8. Exists(h)
    BY <2>1 DEF Exists
  <2> HIDE DEF h
  <2>9. AtMostOneCopy' /\ \A j \in Jobs : Exists(j)' <=> Exists(j) \/ j = h
    <3>1. PICK s0 \in SetNames, e0 \in Entry :
            e0.jid = h /\ zset' = [zset EXCEPT ![s0] = AddElement(@, e0)]
      BY <2>2
    <3> QED
      BY <2>4, <2>5, <2>6, <2>7, <3>1, <1>0, IntoSet DEF Custody
  <2> QED
    BY <2>7, <2>8, <2>9, CustodyStep
<1>8. CASE StoreError(c)
  <2>1. \A d \in Conns, j \in Jobs : InHand(d, j)' <=> d # c /\ InHand(d, j)
    BY <1>8, HandIdle DEF StoreError
  <2>2. \A j \in Jobs : InSweep(j)' <=> InSweep(j)
    BY <1>8, SweepSame DEF StoreError
  <2>3. /\ OnceInQueue' /\ OnceInSets'
        /\ \A j \in Jobs : InQueue(j)' <=> InQueue(j)
        /\ \A s \in SetNames, j \in Jobs : InSet(s, j)' <=> InSet(s, j)
    BY <1>8, QueueSame, SetsSame DEF StoreError, store, Custody, AtMostOneCopy
  <2>4. /\ \A j \in Jobs : fate'[j] = "unborn" => fate[j] = "unborn"
        /\ \A j \in Jobs : fate'[j] = "live" => fate[j] = "live" /\ ~InHand(c, j)
    <3>1. CASE conn[c].pc \in {"popped", "failadd"}
      <4>1. Settle(h, "storeerr")
        BY <1>8, <3>1 DEF StoreError
      <4> QED
        BY <1>0, <4>1, SettleFate DEF Fates, InHand
    <3>2. CASE conn[c].pc \notin {"popped", "failadd"}
      BY <1>8, <3>2 DEF StoreError, InHand, ConnHolds
    <3> QED
      BY <3>1, <3>2
  <2>5. AtMostOneCopy' /\ \A j \in Jobs : Exists(j)' => Exists(j)
    BY <2>1, <2>2, <2>3, Shrink DEF Custody
  <2>6. \A j \in Jobs : Exists(j) /\ fate'[j] = "live" => Exists(j)'
    BY <2>1, <2>2, <2>3, <2>4 DEF Exists
  <2> QED
    BY <2>4, <2>5, <2>6, CustodyStep
<1> QED
  BY <1>1, <1>2, <1>3, <1>4, <1>5, <1>6, <1>7, <1>8 DEF ConnNext

\* The sweeps keep every job in one place.
LEMMA TaskCustody ==
    ASSUME TypeOK, Custody, TaskStep
    PROVE  Custody'
<1> DEFINE h == task.hand.jid
<1>0. h \in Jobs /\ task.hand \in Value
  BY HandTypes
<1>1. CASE TaskScan \/ TaskEnd
  <2>1. \A j \in Jobs : InSweep(j)' <=> InSweep(j)
    <3>1. CASE TaskScan
      BY <3>1 DEF TaskScan, TypeOK, InSweep, TaskHolds
    <3>2. CASE TaskEnd
      <4>1. \A j \in Jobs : ~InSweep(j)'
        BY <3>2, SweepDone DEF TaskEnd
      <4> QED
        BY <3>2, <4>1 DEF TaskEnd, InSweep, TaskHolds
    <3> QED
      BY <1>1, <3>1, <3>2
  <2>2. \A c \in Conns, j \in Jobs : InHand(c, j)' <=> InHand(c, j)
    BY <1>1, HandsSame DEF TaskScan, TaskEnd
  <2> QED
    BY <1>1, <2>1, <2>2, Still DEF TaskScan, TaskEnd, store, history
<1>2. ASSUME NEW e \in task.batch, TaskRemove(e)
      PROVE  Custody'
  <2> DEFINE s0 == Swept(task.name)
             j0 == e.jid
  <2>1. s0 \in SetNames /\ j0 \in Jobs /\ e \in Entry /\ task.pc = "next"
    BY <1>2, SortedSetTypes DEF TypeOK, Entry, TaskRemove, WasThere
  <2>2. zset' = [zset EXCEPT ![s0] = @ \ {e}]
    BY <1>2 DEF TaskRemove, WasThere
  <2>3. \A j \in Jobs : ~InSweep(j)
    BY <2>1 DEF InSweep, TaskHolds
  <2>4. \A c \in Conns, j \in Jobs : InHand(c, j)' <=> InHand(c, j)
    BY <1>2, HandsSame DEF TaskRemove, WasThere
  <2>5. /\ OnceInQueue'
        /\ \A j \in Jobs : InQueue(j)' <=> InQueue(j)
    BY <1>2, QueueSame DEF TaskRemove, WasThere, Custody, AtMostOneCopy
  <2>6. /\ OnceInSets'
        /\ \A s \in SetNames, j \in Jobs : InSet(s, j)' => InSet(s, j)
        /\ \A s \in SetNames, j \in Jobs : j # j0 => (InSet(s, j)' <=> InSet(s, j))
        /\ e \in zset[s0] => InSet(s0, j0) /\ \A s \in SetNames : ~InSet(s, j0)'
    <3>1. OnceInSets
      BY DEF Custody, AtMostOneCopy
    <3>2. (\A x \in {e} : x.jid = j0) /\ e \in {e}
      OBVIOUS
    <3> HIDE DEF j0, s0
    <3>3. /\ \A s \in SetNames, j \in Jobs : InSet(s, j)' => InSet(s, j)
          /\ \A s \in SetNames, j \in Jobs : j # j0 => (InSet(s, j)' <=> InSet(s, j))
          /\ OnceInSets => OnceInSets'
          /\ \A x \in {e} : OnceInSets /\ x \in zset[s0] =>
               InSet(s0, j0) /\ \A s \in SetNames : ~InSet(s, j0)'
      BY <2>1, <2>2, <3>2, SetRemove
    <3> QED
      BY <3>1, <3>3
  <2>7. CASE e \notin zset[s0]
    <3>1. zset' = zset /\ UNCHANGED fate
      BY <1>2, <2>2, <2>7 DEF TaskRemove, WasThere, TypeOK
    <3>2. task'.pc = "next"
      BY <1>2, <2>1, <2>7 DEF TaskRemove, WasThere, TypeOK
    <3>3. \A j \in Jobs : InSweep(j)' <=> InSweep(j)
      BY <2>3, <3>2 DEF InSweep, TaskHolds
    <3> QED
      BY <1>2, <2>4, <3>1, <3>3, Still DEF TaskRemove, WasThere
  <2>8. CASE e \in zset[s0] /\ task.name = "Dead"
    <3>1. task'.pc = "next"
      BY <1>2, <2>1, <2>8 DEF TaskRemove, WasThere, TypeOK, AfterRemove
    <3>2. \A j \in Jobs : InSweep(j)' <=> InSweep(j)
      BY <2>3, <3>1 DEF InSweep, TaskHolds
    <3>3. Settle(j0, "purged")
      BY <1>2, <2>8 DEF TaskRemove, WasThere
    <3>4. /\ \A j \in Jobs : fate'[j] = "unborn" => fate[j] = "unborn"
          /\ \A j \in Jobs : fate'[j] = "live" => fate[j] = "live" /\ j # j0
      BY <2>1, <3>3, SettleFate DEF Fates
    <3>5. AtMostOneCopy' /\ \A j \in Jobs : Exists(j)' => Exists(j)
      BY <2>4, <2>5, <2>6, <3>2, Shrink DEF Custody
    <3>6. \A j \in Jobs : Exists(j) /\ j # j0 => Exists(j)'
      BY <2>4, <2>5, <2>6, <3>2 DEF Exists
    <3> QED
      BY <3>4, <3>5, <3>6, CustodyStep
  <2>9. CASE e \in zset[s0] /\ task.name # "Dead"
    <3>1. task'.hand = ValueOf(e) /\ task'.pc \in {"check", "enqueue"}
      BY <1>2, <2>1, <2>9 DEF TaskRemove, WasThere, TypeOK, AfterRemove
    <3>2. \A j \in Jobs : InSweep(j)' <=> j = j0
      BY <2>1, <3>1, ValueTypes DEF InSweep, TaskHolds
    <3>3. InSet(s0, j0) /\ \A s \in SetNames : ~InSet(s, j0)'
      BY <2>6, <2>9
    <3>4. ~InQueue(j0) /\ \A c \in Conns : ~InHand(c, j0)
      BY <2>1, <3>3 DEF Custody, AtMostOneCopy, QueueOnly, HandsOnly
    <3>5. UNCHANGED fate
      BY <1>2, <2>9 DEF TaskRemove, WasThere
    <3> HIDE DEF j0, s0
    <3>6. OnceInHands' /\ QueueOnly' /\ HandsOnly'
      BY <2>4, <2>5, <2>6, <3>2, <3>4
         DEF Custody, AtMostOneCopy, OnceInHands, QueueOnly, HandsOnly
    <3>7. SweepOnly'
      BY <3>2, <3>3 DEF SweepOnly
    <3>8. AtMostOneCopy'
      BY <2>5, <2>6, <3>6, <3>7 DEF AtMostOneCopy
    <3>9. \A j \in Jobs : Exists(j)' <=> Exists(j)
      BY <2>1, <2>3, <2>4, <2>5, <2>6, <3>2, <3>3 DEF Exists
    <3> QED
      BY <3>5, <3>8, <3>9, CustodyStep
  <2> QED
    BY <2>7, <2>8, <2>9
<1>3. CASE TaskEnqueue
  <2> DEFINE v == NewValue(h, task.hand.fails)
  <2>1. InSweep(h)
    BY <1>3 DEF TaskEnqueue, InSweep, TaskHolds
  <2>2. v \in Value /\ v.jid = h /\ queue' = Append(queue, v)
    BY <1>0, <1>3, HandTypes, ValueTypes DEF TaskEnqueue, NewValue
  <2>3. \A j \in Jobs : ~InSweep(j)' /\ (InSweep(j) => j = h)
    BY <1>3, SweepDone DEF TaskEnqueue, InSweep
  <2>4. /\ \A c \in Conns, j \in Jobs : InHand(c, j)' <=> InHand(c, j)
        /\ UNCHANGED <<zset, fate>>
    BY <1>3, HandsSame DEF TaskEnqueue, history
  <2>5. /\ ~InQueue(h)
        /\ \A c \in Conns : ~InHand(c, h)
        /\ \A s \in SetNames : ~InSet(s, h)
    BY <1>0, <2>1 DEF Custody, AtMostOneCopy, QueueOnly, HandsOnly, SweepOnly
  <2>6. Exists(h)
    BY <2>1 DEF Exists
  <2> HIDE DEF v, h
  <2>7. AtMostOneCopy' /\ \A j \in Jobs : Exists(j)' <=> Exists(j) \/ j = h
    BY <1>0, <2>2, <2>3, <2>4, <2>5, IntoQueue DEF Custody
  <2> QED
    BY <2>4, <2>6, <2>7, CustodyStep
<1>4. CASE ReapCheck
  <2>1. \A j \in Jobs : InSweep(j)' <=> InSweep(j)
    BY <1>4 DEF ReapCheck, Goto, TypeOK, InSweep, TaskHolds
  <2>2. \A c \in Conns, j \in Jobs : InHand(c, j)' <=> InHand(c, j)
    BY <1>4, HandsSame DEF ReapCheck
  <2> QED
    BY <1>4, <2>1, <2>2, Still DEF ReapCheck, store, history
<1>5. CASE ReapExtend \/ ReapStore
  <2>1. InSweep(h)
    BY <1>5 DEF ReapExtend, ReapStore, InSweep, TaskHolds
  <2>2. \E s \in SetNames : \E e \in Entry :
          e.jid = h /\ zset' = [zset EXCEPT ![s] = AddElement(@, e)]
    <3>1. CASE ReapStore
      BY <1>0, <3>1, retryOrBuryEntry DEF ReapStore
    <3>2. CASE ReapExtend
      <4> DEFINE e0 == NewEntry(h, task.hand.fails, task.hand.exp, reservation[h].exp)
      <4>1. e0 \in Entry /\ "working" \in SetNames
        BY <1>0, HandTypes, ValueTypes DEF SetNames
      <4>2. e0.jid = h /\ zset' = [zset EXCEPT !["working"] = AddElement(@, e0)]
        BY <3>2 DEF ReapExtend, NewEntry
      <4> HIDE DEF e0
      <4> QED
        BY <4>1, <4>2
    <3> QED
      BY <1>5, <3>1, <3>2
  <2>3. \A j \in Jobs : ~InSweep(j)' /\ (InSweep(j) => j = h)
    BY <1>5, SweepDone DEF ReapExtend, ReapStore, InSweep
  <2>4. /\ \A c \in Conns, j \in Jobs : InHand(c, j)' <=> InHand(c, j)
        /\ UNCHANGED <<queue, fate>>
    BY <1>5, HandsSame DEF ReapExtend, ReapStore, history
  <2>5. /\ ~InQueue(h)
        /\ \A c \in Conns : ~InHand(c, h)
        /\ \A s \in SetNames : ~InSet(s, h)
    BY <1>0, <2>1 DEF Custody, AtMostOneCopy, QueueOnly, HandsOnly, SweepOnly
  <2>6. Exists(h)
    BY <2>1 DEF Exists
  <2> HIDE DEF h
  <2>7. AtMostOneCopy' /\ \A j \in Jobs : Exists(j)' <=> Exists(j) \/ j = h
    <3>1. PICK s0 \in SetNames, e0 \in Entry :
            e0.jid = h /\ zset' = [zset EXCEPT ![s0] = AddElement(@, e0)]
      BY <2>2
    <3> QED
      BY <1>0, <2>3, <2>4, <2>5, <3>1, IntoSet DEF Custody
  <2> QED
    BY <2>4, <2>6, <2>7, CustodyStep
<1>6. CASE ReapClear
  <2>1. InSweep(h) /\ \A j \in Jobs : InSweep(j) => j = h
    BY <1>6 DEF ReapClear, InSweep, TaskHolds
  <2>2. /\ \A c \in Conns, j \in Jobs : InHand(c, j)' <=> InHand(c, j)
        /\ UNCHANGED <<queue, zset>>
    BY <1>6, HandsSame DEF ReapClear, store
  <2>3. CASE UNCHANGED fate /\ task' = [task EXCEPT !.pc = "store",
                                 !.hand = NewValue(h, reservation[h].fails + 1)]
    <3>1. \A j \in Jobs : InSweep(j)' <=> InSweep(j)
      BY <2>1, <2>3 DEF TypeOK, InSweep, TaskHolds, NewValue
    <3> QED
      BY <2>2, <2>3, <3>1, Still
  <2>4. CASE (NextMember(0) \/ NextMember(1)) /\ (Settle(h, "raced") \/ Settle(h, "ephemeral"))
    <3>1. \A j \in Jobs : ~InSweep(j)'
      BY <2>4, SweepDone
    <3>2. /\ \A j \in Jobs : fate'[j] = "unborn" => fate[j] = "unborn"
          /\ \A j \in Jobs : fate'[j] = "live" => fate[j] = "live" /\ j # h
      BY <1>0, <2>4, SettleFate DEF Fates
    <3>3. /\ OnceInQueue' /\ OnceInSets'
          /\ \A j \in Jobs : InQueue(j)' <=> InQueue(j)
          /\ \A s \in SetNames, j \in Jobs : InSet(s, j)' <=> InSet(s, j)
      BY <2>2, QueueSame, SetsSame DEF Custody, AtMostOneCopy
    <3> HIDE DEF h
    <3>4. AtMostOneCopy' /\ \A j \in Jobs : Exists(j)' => Exists(j)
      BY <2>2, <3>1, <3>3, Shrink DEF Custody
    <3>5. \A j \in Jobs : Exists(j) /\ j # h => Exists(j)'
      BY <2>1, <2>2, <3>3 DEF Exists
    <3> QED
      BY <3>2, <3>4, <3>5, CustodyStep
  <2> QED
    BY <1>6, <2>3, <2>4 DEF ReapClear
<1> QED
  BY <1>1, <1>2, <1>3, <1>4, <1>5, <1>6 DEF TaskStep

\* Every step keeps every job in one place.
LEMMA NextCustody ==
    ASSUME ~SharedScores, TypeOK, Custody, [Next]_vars
    PROVE  Custody'
<1>1. ASSUME NEW j \in Jobs, NEW d \in ScheduleDelays \cup {0}, Push(j, d)
      PROVE  Custody'
  <2>1. ~Exists(j) /\ fate[j] = "unborn"
    BY <1>1 DEF Push, Custody, UnbornIsNowhere
  <2>2. /\ ~InQueue(j) /\ ~InSweep(j)
        /\ \A s \in SetNames : ~InSet(s, j)
        /\ \A c \in Conns : ~InHand(c, j)
    BY <2>1 DEF Exists
  <2>3. /\ \A c \in Conns, i \in Jobs : InHand(c, i)' <=> InHand(c, i)
        /\ \A i \in Jobs : InSweep(i)' <=> InSweep(i)
    BY <1>1, HandsSame, SweepSame DEF Push
  <2>4. \A i \in Jobs : i # j => fate'[i] = fate[i]
    BY <1>1 DEF Push, TypeOK
  <2>5. fate'[j] = "live"
    BY <1>1 DEF Push, TypeOK
  <2>6. AtMostOneCopy' /\ \A i \in Jobs : Exists(i)' <=> Exists(i) \/ i = j
    <3>1. CASE d > 0
      <4> DEFINE e0 == NewEntry(j, 0, 0, now + d)
      <4>1. now + d \in Nat
        BY ManagerAssumption DEF TypeOK
      <4>2. e0 \in Entry /\ e0.jid = j /\ "scheduled" \in SetNames
        BY <4>1, ValueTypes DEF NewEntry, SetNames
      <4>3. UNCHANGED queue /\ zset' = [zset EXCEPT !["scheduled"] = AddElement(@, e0)]
        BY <1>1, <3>1 DEF Push
      <4> HIDE DEF e0
      <4> QED
        BY <2>2, <2>3, <4>2, <4>3, IntoSet DEF Custody
    <3>2. CASE d = 0
      <4> DEFINE v == NewValue(j, 0)
      <4>1. v \in Value /\ v.jid = j
        BY ValueTypes DEF NewValue
      <4>2. UNCHANGED zset /\ queue' = Append(queue, v)
        BY <1>1, <3>2 DEF Push
      <4> HIDE DEF v
      <4> QED
        BY <2>2, <2>3, <4>1, <4>2, IntoQueue DEF Custody
    <3> QED
      BY <1>1, <3>1, <3>2 DEF Push
  <2> QED
    BY <2>4, <2>5, <2>6 DEF Custody, UnbornIsNowhere, Accounted
<1>2. ASSUME NEW j \in Jobs, PushError(j)
      PROVE  Custody'
  <2>1. /\ \A i \in Jobs : fate'[i] = "unborn" => fate[i] = "unborn"
        /\ \A i \in Jobs : fate'[i] = "live" => fate[i] = "live"
    BY <1>2 DEF PushError, TypeOK
  <2>2. /\ \A c \in Conns, i \in Jobs : InHand(c, i)' <=> InHand(c, i)
        /\ \A i \in Jobs : InSweep(i)' <=> InSweep(i)
    BY <1>2, HandsSame, SweepSame DEF PushError
  <2> QED
    BY <1>2, <2>1, <2>2, Still DEF PushError, store
<1>3. ASSUME NEW c \in Conns, ConnNext(c)
      PROVE  Custody'
  BY <1>3, ConnCustody
<1>4. CASE TaskStep
  BY <1>4, TaskCustody
<1>5. CASE TaskError
  <2>1. \A c \in Conns, j \in Jobs : InHand(c, j)' <=> InHand(c, j)
    BY <1>5, HandsSame DEF TaskError
  <2>2. \A j \in Jobs : ~InSweep(j)'
    BY <1>5, SweepDone DEF TaskError
  <2>3. /\ OnceInQueue' /\ OnceInSets'
        /\ \A j \in Jobs : InQueue(j)' <=> InQueue(j)
        /\ \A s \in SetNames, j \in Jobs : InSet(s, j)' <=> InSet(s, j)
    BY <1>5, QueueSame, SetsSame DEF TaskError, store, Custody, AtMostOneCopy
  <2>4. /\ \A j \in Jobs : fate'[j] = "unborn" => fate[j] = "unborn"
        /\ \A j \in Jobs : fate'[j] = "live" => fate[j] = "live" /\ ~InSweep(j)
    <3>1. CASE task.pc \in {"scan", "next"}
      BY <1>5, <3>1 DEF TaskError, InSweep, TaskHolds
    <3>2. CASE task.pc \notin {"scan", "next"}
      <4>1. Settle(task.hand.jid, "storeerr")
        BY <1>5, <3>2 DEF TaskError
      <4> QED
        BY <4>1, HandTypes, SettleFate DEF Fates, InSweep
    <3> QED
      BY <3>1, <3>2
  <2>5. AtMostOneCopy' /\ \A j \in Jobs : Exists(j)' => Exists(j)
    BY <2>1, <2>2, <2>3, Shrink DEF Custody
  <2>6. \A j \in Jobs : Exists(j) /\ fate'[j] = "live" => Exists(j)'
    BY <2>1, <2>2, <2>3, <2>4 DEF Exists
  <2> QED
    BY <2>4, <2>5, <2>6, CustodyStep
<1>6. CASE Crash
  <2>1. \A c \in Conns, j \in Jobs : ~InHand(c, j)'
    BY <1>6 DEF Crash, IdleConn, InHand, ConnHolds
  <2>2. \A j \in Jobs : ~InSweep(j)'
    BY <1>6, SweepDone DEF Crash
  <2>3. /\ OnceInQueue' /\ OnceInSets'
        /\ \A j \in Jobs : InQueue(j)' <=> InQueue(j)
        /\ \A s \in SetNames, j \in Jobs : InSet(s, j)' <=> InSet(s, j)
    BY <1>6, QueueSame, SetsSame DEF Crash, store, Custody, AtMostOneCopy
  <2>4. /\ \A j \in Jobs : fate'[j] = "unborn" => fate[j] = "unborn"
        /\ \A j \in Jobs : fate'[j] = "live" =>
             fate[j] = "live" /\ ~InSweep(j) /\ \A c \in Conns : ~InHand(c, j)
    BY <1>6 DEF Crash, InSweep, InHand
  <2>5. AtMostOneCopy' /\ \A j \in Jobs : Exists(j)' => Exists(j)
    BY <2>1, <2>2, <2>3, Shrink DEF Custody
  <2>6. \A j \in Jobs : Exists(j) /\ fate'[j] = "live" => Exists(j)'
    BY <2>3, <2>4 DEF Exists
  <2> QED
    BY <2>4, <2>5, <2>6, CustodyStep
<1>7. ASSUME NEW n \in TaskNames, TaskStart(n)
      PROVE  Custody'
  <2>1. \A j \in Jobs : InSweep(j)' <=> InSweep(j)
    BY <1>7 DEF TaskStart, TypeOK, InSweep, TaskHolds
  <2>2. \A c \in Conns, j \in Jobs : InHand(c, j)' <=> InHand(c, j)
    BY <1>7, HandsSame DEF TaskStart
  <2> QED
    BY <1>7, <2>1, <2>2, Still DEF TaskStart, store, history
<1>8. CASE UNCHANGED <<queue, zset, conn, task, fate>>
  BY <1>8, HandsSame, SweepSame, Still
<1>9. ASSUME NEW j \in Jobs, NEW x \in Extensions, ExtendReservation(j, x)
      PROVE  Custody'
  BY <1>8, <1>9 DEF ExtendReservation, store, history
<1>10. CASE Boot
  BY <1>8, <1>10 DEF Boot, Loaded, store, history
<1>11. CASE Tick
  BY <1>8, <1>11 DEF Tick, store, history
<1>12. CASE UNCHANGED vars
  BY <1>8, <1>12 DEF vars
<1> QED
  BY <1>1, <1>2, <1>3, <1>4, <1>5, <1>6, <1>7, <1>9, <1>10, <1>11, <1>12 DEF Next

\* Nothing is anywhere at the start.
LEMMA InitCustody == Init => Custody
  BY DEF Init, Custody, AtMostOneCopy, OnceInQueue, OnceInSets, OnceInHands,
     QueueOnly, HandsOnly, SweepOnly, UnbornIsNowhere, Accounted, Exists,
     InQueue, InSet, InHand, InSweep, ConnHolds, TaskHolds, IdleConn, IdleTask

(***************************************************************************)
(* A job is never copied: however commands, sweeps, extensions, crashes    *)
(* and Redis errors interleave, it is in at most one place, provided two   *)
(* jobs never have the same float64 score in the working set.              *)
(***************************************************************************)
THEOREM OneCopy ==
    ASSUME ~SharedScores
    PROVE  Spec => []AtMostOneCopy
<1>1. Init => TypeOK /\ Custody
  BY InitType, InitCustody
<1>2. TypeOK /\ Custody /\ [Next]_vars => TypeOK' /\ Custody'
  BY NextType, NextCustody
<1>3. Custody => AtMostOneCopy
  BY DEF Custody
<1> QED
  BY <1>1, <1>2, <1>3, PTL DEF Spec

(***************************************************************************)
(* A job that was accepted and not settled is somewhere in Redis or in the *)
(* hands of a command or sweep: the losses that fate names are the only    *)
(* ones.                                                                   *)
(***************************************************************************)
THEOREM NothingVanishes ==
    ASSUME ~SharedScores
    PROVE  Spec => []Accounted
<1>1. Init => TypeOK /\ Custody
  BY InitType, InitCustody
<1>2. TypeOK /\ Custody /\ [Next]_vars => TypeOK' /\ Custody'
  BY NextType, NextCustody
<1>3. Custody => Accounted
  BY DEF Custody
<1> QED
  BY <1>1, <1>2, <1>3, PTL DEF Spec

-----------------------------------------------------------------------------
(***************************************************************************)
(* Second part.  The reservations of Manager: who may act on a job, when a *)
(* reservation ends, and how often a job is handed out.                    *)
(***************************************************************************)

(* The inductive invariant *)

\* A command that has put job j's reservation into the working set, or has
\* taken it from workingMap, and is not yet done with it.
Ticket(c, j) == conn[c].pc \in {"stored", "ackrem", "failrem"} /\ conn[c].val.jid = j

\* The job is where no worker has it.
Loose(j) ==
    \/ InQueue(j)
    \/ \E s \in SetNames \ {"working"} : InSet(s, j)
    \/ \E c \in Conns : InHand(c, j)
    \/ InSweep(j) /\ task.pc \in {"enqueue", "store"}

\* The right to decide about a job is in workingMap or with one command, and
\* nobody has it while the job waits somewhere.
OneTicket(j) ==
    /\ j \in workingMap => \A c \in Conns : ~Ticket(c, j)
    /\ \A c, d \in Conns : Ticket(c, j) /\ Ticket(d, j) => c = d
    /\ (j \in workingMap \/ \E c \in Conns : Ticket(c, j)) =>
          ~Loose(j) /\ fate[j] # "unborn"

Tickets == \A j \in Jobs : OneTicket(j)

\* Between the two statements of reserve the entry is in the working set and
\* not due.
StoredInSet ==
    \A c \in Conns : conn[c].pc = "stored" =>
        LET v == conn[c].val IN
        /\ now < v.exp
        /\ NewEntry(v.jid, v.fails, v.exp, v.exp) \in zset["working"]

\* A sweep reads what is due at the time it began.
SweepTimes == task.when <= now /\ \A e \in task.batch : e.score <= task.when

\* The expiry in memory is never later than the score of the entry.
Expiries ==
    /\ \A e \in zset["working"] :
         e.exp <= e.score /\ (e.jid \in workingMap => reservation[e.jid].exp <= e.score)
    /\ task.pc \in {"check", "clear", "extend"} => task.hand.exp <= task.when
    /\ task.pc \in {"check", "clear"} /\ task.hand.jid \in workingMap =>
         reservation[task.hand.jid].exp <= task.when
    /\ task.pc = "extend" => task.when < reservation[task.hand.jid].exp

\* A process that is down runs no command and no sweep.
Down == ~up => /\ \A c \in Conns : conn[c].pc = "idle"
               /\ task.pc = "idle"
               /\ workingMap = {}

\* How often a job may fail and still be enqueued again.
Limit(j) == IF Retry[j] > 0 THEN Retry[j] ELSE 0

\* A copy of a job that was not handed out since its last failure, that was,
\* and whose failure is counted but not stored; n are the job's deliveries.
Early(n, v) == n <= v.fails /\ v.fails <= Limit(v.jid)
Given(n, v) == n <= v.fails + 1
Failed(n, v) == n <= v.fails

\* Every delivery but the last is a failure recorded in the job, wherever it is.
EarlyCopies ==
    /\ \A i \in 1..Len(queue) : Early(deliveries[queue[i].jid], queue[i])
    /\ \A s \in {"scheduled", "retries"} : \A e \in zset[s] : Early(deliveries[e.jid], e)
    /\ \A c \in Conns : conn[c].pc \in {"popped", "stored"} =>
          Early(deliveries[conn[c].val.jid], conn[c].val)
    /\ task.pc = "enqueue" => Early(deliveries[task.hand.jid], task.hand)
GivenCopies ==
    /\ \A e \in zset["working"] : Given(deliveries[e.jid], e)
    /\ task.pc \in {"check", "clear", "extend"} => Given(deliveries[task.hand.jid], task.hand)
    /\ \A j \in workingMap : Given(deliveries[j], reservation[j])
    /\ \A c \in Conns : conn[c].pc = "failrem" =>
          Given(deliveries[conn[c].val.jid], reservation[conn[c].val.jid])
FailedCopies ==
    /\ \A c \in Conns : conn[c].pc = "failadd" => Failed(deliveries[conn[c].val.jid], conn[c].val)
    /\ task.pc = "store" => Failed(deliveries[task.hand.jid], task.hand)
UnbornUngiven == \A j \in Jobs : fate[j] = "unborn" => deliveries[j] = 0

Counted == EarlyCopies /\ GivenCopies /\ FailedCopies /\ UnbornUngiven /\ DeliveryBudget

ReserveInv == Tickets /\ StoredInSet /\ SweepTimes /\ Expiries /\ Down

-----------------------------------------------------------------------------
(* Without extensions *)

\* Nothing is ever extended.
NeverExtended == task.pc # "extend" /\ \A j \in Jobs : reservation[j].ext = 0

\* The score of an entry is its expires_at, in the entry and in memory.
Exact ==
    \A e \in zset["working"] :
        /\ e.score = e.exp
        /\ (e.jid \in workingMap
             \/ \E c \in Conns : Ticket(c, e.jid) /\ conn[c].pc # "stored") =>
               e.score = reservation[e.jid].exp

\* A job that was acknowledged is at most in the hands of a sweep that will
\* find no reservation for it.
Acked(j) == fate[j] = "acked" => j \notin workingMap /\ ~Loose(j) /\ ~InSet("working", j)
AckedNowhere == \A j \in Jobs : Acked(j)

ExactInv == NeverExtended /\ Exact /\ ReservationBacked /\ AckedNowhere

-----------------------------------------------------------------------------
(* What the building blocks of the actions do *)

\* A connection goes on with its command.
LEMMA HoldFields ==
    ASSUME TypeOK, NEW c \in Conns, NEW p, NEW v, Hold(c, p, v)
    PROVE  /\ conn'[c].pc = p /\ conn'[c].val = v
           /\ \A d \in Conns \ {c} : conn'[d] = conn[d]
  BY DEF TypeOK, Hold

\* A connection is done with its command.
LEMMA IdleFields ==
    ASSUME TypeOK, NEW c \in Conns, Idle(c)
    PROVE  /\ conn'[c].pc = "idle"
           /\ \A d \in Conns \ {c} : conn'[d] = conn[d]
  BY DEF TypeOK, Idle, IdleConn

\* The sweep goes on with the same member.
LEMMA GotoFields ==
    ASSUME TypeOK, NEW p, Goto(p)
    PROVE  /\ task'.pc = p /\ task'.when = task.when /\ task'.batch = task.batch
           /\ task'.hand = task.hand /\ task'.name = task.name
  BY DEF TypeOK, Goto

\* The sweep goes on with the next member.
LEMMA NextMemberFields ==
    ASSUME TypeOK, NEW n, NextMember(n)
    PROVE  task'.pc = "next" /\ task'.when = task.when /\ task'.batch = task.batch
           /\ task'.name = task.name
  BY DEF TypeOK, NextMember

\* The sweep is over.
LEMMA IdleTaskFields ==
    /\ IdleTask.pc = "idle" /\ IdleTask.when = 0 /\ IdleTask.batch = {}
    /\ IdleConn.pc = "idle"
  BY DEF IdleTask, IdleConn

\* A new value and a new entry hold what they are given.
LEMMA NewFields ==
    /\ \A j, f : NewValue(j, f).jid = j /\ NewValue(j, f).fails = f /\ NewValue(j, f).exp = 0
    /\ \A j, f, x, s : /\ NewEntry(j, f, x, s).jid = j /\ NewEntry(j, f, x, s).fails = f
                       /\ NewEntry(j, f, x, s).exp = x /\ NewEntry(j, f, x, s).score = s
    /\ \A e : ValueOf(e).jid = e.jid /\ ValueOf(e).fails = e.fails /\ ValueOf(e).exp = e.exp
  BY DEF NewValue, NewEntry, ValueOf

\* What a sweep does with a member it has read.
LEMMA TaskRemoveFields ==
    ASSUME TypeOK, NEW e \in task.batch, TaskRemove(e)
    PROVE  /\ task.pc = "next" /\ task'.when = task.when /\ task'.name = task.name
           /\ task'.batch = task.batch \ {e}
           /\ task'.pc \in {"next", "check", "enqueue"}
           /\ task'.pc = "check" =>
                /\ e \in zset["working"] /\ task.name = "Busy"
                /\ task'.hand = ValueOf(e)
           /\ task'.pc = "enqueue" =>
                /\ task.name \in {"Scheduled", "Retries"}
                /\ e \in zset[IF task.name = "Scheduled" THEN "scheduled" ELSE "retries"]
                /\ task'.hand = ValueOf(e)
<1> DEFINE present == e \in zset[Swept(task.name)]
           h == IF present THEN ValueOf(e) ELSE task.hand
           p == IF present THEN AfterRemove(task.name) ELSE task.pc
           n == IF present /\ task.name = "Dead" THEN task.count + 1 ELSE task.count
<1>1. task' = [task EXCEPT !.batch = task.batch \ {e}, !.hand = h, !.pc = p, !.count = n]
  BY DEF TaskRemove, WasThere
<1>2. task.pc = "next" /\ task.name \in TaskNames
  BY DEF TaskRemove, WasThere, TypeOK
<1> HIDE DEF h, p, n
<1>3. /\ task'.when = task.when /\ task'.name = task.name
      /\ task'.batch = task.batch \ {e} /\ task'.pc = p /\ task'.hand = h
  BY <1>1 DEF TypeOK
<1>4. /\ p \in {"next", "check", "enqueue"}
      /\ p = "check" => task.name = "Busy" /\ present
      /\ p = "enqueue" => task.name \in {"Scheduled", "Retries"} /\ present
  BY <1>2 DEF p, AfterRemove, TaskNames
<1>5. present => h = ValueOf(e)
  BY DEF h
<1>6. /\ task.name = "Busy" => Swept(task.name) = "working"
      /\ task.name = "Scheduled" => Swept(task.name) = "scheduled"
      /\ task.name = "Retries" => Swept(task.name) = "retries"
  BY DEF Swept
<1> QED
  BY <1>2, <1>3, <1>4, <1>5, <1>6

-----------------------------------------------------------------------------
(* Tickets *)

\* A job for which nobody gets a ticket, and that becomes loose only if it was.
LEMMA TicketKept ==
    ASSUME NEW j \in Jobs, OneTicket(j),
           j \in workingMap' => j \in workingMap,
           \A c \in Conns : Ticket(c, j)' => Ticket(c, j),
           Loose(j)' => Loose(j),
           fate'[j] = "unborn" => fate[j] = "unborn"
    PROVE  OneTicket(j)'
  BY DEF OneTicket

\* A job for which nobody has a ticket.
LEMMA TicketNone ==
    ASSUME NEW j \in Jobs, j \notin workingMap', \A c \in Conns : ~Ticket(c, j)'
    PROVE  OneTicket(j)'
  BY DEF OneTicket

\* Connections that stay what they are hold the same tickets.
LEMMA TicketsSame ==
    ASSUME NEW c \in Conns, conn'[c] = conn[c]
    PROVE  \A j \in Jobs : (Ticket(c, j)' <=> Ticket(c, j)) /\ (InHand(c, j)' <=> InHand(c, j))
  BY DEF Ticket, InHand, ConnHolds

\* A job becomes loose in one of these ways.
LEMMA LooseKept ==
    ASSUME NEW j \in Jobs,
           InQueue(j)' => Loose(j),
           \A s \in SetNames \ {"working"} : InSet(s, j)' => Loose(j),
           \A c \in Conns : InHand(c, j)' => Loose(j),
           InSweep(j)' /\ task'.pc \in {"enqueue", "store"} => Loose(j)
    PROVE  Loose(j)' => Loose(j)
  BY DEF Loose

\* A job in the working set is not loose.
LEMMA WorkingNotLoose ==
    ASSUME AtMostOneCopy, NEW j \in Jobs, InSet("working", j)
    PROVE  ~Loose(j)
<1>1. "working" \in SetNames
  BY DEF SetNames
<1>2. \A s \in SetNames : InSet(s, j) => s = "working"
  BY <1>1 DEF AtMostOneCopy, OnceInSets, InSet
<1> QED
  BY <1>1, <1>2 DEF Loose, AtMostOneCopy, QueueOnly, HandsOnly, SweepOnly

\* The same after a step.
LEMMA WorkingNotLooseNext ==
    ASSUME AtMostOneCopy', NEW j \in Jobs, InSet("working", j)'
    PROVE  ~Loose(j)'
<1>1. "working" \in SetNames
  BY DEF SetNames
<1>2. \A s \in SetNames : InSet(s, j)' => s = "working"
  BY <1>1 DEF AtMostOneCopy, OnceInSets, InSet
<1> QED
  BY <1>1, <1>2 DEF Loose, AtMostOneCopy, QueueOnly, HandsOnly, SweepOnly

\* The commands of the connections keep the tickets apart.
LEMMA ConnTickets ==
    ASSUME ~SharedScores, TypeOK, Custody, AtMostOneCopy', Tickets, NEW c \in Conns, ConnNext(c)
    PROVE  Tickets'
<1>0. conn[c].val.jid \in Jobs /\ conn[c].val \in Value
  BY HandTypes
<1>00. PICK h \in Jobs : h = conn[c].val.jid
  BY <1>0
<1>1. \A j \in Jobs : OneTicket(j)
  BY DEF Tickets
\* Steps after which the connection is not one with a ticket.
<1>2. ASSUME NEW j \in Jobs, j \in workingMap' => j \in workingMap,
             conn'[c].pc \notin {"stored", "ackrem", "failrem"},
             \A d \in Conns \ {c} : conn'[d] = conn[d],
             Loose(j)' => Loose(j),
             fate'[j] = "unborn" => fate[j] = "unborn"
      PROVE  OneTicket(j)'
  <2>1. \A d \in Conns : Ticket(d, j)' => Ticket(d, j)
    <3> SUFFICES ASSUME NEW d \in Conns, Ticket(d, j)'
                 PROVE  Ticket(d, j)
      OBVIOUS
    <3>1. CASE d = c
      BY <1>2, <3>1 DEF Ticket
    <3>2. CASE d # c
      BY <1>2, <3>2, TicketsSame
    <3> QED
      BY <3>1, <3>2
  <2> QED
    BY <1>1, <1>2, <2>1, TicketKept
<1>3. CASE FetchPop(c)
  <2>1. queue \in Seq(Value) /\ queue # << >> /\ queue' = Tail(queue)
    BY <1>3 DEF FetchPop, TypeOK
  <2>2. \A j \in Jobs : InQueue(j) <=> InQueue(j)' \/ j = Head(queue).jid
    BY <2>1, QueueTail
  <2>3. /\ Hold(c, "popped", Head(queue))
        /\ UNCHANGED <<zset, task, workingMap, fate>>
    BY <1>3 DEF FetchPop, memory, history
  <2>4. /\ conn'[c].pc = "popped"
        /\ \A d \in Conns \ {c} : conn'[d] = conn[d]
    BY <2>3, HoldFields
  <2>5. \A d \in Conns, j \in Jobs : InHand(d, j)' => InHand(d, j) \/ j = Head(queue).jid
    BY <2>3, HandChange
  <2>6. \A j \in Jobs : Loose(j)' => Loose(j)
    BY <2>2, <2>3, <2>5, SetsSame, SweepSame DEF Loose
  <2> QED
    BY <1>2, <2>3, <2>4, <2>6 DEF Tickets
<1>4. ASSUME NEW t \in Timeouts, ReserveStore(c, t)
      PROVE  Tickets'
  <2> DEFINE e0 == NewEntry(h, conn[c].val.fails, now + t, now + t)
             v0 == [conn[c].val EXCEPT !.exp = now + t]
  <2>1. /\ conn[c].pc = "popped" /\ Hold(c, "stored", v0)
        /\ zset' = [zset EXCEPT !["working"] = AddElement(@, e0)]
        /\ UNCHANGED <<queue, task, workingMap, fate>>
    BY <1>00, <1>4 DEF ReserveStore, memory, history
  <2>2. v0.jid = h
    BY <1>0, <1>00 DEF Value
  <2>3. e0 \in Entry /\ e0.jid = h /\ "working" \in SetNames
    <3>1. now + t \in Nat
      BY ManagerAssumption DEF TypeOK
    <3>2. conn[c].val.fails \in Nat
      BY HandTypes
    <3>3. e0 \in Entry
      BY <3>1, <3>2, ValueTypes
    <3>4. e0.jid = h
      BY NewFields
    <3> QED
      BY <3>3, <3>4 DEF SetNames
  <2> HIDE DEF e0, v0
  <2>4. /\ conn'[c].pc = "stored" /\ conn'[c].val = v0
        /\ \A d \in Conns \ {c} : conn'[d] = conn[d]
    BY <2>1, HoldFields
  <2>5. \A s \in SetNames, j \in Jobs : InSet(s, j)' <=> InSet(s, j) \/ (s = "working" /\ j = h)
    BY <2>1, <2>3, SetAdd
  <2>6. \A j \in Jobs : ~InHand(c, j)'
    BY <2>4 DEF InHand, ConnHolds
  <2>7. \A d \in Conns, j \in Jobs : InHand(d, j)' => InHand(d, j)
    BY <2>4, <2>6, TicketsSame
  <2>8. \A j \in Jobs : Loose(j)' => Loose(j)
    BY <2>1, <2>5, <2>7, QueueSame, SweepSame DEF Loose
  <2>9. InHand(c, h) /\ Loose(h) /\ fate[h] # "unborn"
    <3>1. InHand(c, h)
      BY <1>00, <2>1 DEF InHand, ConnHolds
    <3>2. Exists(h) /\ Loose(h)
      BY <3>1 DEF Exists, Loose
    <3> QED
      BY <1>00, <3>1, <3>2 DEF Custody, UnbornIsNowhere
  <2>10. h \notin workingMap /\ \A d \in Conns : ~Ticket(d, h)
    BY <1>00, <1>1, <2>9 DEF OneTicket
  <2>11. \A j \in Jobs : j # h => ~Ticket(c, j)'
    BY <2>2, <2>4 DEF Ticket
  <2>12. OneTicket(h)'
    <3>1. ~Loose(h)'
      <4>1. \A j \in Jobs : InSet("working", j)' => ~Loose(j)'
        BY WorkingNotLooseNext
      <4> QED
        BY <1>00, <2>3, <2>5, <4>1
    <3>2. \A d \in Conns : Ticket(d, h)' => d = c
      BY <1>00, <2>4, <2>10, TicketsSame
    <3> QED
      BY <2>1, <2>9, <2>10, <3>1, <3>2 DEF OneTicket
  <2>13. ASSUME NEW j \in Jobs, j # h
         PROVE  OneTicket(j)'
    <3>1. \A d \in Conns : Ticket(d, j)' => Ticket(d, j)
      BY <2>4, <2>11, <2>13, TicketsSame
    <3> QED
      BY <1>1, <2>1, <2>8, <3>1, TicketKept
  <2> QED
    BY <2>12, <2>13 DEF Tickets
<1>5. CASE ReserveMap(c)
  <2>1. /\ conn[c].pc = "stored" /\ Idle(c) /\ workingMap' = workingMap \cup {h}
        /\ UNCHANGED <<queue, zset, task, fate>>
    BY <1>00, <1>5 DEF ReserveMap, store
  <2>2. conn'[c].pc = "idle" /\ \A d \in Conns \ {c} : conn'[d] = conn[d]
    BY <2>1, IdleFields
  <2>3. \A d \in Conns, j \in Jobs : InHand(d, j)' => InHand(d, j)
    BY <2>1, HandIdle
  <2>4. \A j \in Jobs : Loose(j)' => Loose(j)
    BY <2>1, <2>3, QueueSame, SetsSame, SweepSame DEF Loose
  <2>5. Ticket(c, h)
    BY <1>00, <2>1 DEF Ticket
  <2>6. /\ \A d \in Conns : Ticket(d, h) => d = c
        /\ ~Loose(h) /\ fate[h] # "unborn"
    BY <1>00, <1>1, <2>5 DEF OneTicket
  <2>7. \A d \in Conns : ~Ticket(d, h)'
    <3>1. ~Ticket(c, h)'
      BY <2>2 DEF Ticket
    <3> QED
      BY <1>00, <2>2, <2>6, <3>1, TicketsSame
  <2>8. OneTicket(h)'
    BY <1>00, <2>1, <2>4, <2>6, <2>7 DEF OneTicket
  <2>9. ASSUME NEW j \in Jobs, j # h
        PROVE  OneTicket(j)'
    BY <1>2, <2>1, <2>2, <2>4, <2>9
  <2> QED
    BY <2>8, <2>9 DEF Tickets
<1>6. ASSUME NEW j0 \in Jobs, AckClear(c, j0) \/ FailClear(c, j0)
      PROVE  Tickets'
  <2>1. PICK p \in {"ackrem", "failrem"} : Hold(c, p, NewValue(j0, 0))
    BY <1>6 DEF AckClear, FailClear
  <2>2. /\ conn[c].pc = "idle" /\ j0 \in workingMap /\ workingMap' = workingMap \ {j0}
        /\ UNCHANGED <<queue, zset, task>>
    BY <1>6 DEF AckClear, FailClear, clearReservation, store
  <2>3. \A j \in Jobs : fate'[j] = "unborn" => fate[j] = "unborn"
    BY <1>6 DEF AckClear, FailClear, TypeOK, history
  <2>4. /\ conn'[c].pc = p /\ conn'[c].val = NewValue(j0, 0)
        /\ \A d \in Conns \ {c} : conn'[d] = conn[d]
    BY <2>1, HoldFields
  <2>5. \A d \in Conns, j \in Jobs : InHand(d, j)' => InHand(d, j)
    BY <2>1, HandChange
  <2>6. \A j \in Jobs : Loose(j)' => Loose(j)
    BY <2>2, <2>5, QueueSame, SetsSame, SweepSame DEF Loose
  <2>7. /\ ~Loose(j0) /\ fate[j0] # "unborn"
        /\ \A d \in Conns : ~Ticket(d, j0)
    BY <1>1, <2>2 DEF OneTicket
  <2>8. \A j \in Jobs : j # j0 => ~Ticket(c, j)'
    BY <2>4, NewFields DEF Ticket
  <2>9. OneTicket(j0)'
    <3>1. \A d \in Conns : Ticket(d, j0)' => d = c
      BY <2>4, <2>7, TicketsSame
    <3> QED
      BY <2>2, <2>3, <2>6, <2>7, <3>1 DEF OneTicket
  <2>10. ASSUME NEW j \in Jobs, j # j0
         PROVE  OneTicket(j)'
    <3>1. \A d \in Conns : Ticket(d, j)' => Ticket(d, j)
      BY <2>4, <2>8, <2>10, TicketsSame
    <3> QED
      BY <1>1, <2>2, <2>3, <2>6, <3>1, TicketKept
  <2> QED
    BY <2>9, <2>10 DEF Tickets
<1>7. CASE AckRemove(c) \/ FailRemove(c)
  <2>1. /\ conn[c].pc \in {"ackrem", "failrem"}
        /\ zset' = [zset EXCEPT !["working"] = @ \ Found(h)]
        /\ UNCHANGED <<queue, task, workingMap>>
    BY <1>00, <1>7 DEF AckRemove, FailRemove, memory
  <2>2. PICK p \in {"idle", "failadd"}, v \in Value : Hold(c, p, v) /\ v.jid \in Jobs
          /\ (p = "failadd" => v.jid = h)
    <3>1. CASE Idle(c)
      BY <3>1, ValueTypes DEF Idle, Hold, IdleConn, Value
    <3>2. CASE Hold(c, "failadd", NewValue(h, reservation[h].fails + 1))
      <4>1. reservation[h].fails + 1 \in Nat
        BY HandTypes
      <4>2. /\ NewValue(h, reservation[h].fails + 1) \in Value
            /\ NewValue(h, reservation[h].fails + 1).jid = h
        BY <4>1, ValueTypes, NewFields
      <4> QED
        BY <3>2, <4>2
    <3> QED
      BY <1>00, <1>7, <3>1, <3>2 DEF AckRemove, FailRemove
  <2>3. conn'[c].pc = p /\ \A d \in Conns \ {c} : conn'[d] = conn[d]
    BY <2>2, HoldFields
  <2>4. \A s \in SetNames \ {"working"} : \A j \in Jobs : InSet(s, j)' => InSet(s, j)
    BY <2>1 DEF TypeOK, InSet
  <2>5. \A d \in Conns, j \in Jobs : j # h /\ InHand(d, j)' => InHand(d, j)
    BY <2>2, HandChange
  <2>6. \A j \in Jobs : j # h /\ Loose(j)' => Loose(j)
    BY <2>1, <2>4, <2>5, QueueSame, SweepSame DEF Loose
  <2>7. \A j \in Jobs : fate'[j] = "unborn" => fate[j] = "unborn"
    BY <1>7 DEF AckRemove, FailRemove, Settle, TypeOK
  <2>8. Ticket(c, h)
    BY <1>00, <2>1 DEF Ticket
  <2>9. h \notin workingMap' /\ \A d \in Conns : ~Ticket(d, h)'
    <3>1. h \notin workingMap /\ \A d \in Conns : Ticket(d, h) => d = c
      BY <1>1, <2>8 DEF OneTicket
    <3>2. ~Ticket(c, h)'
      BY <2>3 DEF Ticket
    <3> QED
      BY <2>1, <2>3, <3>1, <3>2, TicketsSame
  <2>10. ASSUME NEW j \in Jobs
         PROVE  OneTicket(j)'
    <3>1. CASE j = h
      BY <2>9, <3>1, TicketNone
    <3>2. CASE j # h
      BY <1>2, <2>1, <2>3, <2>6, <2>7, <3>2
    <3> QED
      BY <3>1, <3>2
  <2> QED
    BY <2>10 DEF Tickets
<1>8. CASE FailStore(c) \/ StoreError(c)
  <2>1. Idle(c) /\ UNCHANGED <<queue, task, workingMap>>
    BY <1>8 DEF FailStore, StoreError, store, memory
  <2>2. conn'[c].pc = "idle" /\ \A d \in Conns \ {c} : conn'[d] = conn[d]
    BY <2>1, IdleFields
  <2>3. \A d \in Conns, j \in Jobs : InHand(d, j)' => InHand(d, j)
    BY <2>1, HandIdle
  <2>4. \A s \in SetNames, j \in Jobs : InSet(s, j)' => InSet(s, j) \/ Loose(j)
    <3>1. CASE StoreError(c)
      BY <3>1, SetsSame DEF StoreError, store
    <3>2. CASE FailStore(c)
      <4>1. Loose(h)
        BY <1>00, <3>2 DEF FailStore, Loose, InHand, ConnHolds
      <4>2. retryOrBury(conn[c].val)
        BY <3>2 DEF FailStore
      <4>3. PICK s0 \in SetNames, e0 \in Entry :
              e0.jid = h /\ zset' = [zset EXCEPT ![s0] = AddElement(@, e0)]
        BY <1>0, <1>00, <4>2, retryOrBuryEntry
      <4>4. \A s \in SetNames, j \in Jobs :
              InSet(s, j)' <=> InSet(s, j) \/ (s = s0 /\ j = e0.jid)
        BY <4>3, SetAdd
      <4> QED
        BY <4>1, <4>3, <4>4
    <3> QED
      BY <1>8, <3>1, <3>2
  <2>5. \A j \in Jobs : Loose(j)' => Loose(j)
    BY <2>1, <2>3, <2>4, QueueSame, SweepSame DEF Loose
  <2>6. \A j \in Jobs : fate'[j] = "unborn" => fate[j] = "unborn"
    BY <1>8 DEF FailStore, StoreError, Settle, TypeOK, history
  <2> QED
    BY <1>2, <2>1, <2>2, <2>5, <2>6 DEF Tickets
<1> QED
  BY <1>3, <1>4, <1>5, <1>6, <1>7, <1>8 DEF ConnNext

\* The sweeps keep the tickets apart.
LEMMA TaskTickets ==
    ASSUME TypeOK, Tickets, TaskStep \/ TaskError \/ \E n \in TaskNames : TaskStart(n)
    PROVE  Tickets'
<1>0. task.hand.jid \in Jobs /\ task.hand \in Value
  BY HandTypes
<1>00. PICK h \in Jobs : h = task.hand.jid
  BY <1>0
<1>1. \A j \in Jobs : OneTicket(j)
  BY DEF Tickets
<1>2. UNCHANGED conn
  BY DEF TaskStep, TaskScan, TaskRemove, TaskEnqueue, ReapCheck, ReapExtend, ReapClear,
     ReapStore, TaskEnd, TaskError, TaskStart
<1>3. \A c \in Conns, j \in Jobs : (Ticket(c, j)' <=> Ticket(c, j)) /\ (InHand(c, j)' <=> InHand(c, j))
  BY <1>2, TicketsSame
<1>4. \A j \in Jobs : fate'[j] = "unborn" => fate[j] = "unborn"
  BY ZenonT(60) DEF TaskStep, TaskScan, TaskRemove, TaskEnqueue, ReapCheck, ReapExtend, ReapClear,
     ReapStore, TaskEnd, TaskError, TaskStart, Settle, TypeOK, history
<1>5. ASSUME workingMap' \subseteq workingMap, \A j \in Jobs : Loose(j)' => Loose(j)
      PROVE  Tickets'
  BY <1>1, <1>3, <1>4, <1>5, TicketKept DEF Tickets
\* Steps after which nothing is in the hands of the task runner.
<1>6. ASSUME UNCHANGED <<queue, zset>>, workingMap' \subseteq workingMap,
             task'.pc \notin {"enqueue", "store"}
      PROVE  Tickets'
  <2>1. \A j \in Jobs : Loose(j)' => Loose(j)
    BY <1>3, <1>6, QueueSame, SetsSame DEF Loose
  <2> QED
    BY <1>5, <1>6, <2>1
<1>7. CASE TaskScan \/ TaskEnd \/ ReapCheck \/ TaskError \/ \E n \in TaskNames : TaskStart(n)
  <2>1. UNCHANGED <<queue, zset, workingMap>>
    BY <1>7 DEF TaskScan, TaskEnd, ReapCheck, TaskError, TaskStart, store, memory
  <2>2. task'.pc \in {"next", "scan", "idle", "extend", "clear"}
    <3>1. CASE TaskScan
      BY <3>1 DEF TaskScan, TypeOK
    <3>2. CASE TaskEnd
      BY <3>2, GotoFields, IdleTaskFields DEF TaskEnd
    <3>3. CASE ReapCheck
      BY <3>3, GotoFields DEF ReapCheck
    <3>4. CASE TaskError
      BY <3>4, NextMemberFields, IdleTaskFields DEF TaskError
    <3>5. ASSUME NEW n \in TaskNames, TaskStart(n)
          PROVE  task'.pc = "scan"
      BY <3>5 DEF TaskStart, TypeOK
    <3> QED
      BY <1>7, <3>1, <3>2, <3>3, <3>4, <3>5
  <2> QED
    BY <1>6, <2>1, <2>2
<1>8. ASSUME NEW e \in task.batch, TaskRemove(e)
      PROVE  Tickets'
  <2>1. UNCHANGED <<queue, workingMap>> /\ zset' = [zset EXCEPT ![Swept(task.name)] = @ \ {e}]
    BY <1>8 DEF TaskRemove, memory
  <2>2. \A s \in SetNames, j \in Jobs : InSet(s, j)' => InSet(s, j)
    BY <2>1 DEF TypeOK, InSet
  <2>3. task'.pc = "enqueue" => /\ task'.hand = ValueOf(e)
                                /\ \E s \in SetNames \ {"working"} : e \in zset[s]
    BY <1>8, TaskRemoveFields DEF SetNames
  <2>4. task'.pc # "store"
    BY <1>8, TaskRemoveFields
  <2>5. ASSUME NEW j \in Jobs, InSweep(j)', task'.pc \in {"enqueue", "store"}
        PROVE  Loose(j)
    <3>1. j = e.jid
      BY <2>3, <2>4, <2>5, NewFields DEF InSweep
    <3> QED
      BY <2>3, <2>4, <2>5, <3>1 DEF Loose, InSet
  <2>6. \A j \in Jobs : Loose(j)' => Loose(j)
    BY <1>3, <2>1, <2>2, <2>5, QueueSame DEF Loose
  <2> QED
    BY <1>5, <2>1, <2>6
<1>9. CASE TaskEnqueue
  <2>1. /\ Loose(h) /\ UNCHANGED <<zset, workingMap>>
        /\ queue' = Append(queue, NewValue(h, task.hand.fails))
    BY <1>00, <1>9 DEF TaskEnqueue, Loose, InSweep, TaskHolds, memory
  <2>2. /\ NewValue(h, task.hand.fails) \in Value /\ NewValue(h, task.hand.fails).jid = h
        /\ queue \in Seq(Value)
    BY HandTypes, ValueTypes, NewFields DEF TypeOK
  <2>3. \A j \in Jobs : InQueue(j)' <=> InQueue(j) \/ j = h
    BY <2>1, <2>2, QueueAppend
  <2>4. task'.pc = "next"
    BY <1>9, NextMemberFields DEF TaskEnqueue
  <2>5. \A j \in Jobs : Loose(j)' => Loose(j)
    BY <1>3, <2>1, <2>3, <2>4, SetsSame DEF Loose
  <2> QED
    BY <1>5, <2>1, <2>5
<1>10. CASE ReapExtend \/ ReapStore
  <2>1. UNCHANGED <<queue, workingMap>> /\ task'.pc = "next"
    BY <1>10, NextMemberFields DEF ReapExtend, ReapStore, memory
  <2>2. \A s \in SetNames \ {"working"} : \A j \in Jobs : InSet(s, j)' => Loose(j)
    <3>1. CASE ReapExtend
      <4>1. \A s \in SetNames \ {"working"} : zset'[s] = zset[s]
        BY <3>1 DEF ReapExtend, TypeOK
      <4> QED
        BY <4>1 DEF InSet, Loose
    <3>2. CASE ReapStore
      <4>1. Loose(h)
        BY <1>00, <3>2 DEF ReapStore, Loose, InSweep, TaskHolds
      <4>2. retryOrBury(task.hand)
        BY <3>2 DEF ReapStore
      <4>3. PICK s0 \in SetNames, e0 \in Entry :
              e0.jid = h /\ zset' = [zset EXCEPT ![s0] = AddElement(@, e0)]
        BY <1>0, <1>00, <4>2, retryOrBuryEntry
      <4>4. \A s \in SetNames, j \in Jobs :
              InSet(s, j)' <=> InSet(s, j) \/ (s = s0 /\ j = e0.jid)
        BY <4>3, SetAdd
      <4> QED
        BY <4>1, <4>3, <4>4 DEF Loose
    <3> QED
      BY <1>10, <3>1, <3>2
  <2>3. \A j \in Jobs : Loose(j)' => Loose(j)
    BY <1>3, <2>1, <2>2, QueueSame DEF Loose
  <2> QED
    BY <1>5, <2>1, <2>3
<1>11. CASE ReapClear
  <2>1. UNCHANGED <<queue, zset>> /\ workingMap' \subseteq workingMap
    BY <1>11 DEF ReapClear, clearReservation, store
  <2>2. CASE NextMember(0) \/ NextMember(1)
    <3>1. task'.pc = "next"
      BY <2>2, NextMemberFields
    <3> QED
      BY <1>6, <2>1, <3>1
  <2>3. CASE /\ clearReservation(h)
             /\ task' = [task EXCEPT !.pc = "store", !.hand = NewValue(h, reservation[h].fails + 1)]
    <3>1. h \in workingMap /\ h \notin workingMap'
      BY <2>3 DEF clearReservation
    <3>2. \A c \in Conns : ~Ticket(c, h)'
      BY <1>1, <1>3, <3>1 DEF OneTicket
    <3>3. task'.hand.jid = h
      BY <2>3, NewFields DEF TypeOK
    <3>4. \A j \in Jobs : j # h /\ Loose(j)' => Loose(j)
      BY <1>3, <2>1, <3>3, QueueSame, SetsSame DEF Loose, InSweep
    <3>5. ASSUME NEW j \in Jobs
          PROVE  OneTicket(j)'
      <4>1. CASE j = h
        BY <3>1, <3>2, <4>1, TicketNone
      <4>2. CASE j # h
        BY <1>1, <1>3, <1>4, <2>1, <3>4, <4>2, TicketKept
      <4> QED
        BY <4>1, <4>2
    <3> QED
      BY <3>5 DEF Tickets
  <2> QED
    BY <1>00, <1>11, <2>2, <2>3 DEF ReapClear
<1> QED
  BY <1>7, <1>8, <1>9, <1>10, <1>11 DEF TaskStep

\* Every step keeps the tickets apart.
LEMMA NextTickets ==
    ASSUME ~SharedScores, TypeOK, Custody, AtMostOneCopy', Tickets, Down, [Next]_vars
    PROVE  Tickets'
<1>0. \A j \in Jobs : OneTicket(j)
  BY DEF Tickets
<1>1. ASSUME UNCHANGED <<conn, task, workingMap>>,
             \A j \in Jobs : fate'[j] = "unborn" => fate[j] = "unborn",
             \A j \in Jobs : OneTicket(j)' \/ (Loose(j)' => Loose(j))
      PROVE  Tickets'
  <2>1. \A c \in Conns, j \in Jobs : Ticket(c, j)' <=> Ticket(c, j)
    BY <1>1, TicketsSame
  <2> QED
    BY <1>0, <1>1, <2>1, TicketKept DEF Tickets
<1>2. ASSUME NEW j0 \in Jobs, NEW d \in ScheduleDelays \cup {0}, Push(j0, d)
      PROVE  Tickets'
  <2>1. UNCHANGED <<conn, task, workingMap>> /\ fate[j0] = "unborn"
    BY <1>2 DEF Push, memory
  <2>2. \A j \in Jobs : fate'[j] = "unborn" => fate[j] = "unborn"
    BY <1>2 DEF Push, TypeOK
  <2>3. OneTicket(j0)'
    <3>1. j0 \notin workingMap /\ \A c \in Conns : ~Ticket(c, j0)
      BY <1>0, <2>1 DEF OneTicket
    <3>2. \A c \in Conns : ~Ticket(c, j0)'
      BY <2>1, <3>1, TicketsSame
    <3> QED
      BY <2>1, <3>1, <3>2, TicketNone
  <2>4. \A j \in Jobs : j # j0 /\ InQueue(j)' => InQueue(j)
    <3>1. CASE UNCHANGED queue
      BY <3>1, QueueSame
    <3>2. CASE queue' = Append(queue, NewValue(j0, 0))
      <4>1. NewValue(j0, 0) \in Value /\ NewValue(j0, 0).jid = j0 /\ queue \in Seq(Value)
        BY ValueTypes, NewFields DEF TypeOK
      <4> QED
        BY <3>2, <4>1, QueueAppend
    <3> QED
      BY <1>2, <3>1, <3>2 DEF Push
  <2>5. \A s \in SetNames, j \in Jobs : j # j0 /\ InSet(s, j)' => InSet(s, j)
    <3>1. CASE UNCHANGED zset
      BY <3>1, SetsSame
    <3>2. CASE zset' = [zset EXCEPT !["scheduled"] = AddElement(@, NewEntry(j0, 0, 0, now + d))]
      <4>1. d \in Nat /\ now + d \in Nat
        BY ManagerAssumption DEF TypeOK
      <4>2. /\ NewEntry(j0, 0, 0, now + d) \in Entry /\ NewEntry(j0, 0, 0, now + d).jid = j0
            /\ "scheduled" \in SetNames
        BY <4>1, ValueTypes, NewFields DEF SetNames
      <4> QED
        BY <3>2, <4>2, SetAdd
    <3> QED
      BY <1>2, <3>1, <3>2 DEF Push
  <2>6. \A j \in Jobs : j # j0 => (Loose(j)' => Loose(j))
    BY <2>1, <2>4, <2>5, HandsSame, SweepSame DEF Loose
  <2> QED
    BY <1>1, <2>1, <2>2, <2>3, <2>6
<1>3. CASE UNCHANGED <<queue, zset, conn, task, workingMap>> /\
           \A j \in Jobs : fate'[j] = "unborn" => fate[j] = "unborn"
  <2>1. \A j \in Jobs : Loose(j)' => Loose(j)
    BY <1>3, QueueSame, SetsSame, HandsSame, SweepSame DEF Loose
  <2> QED
    BY <1>1, <1>3, <2>1
<1>4. ASSUME NEW j \in Jobs, PushError(j)
      PROVE  Tickets'
  BY <1>3, <1>4 DEF PushError, store, memory, TypeOK
<1>5. CASE Tick \/ UNCHANGED vars \/ \E j \in Jobs, x \in Extensions : ExtendReservation(j, x)
  BY <1>3, <1>5 DEF Tick, vars, ExtendReservation, store, memory, history
<1>6. CASE Crash
  <2>1. workingMap' = {} /\ \A c \in Conns : conn'[c] = IdleConn
    BY <1>6 DEF Crash
  <2>2. \A c \in Conns, j \in Jobs : ~Ticket(c, j)'
    BY <2>1, IdleTaskFields DEF Ticket
  <2> QED
    BY <2>1, <2>2, TicketNone DEF Tickets
<1>7. CASE Boot
  <2>1. /\ UNCHANGED <<queue, zset, conn, task, fate>> /\ ~up
        /\ workingMap' = {e.jid : e \in zset["working"]}
    BY <1>7 DEF Boot, Loaded, store, history
  <2>2. \A c \in Conns, j \in Jobs : ~Ticket(c, j)'
    BY <2>1 DEF Ticket, Down
  <2>3. ASSUME NEW j \in Jobs
        PROVE  OneTicket(j)'
    <3>1. CASE j \in workingMap'
      <4>1. InSet("working", j) /\ "working" \in SetNames
        BY <2>1, <3>1 DEF InSet, SetNames
      <4>2. InSet("working", j)'
        BY <2>1, <4>1, SetsSame
      <4>3. fate'[j] # "unborn"
        BY <2>1, <4>1 DEF Custody, UnbornIsNowhere, Exists
      <4> QED
        BY <2>2, <4>2, <4>3, WorkingNotLooseNext DEF OneTicket
    <3>2. CASE j \notin workingMap'
      BY <2>2, <3>2, TicketNone
    <3> QED
      BY <3>1, <3>2
  <2> QED
    BY <2>3 DEF Tickets
<1> QED
  BY <1>2, <1>4, <1>5, <1>6, <1>7, ConnTickets, TaskTickets DEF Next

-----------------------------------------------------------------------------
(* A process that is down, and the times of a sweep *)

\* Only a crash takes the process down.
LEMMA NextDown ==
    ASSUME Down, [Next]_vars
    PROVE  Down'
<1>1. CASE Crash
  <2>1. workingMap' = {} /\ task' = IdleTask /\ \A c \in Conns : conn'[c] = IdleConn
    BY <1>1 DEF Crash
  <2> QED
    BY <2>1, IdleTaskFields DEF Down
<1>2. CASE Boot
  BY <1>2 DEF Boot, Down
<1>3. CASE Tick \/ UNCHANGED vars
  BY <1>3 DEF Tick, vars, memory, faults, Down
<1>4. CASE UNCHANGED up /\ up
  BY <1>4 DEF Down
<1>5. ASSUME NEW c \in Conns, ConnNext(c)
      PROVE  Down'
  BY <1>4, <1>5 DEF ConnNext, FetchPop, ReserveStore, ReserveMap, AckClear, FailClear,
     AckRemove, FailRemove, FailStore, StoreError, faults
<1>6. CASE TaskStep \/ TaskError \/ \E n \in TaskNames : TaskStart(n)
  BY <1>4, <1>6 DEF TaskStep, TaskScan, TaskRemove, TaskEnqueue, ReapCheck, ReapExtend,
     ReapClear, ReapStore, TaskEnd, TaskError, TaskStart, faults
<1>7. CASE \/ \E j \in Jobs, d \in ScheduleDelays \cup {0} : Push(j, d)
           \/ \E j \in Jobs : PushError(j)
           \/ \E j \in Jobs, x \in Extensions : ExtendReservation(j, x)
  BY <1>4, <1>7 DEF Push, PushError, ExtendReservation, faults
<1> QED
  BY <1>1, <1>2, <1>3, <1>5, <1>6, <1>7 DEF Next

\* The clock does not go back.
LEMMA NowForward ==
    ASSUME TypeOK, [Next]_vars
    PROVE  /\ now' = now \/ Tick
           /\ now <= now'
<1>1. now' = now \/ Tick
  <2>1. ASSUME NEW c \in Conns, ConnNext(c)
        PROVE  now' = now
    BY <2>1 DEF ConnNext, FetchPop, ReserveStore, ReserveMap, AckClear, FailClear,
       AckRemove, FailRemove, FailStore, StoreError
  <2>2. CASE TaskStep \/ TaskError \/ \E n \in TaskNames : TaskStart(n)
    BY <2>2 DEF TaskStep, TaskScan, TaskRemove, TaskEnqueue, ReapCheck, ReapExtend,
       ReapClear, ReapStore, TaskEnd, TaskError, TaskStart
  <2>3. CASE \/ \E j \in Jobs, d \in ScheduleDelays \cup {0} : Push(j, d)
             \/ \E j \in Jobs : PushError(j)
             \/ \E j \in Jobs, x \in Extensions : ExtendReservation(j, x)
             \/ Crash \/ Boot \/ UNCHANGED vars
    BY <2>3 DEF Push, PushError, ExtendReservation, Crash, Boot, vars
  <2> QED
    BY <2>1, <2>2, <2>3 DEF Next
<1>2. Tick => now' = now + 1
  BY DEF Tick
<1> QED
  BY <1>1, <1>2 DEF TypeOK

\* A sweep reads what is due when it begins.
LEMMA NextSweepTimes ==
    ASSUME TypeOK, SweepTimes, [Next]_vars
    PROVE  SweepTimes'
<1>0. /\ now \in Nat /\ (now' = now \/ now' = now + 1)
      /\ task.when \in Nat /\ task.when <= now
      /\ \A e \in task.batch : e.score \in Nat /\ e.score <= task.when
  <2>1. now \in Nat /\ task.when \in Nat /\ task.batch \subseteq Entry
    BY DEF TypeOK
  <2>2. \A e \in Entry : e.score \in Nat
    BY DEF Entry
  <2> QED
    BY <2>1, <2>2, NowForward DEF SweepTimes, Tick
<1>1. ASSUME task'.when = task.when, task'.batch \subseteq task.batch
      PROVE  SweepTimes'
  BY <1>0, <1>1 DEF SweepTimes
<1>2. CASE task' = IdleTask
  <2>1. task'.when = 0 /\ task'.batch = {}
    BY <1>2, IdleTaskFields
  <2> QED
    BY <1>0, <2>1 DEF SweepTimes
<1>3. CASE UNCHANGED task
  BY <1>1, <1>3
<1>4. ASSUME NEW n \in TaskNames, TaskStart(n)
      PROVE  SweepTimes'
  <2>1. task'.when = now /\ task'.batch = task.batch /\ now' = now
    BY <1>4 DEF TaskStart, TypeOK
  <2> QED
    BY <1>0, <2>1 DEF SweepTimes
<1>5. CASE TaskScan
  <2>1. PICK B \in Batches(zset[Swept(task.name)], task.when, MaxBatch) :
          task' = [task EXCEPT !.pc = "next", !.batch = B, !.count = 0]
    BY <1>5 DEF TaskScan
  <2>2. task'.when = task.when /\ task'.batch = B
    BY <2>1 DEF TypeOK
  <2>3. \A e \in B : e.score <= task.when
    BY <2>1 DEF Batches, Due
  <2>4. now' = now
    BY <1>5 DEF TaskScan
  <2> QED
    BY <1>0, <2>2, <2>3, <2>4 DEF SweepTimes
<1>6. ASSUME NEW e \in task.batch, TaskRemove(e)
      PROVE  SweepTimes'
  BY <1>1, <1>6, TaskRemoveFields
<1>7. ASSUME NEW n, NextMember(n)
      PROVE  SweepTimes'
  BY <1>1, <1>7, NextMemberFields
<1>8. ASSUME NEW p, Goto(p)
      PROVE  SweepTimes'
  BY <1>1, <1>8, GotoFields
<1>9. CASE TaskEnqueue \/ ReapCheck \/ ReapExtend \/ ReapStore \/ TaskEnd \/ TaskError \/ Crash
  BY <1>2, <1>7, <1>8, <1>9
     DEF TaskEnqueue, ReapCheck, ReapExtend, ReapStore, TaskEnd, TaskError, Crash
<1>10. CASE ReapClear
  <2>1. CASE NextMember(0) \/ NextMember(1)
    BY <1>7, <2>1
  <2>2. CASE task' = [task EXCEPT !.pc = "store",
                        !.hand = NewValue(task.hand.jid, reservation[task.hand.jid].fails + 1)]
    <3>1. task'.when = task.when /\ task'.batch = task.batch
      BY <2>2 DEF TypeOK
    <3> QED
      BY <1>1, <3>1
  <2> QED
    BY <1>10, <2>1, <2>2 DEF ReapClear
<1>11. ASSUME NEW c \in Conns, ConnNext(c)
       PROVE  SweepTimes'
  BY <1>3, <1>11 DEF ConnNext, FetchPop, ReserveStore, ReserveMap, AckClear, FailClear,
     AckRemove, FailRemove, FailStore, StoreError
<1>12. CASE \/ \E j \in Jobs, d \in ScheduleDelays \cup {0} : Push(j, d)
            \/ \E j \in Jobs : PushError(j)
            \/ \E j \in Jobs, x \in Extensions : ExtendReservation(j, x)
            \/ Boot \/ Tick \/ UNCHANGED vars
  BY <1>3, <1>12 DEF Push, PushError, ExtendReservation, Boot, Tick, vars
<1> QED
  BY <1>4, <1>5, <1>6, <1>9, <1>10, <1>11, <1>12 DEF Next, TaskStep

-----------------------------------------------------------------------------
(* The working set *)

\* Only reserve and the reaper add to it; ACK, FAIL and the reaper take from it.
LEMMA WorkingSteps ==
    ASSUME ~SharedScores, TypeOK, [Next]_vars
    PROVE  \/ zset'["working"] = zset["working"]
           \/ \E c \in Conns, t \in Timeouts : ReserveStore(c, t)
           \/ ReapExtend
           \/ \E c \in Conns :
                /\ AckRemove(c) \/ FailRemove(c)
                /\ zset'["working"] = zset["working"] \ Found(conn[c].val.jid)
                /\ \A e \in Found(conn[c].val.jid) : e.jid = conn[c].val.jid
           \/ \E e \in task.batch :
                TaskRemove(e) /\ zset'["working"] = zset["working"] \ {e}
<1>0. "working" \in SetNames /\ "working" # "retries" /\ "working" # "dead" /\ "working" # "scheduled"
  BY DEF SetNames
<1>1. ASSUME NEW v, retryOrBury(v)
      PROVE  zset'["working"] = zset["working"]
  BY <1>0, <1>1 DEF retryOrBury, TypeOK
<1>2. ASSUME NEW c \in Conns, AckRemove(c) \/ FailRemove(c)
      PROVE  /\ zset'["working"] = zset["working"] \ Found(conn[c].val.jid)
             /\ \A e \in Found(conn[c].val.jid) : e.jid = conn[c].val.jid
  BY <1>0, <1>2, RemOwn DEF AckRemove, FailRemove, TypeOK, Found
<1>3. ASSUME NEW e \in task.batch, TaskRemove(e)
      PROVE  \/ zset'["working"] = zset["working"] \ {e}
             \/ zset'["working"] = zset["working"]
  BY <1>0, <1>3 DEF TaskRemove, TypeOK
<1>4. ASSUME NEW c \in Conns, \/ FetchPop(c) \/ ReserveMap(c) \/ FailStore(c) \/ StoreError(c)
                              \/ \E j \in Jobs : AckClear(c, j) \/ FailClear(c, j)
      PROVE  zset'["working"] = zset["working"]
  BY <1>1, <1>4 DEF FetchPop, ReserveMap, FailStore, StoreError, AckClear, FailClear, store
<1>5. CASE \/ TaskScan \/ TaskEnqueue \/ ReapCheck \/ ReapClear \/ ReapStore \/ TaskEnd
           \/ TaskError \/ \E n \in TaskNames : TaskStart(n)
  BY <1>1, <1>5 DEF TaskScan, TaskEnqueue, ReapCheck, ReapClear, ReapStore, TaskEnd,
     TaskError, TaskStart, store
<1>6. ASSUME NEW j \in Jobs, NEW d \in ScheduleDelays \cup {0}, Push(j, d)
      PROVE  zset'["working"] = zset["working"]
  BY <1>0, <1>6 DEF Push, TypeOK
<1>7. CASE \/ \E j \in Jobs : PushError(j)
           \/ \E j \in Jobs, x \in Extensions : ExtendReservation(j, x)
           \/ Crash \/ Boot \/ Tick \/ UNCHANGED vars
  BY <1>7 DEF PushError, ExtendReservation, Crash, Boot, Tick, vars, store
<1>8. ASSUME NEW c \in Conns, ConnNext(c)
      PROVE  \/ zset'["working"] = zset["working"]
             \/ \E t \in Timeouts : ReserveStore(c, t)
             \/ AckRemove(c) \/ FailRemove(c)
  BY <1>4, <1>8 DEF ConnNext
<1>9. CASE TaskStep
  BY <1>3, <1>5, <1>9 DEF TaskStep
<1> QED
  BY <1>2, <1>5, <1>6, <1>7, <1>8, <1>9 DEF Next

\* What reserve stores, and under which expiry.
LEMMA ReserveStoreFields ==
    ASSUME TypeOK, NEW c \in Conns, NEW t \in Timeouts, ReserveStore(c, t)
    PROVE  LET v == conn[c].val  x == now + t IN
           /\ conn[c].pc = "popped" /\ conn'[c].pc = "stored"
           /\ x \in Nat /\ now < x
           /\ conn'[c].val.jid = v.jid /\ conn'[c].val.fails = v.fails /\ conn'[c].val.exp = x
           /\ \A d \in Conns \ {c} : conn'[d] = conn[d]
           /\ zset'["working"] = zset["working"] \cup {NewEntry(v.jid, v.fails, x, x)}
           /\ \A s \in SetNames \ {"working"} : zset'[s] = zset[s]
           /\ UNCHANGED <<now, queue, workingMap, reservation, task, fate, deliveries>>
<1> DEFINE v == conn[c].val
           x == now + t
           v0 == [v EXCEPT !.exp = x]
           e0 == NewEntry(v.jid, v.fails, x, x)
<1>1. /\ conn[c].pc = "popped" /\ Hold(c, "stored", v0)
      /\ zset' = [zset EXCEPT !["working"] = AddElement(@, e0)]
      /\ UNCHANGED <<now, queue, workingMap, reservation, task, fate, deliveries>>
  BY DEF ReserveStore, memory, history
<1>2. v0.jid = v.jid /\ v0.fails = v.fails /\ v0.exp = x
  BY HandTypes DEF Value
<1>3. x \in Nat /\ now < x
  BY ManagerAssumption DEF TypeOK
<1> HIDE DEF v0, e0
<1>4. /\ conn'[c].pc = "stored" /\ conn'[c].val = v0
      /\ \A d \in Conns \ {c} : conn'[d] = conn[d]
  BY <1>1, HoldFields
<1>5. /\ zset'["working"] = zset["working"] \cup {e0}
      /\ \A s \in SetNames \ {"working"} : zset'[s] = zset[s]
  BY <1>1 DEF TypeOK, SetNames, AddElement
<1> QED
  BY <1>1, <1>2, <1>3, <1>4, <1>5 DEF e0

\* A connection is at "stored" after ReserveStore or because it was.
LEMMA StoredSteps ==
    ASSUME TypeOK, [Next]_vars, NEW c \in Conns, conn'[c].pc = "stored"
    PROVE  conn'[c] = conn[c] \/ \E t \in Timeouts : ReserveStore(c, t)
<1>1. ASSUME NEW d \in Conns, ConnNext(d), d # c
      PROVE  conn'[c] = conn[c]
  BY <1>1 DEF ConnNext, FetchPop, ReserveStore, ReserveMap, AckClear, FailClear,
     AckRemove, FailRemove, FailStore, StoreError, Hold, Idle, TypeOK
<1>2. ASSUME ConnNext(c)
      PROVE  \E t \in Timeouts : ReserveStore(c, t)
  <2>1. ASSUME NEW p, NEW v, Hold(c, p, v), p # "stored"
        PROVE  FALSE
    BY <2>1, HoldFields
  <2>2. ~Idle(c)
    BY IdleFields
  <2>3. ~FetchPop(c) /\ ~ReserveMap(c) /\ ~AckRemove(c) /\ ~FailStore(c) /\ ~StoreError(c)
    BY <2>1, <2>2 DEF FetchPop, ReserveMap, AckRemove, FailStore, StoreError
  <2>4. ~FailRemove(c)
    BY <2>1, <2>2 DEF FailRemove
  <2>5. \A j \in Jobs : ~AckClear(c, j) /\ ~FailClear(c, j)
    BY <2>1 DEF AckClear, FailClear
  <2> QED
    BY <1>2, <2>3, <2>4, <2>5 DEF ConnNext
<1>3. CASE UNCHANGED conn
  BY <1>3
<1>4. CASE TaskStep \/ TaskError \/ \E n \in TaskNames : TaskStart(n)
  BY <1>3, <1>4 DEF TaskStep, TaskScan, TaskRemove, TaskEnqueue, ReapCheck, ReapExtend,
     ReapClear, ReapStore, TaskEnd, TaskError, TaskStart
<1>5. CASE \/ \E j \in Jobs, d \in ScheduleDelays \cup {0} : Push(j, d)
           \/ \E j \in Jobs : PushError(j)
           \/ \E j \in Jobs, x \in Extensions : ExtendReservation(j, x)
           \/ Boot \/ Tick \/ UNCHANGED vars
  BY <1>3, <1>5 DEF Push, PushError, ExtendReservation, Boot, Tick, vars
<1>6. ~Crash
  <2>1. Crash => conn'[c] = IdleConn
    BY DEF Crash
  <2> QED
    BY <2>1, IdleTaskFields
<1> QED
  BY <1>1, <1>2, <1>4, <1>5, <1>6 DEF Next

\* Between its two statements reserve finds its entry where it put it.
LEMMA NextStored ==
    ASSUME ~SharedScores, TypeOK, Tickets, SweepTimes, StoredInSet, [Next]_vars
    PROVE  StoredInSet'
<1> DEFINE Own(d) == NewEntry(conn[d].val.jid, conn[d].val.fails, conn[d].val.exp, conn[d].val.exp)
<1> SUFFICES ASSUME NEW d \in Conns, conn'[d].pc = "stored"
             PROVE  /\ now' < conn'[d].val.exp
                    /\ NewEntry(conn'[d].val.jid, conn'[d].val.fails,
                                conn'[d].val.exp, conn'[d].val.exp) \in zset'["working"]
  BY DEF StoredInSet
<1>1. CASE \E t \in Timeouts : ReserveStore(d, t)
  BY <1>1, ReserveStoreFields
<1>2. CASE conn'[d] = conn[d]
  <2>1. /\ conn[d].pc = "stored" /\ now < conn[d].val.exp
        /\ Own(d) \in zset["working"]
    BY <1>2 DEF StoredInSet
  <2>2. now' < conn[d].val.exp
    <3>1. CASE now' = now
      BY <2>1, <3>1
    <3>2. CASE Tick
      BY <2>1, <3>2 DEF Tick, ReserveIsQuick
    <3> QED
      BY <3>1, <3>2, NowForward
  <2>3. Own(d).score = conn[d].val.exp /\ Own(d).jid = conn[d].val.jid
    BY NewFields
  <2> HIDE DEF Own
  <2>4. Own(d) \in zset'["working"]
    <3>1. ASSUME NEW c \in Conns, AckRemove(c) \/ FailRemove(c),
                 zset'["working"] = zset["working"] \ Found(conn[c].val.jid),
                 \A e \in Found(conn[c].val.jid) : e.jid = conn[c].val.jid
          PROVE  Own(d) \in zset'["working"]
      <4>1. conn[c].pc \in {"ackrem", "failrem"} /\ c # d
        BY <2>1, <3>1 DEF AckRemove, FailRemove
      <4>2. conn[c].val.jid # conn[d].val.jid
        <5>1. conn[c].val.jid \in Jobs
          BY HandTypes
        <5> QED
          BY <2>1, <4>1, <5>1 DEF Tickets, OneTicket, Ticket
      <4> QED
        BY <2>1, <2>3, <3>1, <4>2
    <3>2. ASSUME NEW e \in task.batch, zset'["working"] = zset["working"] \ {e}
          PROVE  Own(d) \in zset'["working"]
      <4>1. e.score <= task.when /\ task.when <= now /\ e.score \in Nat
            /\ task.when \in Nat /\ now \in Nat
        BY DEF SweepTimes, TypeOK, Entry
      <4>2. conn[d].val.exp \in Nat
        BY HandTypes
      <4>3. e.score # conn[d].val.exp
        BY <2>1, <4>1, <4>2
      <4> QED
        BY <2>1, <2>3, <3>2, <4>3
    <3>3. CASE ReapExtend
      BY <2>1, <3>3 DEF ReapExtend, AddElement, TypeOK, SetNames
    <3>4. ASSUME NEW c \in Conns, NEW t \in Timeouts, ReserveStore(c, t)
          PROVE  Own(d) \in zset'["working"]
      BY <2>1, <3>4, ReserveStoreFields
    <3> QED
      BY <2>1, <3>1, <3>2, <3>3, <3>4, WorkingSteps
  <2> QED
    BY <1>2, <2>2, <2>4 DEF Own
<1> QED
  BY <1>1, <1>2, StoredSteps

-----------------------------------------------------------------------------
(* Expiries *)

\* What ReserveMap puts into memory.
LEMMA ReserveMapFields ==
    ASSUME TypeOK, NEW c \in Conns, ReserveMap(c)
    PROVE  LET v == conn[c].val IN
           /\ conn[c].pc = "stored" /\ v.jid \in Jobs
           /\ workingMap' = workingMap \cup {v.jid}
           /\ reservation'[v.jid].exp = v.exp /\ reservation'[v.jid].fails = v.fails
           /\ reservation'[v.jid].ext = 0
           /\ deliveries'[v.jid] = deliveries[v.jid] + 1
           /\ \A j \in Jobs \ {v.jid} : reservation'[j] = reservation[j]
                                        /\ deliveries'[j] = deliveries[j]
           /\ conn'[c].pc = "idle" /\ \A d \in Conns \ {c} : conn'[d] = conn[d]
           /\ UNCHANGED <<now, queue, zset, task, fate>>
<1> DEFINE v == conn[c].val
           r0 == [exp |-> v.exp, texp |-> v.exp, ext |-> 0, fails |-> v.fails]
<1>1. /\ conn[c].pc = "stored" /\ Idle(c) /\ workingMap' = workingMap \cup {v.jid}
      /\ reservation' = [reservation EXCEPT ![v.jid] = r0]
      /\ deliveries' = [deliveries EXCEPT ![v.jid] = @ + 1]
      /\ UNCHANGED <<now, queue, zset, task, fate>>
  BY DEF ReserveMap, store
<1>2. r0.exp = v.exp /\ r0.fails = v.fails /\ r0.ext = 0
  OBVIOUS
<1>3. v.jid \in Jobs
  BY HandTypes
<1>4. conn'[c].pc = "idle" /\ \A d \in Conns \ {c} : conn'[d] = conn[d]
  BY <1>1, IdleFields
<1> HIDE DEF r0
<1>5. /\ reservation'[v.jid] = r0
      /\ \A j \in Jobs \ {v.jid} : reservation'[j] = reservation[j]
  BY <1>1, <1>3 DEF TypeOK
<1>6. /\ deliveries'[v.jid] = deliveries[v.jid] + 1
      /\ \A j \in Jobs \ {v.jid} : deliveries'[j] = deliveries[j]
  BY <1>1, <1>3 DEF TypeOK
<1> QED
  BY <1>1, <1>2, <1>3, <1>4, <1>5, <1>6

\* What loadWorkingSet brings back: the only entry of the job.
LEMMA BootFields ==
    ASSUME TypeOK, AtMostOneCopy, Boot
    PROVE  /\ workingMap' = {e.jid : e \in zset["working"]}
           /\ \A e \in zset["working"] :
                /\ reservation'[e.jid].exp = e.exp /\ reservation'[e.jid].fails = e.fails
                /\ reservation'[e.jid].ext = 0
           /\ \A j \in Jobs : reservation'[j].ext = 0
           /\ UNCHANGED <<now, queue, zset, conn, task, fate, deliveries>>
           /\ ~up
<1>1. /\ workingMap' = {e.jid : e \in zset["working"]} /\ ~up
      /\ UNCHANGED <<now, queue, zset, conn, task, fate, deliveries>>
      /\ reservation' = [j \in Jobs |-> IF j \in workingMap' THEN Restored(j) ELSE NoReservation]
  BY DEF Boot, Loaded, store, history
<1>2. \A e \in zset["working"] : e.jid \in Jobs
  BY DEF TypeOK, SetNames, Entry
<1>3. ASSUME NEW e \in zset["working"]
      PROVE  Restored(e.jid).exp = e.exp /\ Restored(e.jid).fails = e.fails
  <2> DEFINE x0 == CHOOSE x \in zset["working"] : x.jid = e.jid
  <2>1. x0 \in zset["working"] /\ x0.jid = e.jid
    OBVIOUS
  <2>2. x0 = e
    BY <2>1 DEF AtMostOneCopy, OnceInSets, SetNames
  <2>3. Restored(e.jid).exp = x0.exp /\ Restored(e.jid).fails = x0.fails
    BY DEF Restored
  <2> HIDE DEF x0
  <2> QED
    BY <2>2, <2>3
<1>4. \A j \in Jobs : Restored(j).ext = 0 /\ NoReservation.ext = 0
  BY DEF Restored, NoReservation
<1>5. \A e \in zset["working"] : e.jid \in workingMap' /\ reservation'[e.jid] = Restored(e.jid)
  BY <1>1, <1>2
<1>6. \A j \in Jobs : reservation'[j] = Restored(j) \/ reservation'[j] = NoReservation
  BY <1>1
<1>7. \A j \in Jobs : reservation'[j].ext = 0
  BY <1>4, <1>6
<1> QED
  BY <1>1, <1>2, <1>3, <1>5, <1>7

\* An extension that ReapCheck takes over.
LEMMA ReapCheckFields ==
    ASSUME TypeOK, ReapCheck
    PROVE  LET j == task.hand.jid IN
           /\ task.pc = "check" /\ task'.when = task.when /\ task'.hand = task.hand
           /\ task'.batch = task.batch
           /\ \/ /\ task'.pc = "extend" /\ j \in workingMap
                 /\ task.when < reservation[j].ext
                 /\ reservation'[j].exp = reservation[j].ext
              \/ task'.pc = "clear" /\ UNCHANGED reservation
           /\ \A i \in Jobs : reservation'[i].ext = reservation[i].ext
                              /\ reservation'[i].fails = reservation[i].fails
           /\ \A i \in Jobs \ {j} : reservation'[i] = reservation[i]
           /\ UNCHANGED <<now, queue, zset, workingMap, conn, fate, deliveries>>
<1> DEFINE j == task.hand.jid
           r == reservation[j]
           r0 == [r EXCEPT !.exp = r.ext, !.texp = r.ext]
<1>0. j \in Jobs /\ r \in Reservation
  BY HandTypes DEF TypeOK
<1>1. /\ task.pc = "check"
      /\ UNCHANGED <<now, queue, zset, workingMap, conn, fate, deliveries>>
  BY DEF ReapCheck, store, history
<1>2. CASE UNCHANGED reservation /\ Goto("clear")
  BY <1>1, <1>2, GotoFields
<1>3. CASE /\ j \in workingMap /\ task.when < r.ext /\ Goto("extend")
           /\ reservation' = [reservation EXCEPT ![j] = r0]
  <2>1. r0.exp = r.ext /\ r0.ext = r.ext /\ r0.fails = r.fails
    BY <1>0 DEF Reservation
  <2>2. /\ task'.pc = "extend" /\ task'.when = task.when /\ task'.hand = task.hand
        /\ task'.batch = task.batch
    BY <1>3, GotoFields
  <2> HIDE DEF r0
  <2>3. reservation'[j] = r0 /\ \A i \in Jobs \ {j} : reservation'[i] = reservation[i]
    BY <1>0, <1>3 DEF TypeOK
  <2> QED
    BY <1>1, <1>3, <2>1, <2>2, <2>3
<1> QED
  BY <1>2, <1>3 DEF ReapCheck

\* What the reaper puts back.
LEMMA ReapExtendFields ==
    ASSUME TypeOK, ReapExtend
    PROVE  LET v == task.hand IN
           /\ task.pc = "extend" /\ task'.pc = "next" /\ v.jid \in Jobs
           /\ zset'["working"] = zset["working"] \cup
                {NewEntry(v.jid, v.fails, v.exp, reservation[v.jid].exp)}
           /\ \A s \in SetNames \ {"working"} : zset'[s] = zset[s]
           /\ UNCHANGED <<now, queue, workingMap, reservation, conn, fate, deliveries>>
<1>1. "working" \in SetNames /\ task.hand.jid \in Jobs
  BY HandTypes DEF SetNames
<1>2. task'.pc = "next"
  BY NextMemberFields DEF ReapExtend
<1> QED
  BY <1>1, <1>2 DEF ReapExtend, AddElement, TypeOK, memory, history

\* The expiries that a reservation keeps.
LEMMA ReservationSteps ==
    ASSUME TypeOK, [Next]_vars
    PROVE  \/ /\ workingMap' \subseteq workingMap
              /\ \A j \in Jobs : reservation'[j].exp = reservation[j].exp
                                 /\ reservation'[j].fails = reservation[j].fails
           \/ \E c \in Conns : ReserveMap(c)
           \/ ReapCheck \/ Crash \/ Boot
<1>1. CASE UNCHANGED reservation /\ workingMap' \subseteq workingMap
  BY <1>1
<1>2. ASSUME NEW c \in Conns, ConnNext(c)
      PROVE  ReserveMap(c) \/ (UNCHANGED reservation /\ workingMap' \subseteq workingMap)
  BY <1>2 DEF ConnNext, FetchPop, ReserveStore, AckClear, FailClear, clearReservation,
     AckRemove, FailRemove, FailStore, StoreError, memory
<1>3. CASE TaskStep \/ TaskError \/ \E n \in TaskNames : TaskStart(n)
  BY <1>1, <1>3 DEF TaskStep, TaskScan, TaskRemove, TaskEnqueue, ReapExtend,
     ReapClear, clearReservation, ReapStore, TaskEnd, TaskError, TaskStart, memory
<1>4. CASE \/ \E j \in Jobs, d \in ScheduleDelays \cup {0} : Push(j, d)
           \/ \E j \in Jobs : PushError(j)
           \/ Tick \/ UNCHANGED vars
  BY <1>1, <1>4 DEF Push, PushError, Tick, vars, memory
<1>5. ASSUME NEW j \in Jobs, NEW x \in Extensions, ExtendReservation(j, x)
      PROVE  /\ workingMap' \subseteq workingMap
             /\ \A i \in Jobs : reservation'[i].exp = reservation[i].exp
                                /\ reservation'[i].fails = reservation[i].fails
  <2>1. UNCHANGED workingMap /\ reservation' = [reservation EXCEPT ![j].ext = now + x]
    BY <1>5 DEF ExtendReservation
  <2> QED
    BY <2>1 DEF TypeOK, Reservation
<1> QED
  BY <1>2, <1>3, <1>4, <1>5 DEF Next

\* The task runner holds an expired job after TaskRemove, ReapCheck or because
\* it did.
LEMMA ReapingSteps ==
    ASSUME TypeOK, [Next]_vars, task'.pc \in {"check", "clear", "extend"}
    PROVE  task' = task \/ ReapCheck \/ \E e \in task.batch : TaskRemove(e)
<1>1. \A n : ~NextMember(n)
  BY NextMemberFields
<1>2. ~Goto("scan") /\ task' # IdleTask
  BY GotoFields, IdleTaskFields
<1>3. ~TaskScan /\ ~ReapClear /\ \A n \in TaskNames : ~TaskStart(n)
  BY <1>1 DEF TaskScan, ReapClear, TaskStart, TypeOK
<1>4. ~TaskEnqueue /\ ~ReapExtend /\ ~ReapStore /\ ~TaskEnd /\ ~TaskError /\ ~Crash
  BY <1>1, <1>2 DEF TaskEnqueue, ReapExtend, ReapStore, TaskEnd, TaskError, Crash
<1>5. ASSUME NEW c \in Conns, ConnNext(c)
      PROVE  task' = task
  BY <1>5 DEF ConnNext, FetchPop, ReserveStore, ReserveMap, AckClear, FailClear,
     AckRemove, FailRemove, FailStore, StoreError
<1>6. CASE \/ \E j \in Jobs, d \in ScheduleDelays \cup {0} : Push(j, d)
           \/ \E j \in Jobs : PushError(j)
           \/ \E j \in Jobs, x \in Extensions : ExtendReservation(j, x)
           \/ Boot \/ Tick \/ UNCHANGED vars
  BY <1>6 DEF Push, PushError, ExtendReservation, Boot, Tick, vars
<1> QED
  BY <1>3, <1>4, <1>5, <1>6 DEF Next, TaskStep

\* The job of a connection between the two statements of reserve is in no
\* other hands.
LEMMA StoredAlone ==
    ASSUME TypeOK, AtMostOneCopy, StoredInSet, NEW c \in Conns, conn[c].pc = "stored"
    PROVE  LET v == conn[c].val IN
           /\ v.jid \in Jobs /\ InSet("working", v.jid) /\ ~InSweep(v.jid)
           /\ \A e \in zset["working"] : e.jid = v.jid =>
                e.score = v.exp /\ e.exp = v.exp /\ e.fails = v.fails
<1> DEFINE v == conn[c].val
           e0 == NewEntry(v.jid, v.fails, v.exp, v.exp)
<1>1. e0 \in zset["working"] /\ v.jid \in Jobs /\ "working" \in SetNames
  BY HandTypes DEF StoredInSet, SetNames
<1>2. e0.jid = v.jid /\ e0.score = v.exp /\ e0.exp = v.exp /\ e0.fails = v.fails
  BY NewFields
<1> HIDE DEF e0
<1>3. InSet("working", v.jid)
  BY <1>1, <1>2 DEF InSet
<1>4. \A e \in zset["working"] : e.jid = v.jid => e = e0
  BY <1>1, <1>2 DEF AtMostOneCopy, OnceInSets
<1>5. ~InSweep(v.jid)
  BY <1>1, <1>3 DEF AtMostOneCopy, SweepOnly
<1> QED
  BY <1>1, <1>2, <1>3, <1>4, <1>5

\* The numbers Expiries compares.
LEMMA ExpiryTypes ==
    ASSUME TypeOK
    PROVE  /\ \A e \in zset["working"] : e.score \in Nat /\ e.exp \in Nat /\ e.jid \in Jobs
           /\ task.when \in Nat /\ task.hand.exp \in Nat /\ task.hand.jid \in Jobs
           /\ \A e \in task.batch : e.score \in Nat /\ e.exp \in Nat /\ e.jid \in Jobs
           /\ \A j \in Jobs : reservation[j].exp \in Nat /\ reservation[j].ext \in Nat
<1>1. zset["working"] \subseteq Entry /\ task.batch \subseteq Entry
  BY DEF TypeOK, SetNames
<1>2. \A e \in Entry : e.score \in Nat /\ e.exp \in Nat /\ e.jid \in Jobs
  BY DEF Entry
<1>3. task.when \in Nat
  BY DEF TypeOK
<1> QED
  BY <1>1, <1>2, <1>3, HandTypes

\* The entries of the working set.
LEMMA NextEntries ==
    ASSUME ~SharedScores, TypeOK, AtMostOneCopy, Tickets, StoredInSet, Expiries, [Next]_vars,
           NEW e \in zset'["working"]
    PROVE  e.exp <= e.score /\ (e.jid \in workingMap' => reservation'[e.jid].exp <= e.score)
<1>0. \A x \in zset["working"] :
        /\ x.score \in Nat /\ x.exp \in Nat /\ x.jid \in Jobs /\ x.exp <= x.score
        /\ x.jid \in workingMap => reservation[x.jid].exp <= x.score
  BY ExpiryTypes DEF Expiries
<1>1. ASSUME NEW c \in Conns, NEW t \in Timeouts, ReserveStore(c, t), e \notin zset["working"]
      PROVE  e.exp <= e.score /\ e.jid \notin workingMap'
  <2>1. /\ e = NewEntry(conn[c].val.jid, conn[c].val.fails, now + t, now + t)
        /\ conn[c].pc = "popped" /\ workingMap' = workingMap /\ now + t \in Nat
    BY <1>1, ReserveStoreFields
  <2>2. e.exp = now + t /\ e.score = now + t /\ e.jid = conn[c].val.jid
    BY <2>1, NewFields
  <2>3. e.jid \in Jobs /\ Loose(e.jid)
    <3>1. conn[c].val.jid \in Jobs
      BY HandTypes
    <3>2. InHand(c, e.jid)
      BY <2>1, <2>2 DEF InHand, ConnHolds
    <3> QED
      BY <2>2, <3>1, <3>2 DEF Loose
  <2>4. e.jid \notin workingMap
    BY <2>3 DEF Tickets, OneTicket
  <2>5. e.exp <= e.score
    BY <2>1, <2>2
  <2> QED
    BY <2>1, <2>4, <2>5
<1>2. ASSUME ReapExtend, e \notin zset["working"]
      PROVE  e.exp <= e.score /\ reservation'[e.jid].exp = e.score
  <2>1. /\ e = NewEntry(task.hand.jid, task.hand.fails, task.hand.exp,
                        reservation[task.hand.jid].exp)
        /\ task.pc = "extend" /\ UNCHANGED reservation
    BY <1>2, ReapExtendFields
  <2>2. /\ e.exp = task.hand.exp /\ e.score = reservation[task.hand.jid].exp
        /\ e.jid = task.hand.jid
    BY <2>1, NewFields
  <2>3. task.hand.exp <= task.when /\ task.when < reservation[task.hand.jid].exp
    BY <2>1 DEF Expiries
  <2>4. /\ task.hand.exp \in Nat /\ task.when \in Nat
        /\ reservation[task.hand.jid].exp \in Nat
    BY ExpiryTypes
  <2> QED
    BY <2>1, <2>2, <2>3, <2>4
<1>3. e \in zset["working"] \/ ReapExtend \/ \E c \in Conns, t \in Timeouts : ReserveStore(c, t)
  BY WorkingSteps
<1>4. ASSUME e \in zset["working"]
      PROVE  e.jid \in workingMap' => reservation'[e.jid].exp <= e.score
  <2>0. e.jid \in Jobs
    BY <1>0, <1>4
  <2>1. CASE /\ workingMap' \subseteq workingMap
             /\ \A j \in Jobs : reservation'[j].exp = reservation[j].exp
    BY <1>0, <1>4, <2>0, <2>1
  <2>2. ASSUME NEW c \in Conns, ReserveMap(c)
        PROVE  e.jid \in workingMap' => reservation'[e.jid].exp <= e.score
    <3>1. CASE e.jid = conn[c].val.jid
      <4>1. conn[c].pc = "stored" /\ reservation'[e.jid].exp = conn[c].val.exp
        BY <2>2, <3>1, ReserveMapFields
      <4>2. e.score = conn[c].val.exp
        BY <1>4, <3>1, <4>1, StoredAlone
      <4> QED
        BY <1>0, <1>4, <4>1, <4>2
    <3>2. CASE e.jid # conn[c].val.jid
      <4>1. /\ reservation'[e.jid] = reservation[e.jid]
            /\ e.jid \in workingMap' => e.jid \in workingMap
        BY <2>0, <2>2, <3>2, ReserveMapFields
      <4> QED
        BY <1>0, <1>4, <4>1
    <3> QED
      BY <3>1, <3>2
  <2>3. CASE ReapCheck
    <3>1. e.jid # task.hand.jid
      <4>1. InSweep(task.hand.jid) /\ task.hand.jid \in Jobs
        BY <2>3, HandTypes DEF ReapCheck, InSweep, TaskHolds
      <4>2. ~InSet("working", task.hand.jid)
        BY <4>1 DEF AtMostOneCopy, SweepOnly, SetNames
      <4> QED
        BY <1>4, <4>2 DEF InSet
    <3>2. reservation'[e.jid] = reservation[e.jid] /\ workingMap' = workingMap
      BY <2>0, <2>3, <3>1, ReapCheckFields
    <3> QED
      BY <1>0, <1>4, <3>2
  <2>4. CASE Crash
    BY <2>4 DEF Crash
  <2>5. CASE Boot
    BY <1>0, <1>4, <2>5, BootFields
  <2> QED
    BY <2>1, <2>2, <2>3, <2>4, <2>5, ReservationSteps
<1>5. ASSUME ReapExtend, e \notin zset["working"]
      PROVE  reservation'[e.jid].exp <= e.score
  <2>1. e.score \in Nat
    <3>1. /\ e = NewEntry(task.hand.jid, task.hand.fails, task.hand.exp,
                          reservation[task.hand.jid].exp)
      BY <1>5, ReapExtendFields
    <3>2. e.score = reservation[task.hand.jid].exp
      BY <3>1, NewFields
    <3> QED
      BY <3>2, ExpiryTypes
  <2> QED
    BY <1>2, <1>5, <2>1
<1> QED
  BY <1>0, <1>1, <1>2, <1>3, <1>4, <1>5

\* What the reaper holds.
LEMMA NextReaping ==
    ASSUME TypeOK, AtMostOneCopy, StoredInSet, SweepTimes, Expiries, Down, [Next]_vars
    PROVE  /\ task'.pc \in {"check", "clear", "extend"} => task'.hand.exp <= task'.when
           /\ task'.pc \in {"check", "clear"} /\ task'.hand.jid \in workingMap' =>
                reservation'[task'.hand.jid].exp <= task'.when
           /\ task'.pc = "extend" => task'.when < reservation'[task'.hand.jid].exp
<1>0. /\ task.when \in Nat /\ task.hand.exp \in Nat /\ task.hand.jid \in Jobs
      /\ \A j \in Jobs : reservation[j].exp \in Nat /\ reservation[j].ext \in Nat
  BY ExpiryTypes
<1> SUFFICES ASSUME task'.pc \in {"check", "clear", "extend"}
             PROVE  /\ task'.hand.exp <= task'.when
                    /\ task'.pc \in {"check", "clear"} /\ task'.hand.jid \in workingMap' =>
                         reservation'[task'.hand.jid].exp <= task'.when
                    /\ task'.pc = "extend" => task'.when < reservation'[task'.hand.jid].exp
  OBVIOUS
<1>1. CASE ReapCheck
  <2>1. /\ task.pc = "check" /\ task'.when = task.when /\ task'.hand = task.hand
        /\ workingMap' = workingMap
        /\ \/ /\ task'.pc = "extend"
              /\ task.when < reservation[task.hand.jid].ext
              /\ reservation'[task.hand.jid].exp = reservation[task.hand.jid].ext
           \/ task'.pc = "clear" /\ UNCHANGED reservation
    BY <1>1, ReapCheckFields
  <2>2. /\ task.hand.exp <= task.when
        /\ task.hand.jid \in workingMap => reservation[task.hand.jid].exp <= task.when
    BY <2>1 DEF Expiries
  <2> QED
    BY <2>1, <2>2
<1>2. ASSUME NEW e \in task.batch, TaskRemove(e)
      PROVE  /\ task'.hand.exp <= task'.when /\ task'.pc = "check"
             /\ task'.hand.jid \in workingMap' => reservation'[task'.hand.jid].exp <= task'.when
  <2>1. /\ task'.pc = "check" /\ e \in zset["working"] /\ task'.hand = ValueOf(e)
        /\ task'.when = task.when
    BY <1>2, TaskRemoveFields
  <2>2. task'.hand.exp = e.exp /\ task'.hand.jid = e.jid
    BY <2>1, NewFields
  <2>3. UNCHANGED <<workingMap, reservation>>
    BY <1>2 DEF TaskRemove, memory
  <2>4. /\ e.exp <= e.score /\ (e.jid \in workingMap => reservation[e.jid].exp <= e.score)
        /\ e.score <= task.when
    BY <2>1 DEF Expiries, SweepTimes
  <2>5. e.exp \in Nat /\ e.score \in Nat /\ e.jid \in Jobs
    BY ExpiryTypes
  <2>6. e.exp <= task.when
    BY <1>0, <2>4, <2>5
  <2>7. e.jid \in workingMap => reservation[e.jid].exp <= task.when
    BY <1>0, <2>4, <2>5
  <2> QED
    BY <2>1, <2>2, <2>3, <2>6, <2>7
<1>3. CASE task' = task
  <2>1. /\ task.pc \in {"check", "clear", "extend"} /\ task.hand.exp <= task.when
        /\ task.pc \in {"check", "clear"} /\ task.hand.jid \in workingMap =>
             reservation[task.hand.jid].exp <= task.when
        /\ task.pc = "extend" => task.when < reservation[task.hand.jid].exp
    BY <1>3 DEF Expiries
  <2>2. CASE /\ workingMap' \subseteq workingMap
             /\ \A j \in Jobs : reservation'[j].exp = reservation[j].exp
    BY <1>0, <1>3, <2>1, <2>2
  <2>3. ASSUME NEW c \in Conns, ReserveMap(c)
        PROVE  /\ reservation'[task.hand.jid] = reservation[task.hand.jid]
               /\ task.hand.jid \in workingMap' => task.hand.jid \in workingMap
    <3>1. InSweep(task.hand.jid)
      BY <2>1 DEF InSweep, TaskHolds
    <3>2. conn[c].pc = "stored"
      BY <2>3, ReserveMapFields
    <3>3. ~InSweep(conn[c].val.jid)
      BY <3>2, StoredAlone
    <3>4. task.hand.jid # conn[c].val.jid
      BY <3>1, <3>3
    <3> QED
      BY <1>0, <2>3, <3>4, ReserveMapFields
  <2>4. CASE Crash \/ Boot
    <3>1. Boot => task.pc = "idle"
      BY DEF Boot, Down
    <3>2. Crash => task'.pc = "idle"
      BY IdleTaskFields DEF Crash
    <3> QED
      BY <1>3, <2>1, <2>4, <3>1, <3>2
  <2> QED
    BY <1>1, <1>3, <2>1, <2>2, <2>3, <2>4, ReservationSteps
<1> QED
  BY <1>1, <1>2, <1>3, ReapingSteps

\* Nothing is there and nobody does anything at the start.
LEMMA InitReserve == Init => ReserveInv
<1> SUFFICES ASSUME Init
             PROVE  ReserveInv
  OBVIOUS
<1>1. /\ now = 1 /\ workingMap = {} /\ task = IdleTask /\ up = TRUE
      /\ \A c \in Conns : conn[c] = IdleConn
  BY Zenon DEF Init
<1>2. zset["working"] = {}
  BY DEF Init, SetNames
<1>3. Tickets
  <2>1. \A c \in Conns, j \in Jobs : ~Ticket(c, j)
    BY <1>1, IdleTaskFields DEF Ticket
  <2> QED
    BY <1>1, <2>1 DEF Tickets, OneTicket
<1>4. StoredInSet
  BY <1>1, IdleTaskFields DEF StoredInSet
<1>5. SweepTimes
  BY <1>1, IdleTaskFields DEF SweepTimes
<1>6. Expiries
  BY <1>1, <1>2, IdleTaskFields DEF Expiries
<1>7. Down
  BY <1>1 DEF Down
<1> QED
  BY <1>3, <1>4, <1>5, <1>6, <1>7 DEF ReserveInv

\* Every step preserves the invariant.
LEMMA NextReserve ==
    ASSUME ~SharedScores, TypeOK, Custody, Custody', ReserveInv, [Next]_vars
    PROVE  ReserveInv'
<1>1. AtMostOneCopy /\ AtMostOneCopy'
  BY DEF Custody
<1>2. Tickets' /\ Down'
  BY <1>1, NextTickets, NextDown DEF ReserveInv
<1>3. SweepTimes' /\ StoredInSet'
  BY NextSweepTimes, NextStored DEF ReserveInv
<1>4. Expiries'
  BY <1>1, NextEntries, NextReaping DEF ReserveInv, Expiries
<1> QED
  BY <1>2, <1>3, <1>4 DEF ReserveInv

\* The invariant of the reservations, with those it rests on.
LEMMA ReserveInvariant ==
    ASSUME ~SharedScores
    PROVE  Spec => [](TypeOK /\ Custody /\ ReserveInv)
<1>1. Init => TypeOK /\ Custody /\ ReserveInv
  BY InitType, InitCustody, InitReserve
<1>2. TypeOK /\ Custody /\ ReserveInv /\ [Next]_vars => (TypeOK /\ Custody /\ ReserveInv)'
  BY NextType, NextCustody, NextReserve
<1> QED
  BY <1>1, <1>2, PTL DEF Spec

(***************************************************************************)
(* Reserve never installs a reservation over one that a command or the     *)
(* reaper still works with, however FETCH, ACK, FAIL, extensions, sweeps,  *)
(* crashes and Redis errors interleave.                                    *)
(***************************************************************************)
THEOREM ReservationsAreFresh ==
    ASSUME ~SharedScores
    PROVE  Spec => FreshReservation
<1>1. ASSUME TypeOK, Custody, ReserveInv, NEW c \in Conns, ReserveMap(c)
      PROVE  LET j == conn[c].val.jid IN
             /\ j \notin workingMap
             /\ \A d \in Conns \ {c} : conn[d].pc # "idle" => conn[d].val.jid # j
             /\ ~InSweep(j)
  <2> DEFINE j == conn[c].val.jid
  <2>1. conn[c].pc = "stored" /\ j \in Jobs
    BY <1>1, ReserveMapFields
  <2>2. Ticket(c, j)
    BY <2>1 DEF Ticket
  <2>3. OneTicket(j)
    BY <1>1, <2>1 DEF ReserveInv, Tickets
  <2>4. ~InSweep(j)
    BY <1>1, <2>1, StoredAlone DEF Custody, ReserveInv
  <2>5. ASSUME NEW d \in Conns \ {c}, conn[d].pc # "idle", conn[d].val.jid = j
        PROVE  FALSE
    <3>1. conn[d].pc \in {"popped", "failadd"} \/ Ticket(d, j)
      BY <1>1, <2>5 DEF TypeOK, ConnStates, Ticket
    <3>2. conn[d].pc \in {"popped", "failadd"} => Loose(j)
      BY <2>5 DEF Loose, InHand, ConnHolds
    <3> QED
      BY <2>2, <2>3, <3>1, <3>2 DEF OneTicket
  <2> QED
    BY <2>2, <2>3, <2>4, <2>5 DEF OneTicket
<1>2. TypeOK /\ Custody /\ ReserveInv =>
        [\A c \in Conns : ReserveMap(c) =>
            LET j == conn[c].val.jid IN
            /\ j \notin workingMap
            /\ \A d \in Conns \ {c} : conn[d].pc # "idle" => conn[d].val.jid # j
            /\ ~InSweep(j)]_vars
  BY <1>1
<1> QED
  BY <1>2, ReserveInvariant, PTL DEF FreshReservation

(***************************************************************************)
(* Only time takes a job from its worker: when the reaper clears a         *)
(* reservation, the sweep began after the expiry the reservation has in    *)
(* memory, also with extensions and after a restart.                       *)
(***************************************************************************)
THEOREM OnlyExpiredIsReaped ==
    ASSUME ~SharedScores
    PROVE  Spec => ReapOnlyExpired
<1>1. ASSUME TypeOK, ReserveInv, NEW j \in workingMap \ workingMap', ReapClear
      PROVE  reservation[j].exp <= task.when /\ task.when <= now
  <2>1. task.pc = "clear" /\ j = task.hand.jid
    BY <1>1 DEF ReapClear, clearReservation
  <2> QED
    BY <1>1, <2>1 DEF ReserveInv, Expiries, SweepTimes
<1>2. TypeOK /\ Custody /\ ReserveInv =>
        [\A j \in workingMap \ workingMap' :
            ReapClear => reservation[j].exp <= task.when /\ task.when <= now]_vars
  BY <1>1
<1> QED
  BY <1>2, ReserveInvariant, PTL DEF ReapOnlyExpired

-----------------------------------------------------------------------------
(* How often a job is handed out *)

\* The three conditions depend on a copy's jid and failures only, and each
\* implies the next.
LEMMA CountRules ==
    /\ \A n, v, w : v.jid = w.jid /\ v.fails = w.fails =>
         /\ Early(n, v) => Early(n, w)
         /\ Given(n, v) => Given(n, w)
    /\ \A n \in Nat : \A v : v.fails \in Nat /\ Early(n, v) => Given(n, v)
    /\ \A n \in Nat, j \in Jobs : n = 0 => \A v : v.jid = j /\ v.fails = 0 => Early(n, v)
    /\ \A n \in Nat : \A v, w : Given(n, v) /\ w.fails = v.fails + 1 => Failed(n, w)
<1>1. ASSUME NEW n, NEW v, NEW w, v.jid = w.jid, v.fails = w.fails
      PROVE  (Early(n, v) => Early(n, w)) /\ (Given(n, v) => Given(n, w))
  BY <1>1 DEF Early, Given
<1>2. ASSUME NEW n \in Nat, NEW v, v.fails \in Nat, Early(n, v)
      PROVE  Given(n, v)
  <2> DEFINE f == v.fails
  <2>1. f \in Nat /\ n <= f
    BY <1>2 DEF Early
  <2> HIDE DEF f
  <2>2. n <= f + 1
    BY <2>1
  <2> QED
    BY <2>2 DEF Given, f
<1>3. ASSUME NEW n \in Nat, NEW j \in Jobs, n = 0, NEW v, v.jid = j, v.fails = 0
      PROVE  Early(n, v)
  <2>1. 0 <= Limit(j)
    BY ManagerAssumption DEF Limit
  <2> QED
    BY <1>3, <2>1 DEF Early
<1>4. ASSUME NEW n \in Nat, NEW v, NEW w, Given(n, v), w.fails = v.fails + 1
      PROVE  Failed(n, w)
  BY <1>4 DEF Given, Failed
<1> QED
  BY <1>1, <1>2, <1>3, <1>4

\* A job that retryOrBury puts into the retries may be enqueued again.
LEMMA RetryIsEarly ==
    ASSUME TypeOK, NEW v \in Value, NEW n \in Nat, Failed(n, v), retryOrBury(v)
    PROVE  \A s \in {"scheduled", "retries"} : \A e \in zset'[s] :
             e \in zset[s] \/ (e.jid = v.jid /\ Early(n, e))
<1>0. /\ v.jid \in Jobs /\ v.fails \in Nat /\ Retry[v.jid] \in Int
      /\ "retries" \in SetNames /\ "scheduled" \in SetNames
  BY ManagerAssumption DEF Value, SetNames
<1>1. ASSUME MayRetry(v), NEW x
      PROVE  Early(n, NewEntry(v.jid, v.fails, 0, x))
  <2>1. v.fails <= Limit(v.jid)
    BY <1>0, <1>1 DEF MayRetry, Limit
  <2>2. n <= v.fails
    BY DEF Failed
  <2> QED
    BY <2>1, <2>2, NewFields DEF Early
<1>2. ASSUME NEW d \in RetryDelays, MayRetry(v),
             zset' = [zset EXCEPT !["retries"] =
                        AddElement(@, NewEntry(v.jid, v.fails, 0, now + d))]
      PROVE  \A s \in {"scheduled", "retries"} : \A e \in zset'[s] :
               e \in zset[s] \/ (e.jid = v.jid /\ Early(n, e))
  <2> DEFINE e0 == NewEntry(v.jid, v.fails, 0, now + d)
  <2>1. e0.jid = v.jid /\ Early(n, e0)
    BY <1>1, <1>2, NewFields
  <2> HIDE DEF e0
  <2>2. zset'["retries"] = zset["retries"] \cup {e0} /\ zset'["scheduled"] = zset["scheduled"]
    BY <1>0, <1>2 DEF TypeOK, AddElement, e0
  <2> QED
    BY <2>1, <2>2
<1>3. CASE zset' = [zset EXCEPT !["dead"] =
                      AddElement(@, NewEntry(v.jid, v.fails, 0, now + DeadTTL))]
  <2>1. zset'["retries"] = zset["retries"] /\ zset'["scheduled"] = zset["scheduled"]
    BY <1>0, <1>3 DEF TypeOK
  <2> QED
    BY <2>1
<1> QED
  BY <1>2, <1>3 DEF retryOrBury

\* What enters the queue.
LEMMA QueueSteps ==
    ASSUME TypeOK, [Next]_vars, NEW i \in 1..Len(queue')
    PROVE  \/ \E k \in 1..Len(queue) : queue'[i] = queue[k]
           \/ \E j \in Jobs, d \in ScheduleDelays \cup {0} :
                Push(j, d) /\ queue'[i] = NewValue(j, 0)
           \/ TaskEnqueue /\ queue'[i] = NewValue(task.hand.jid, task.hand.fails)
<1>0. queue \in Seq(Value)
  BY DEF TypeOK
<1>1. ASSUME NEW v \in Value, queue' = Append(queue, v)
      PROVE  queue'[i] = v \/ \E k \in 1..Len(queue) : queue'[i] = queue[k]
  <2>1. /\ Len(queue) \in Nat /\ Len(queue') = Len(queue) + 1
        /\ \A k \in 1..Len(queue) : queue'[k] = queue[k]
        /\ queue'[Len(queue) + 1] = v
    BY <1>0, <1>1
  <2>2. i \in 1..Len(queue) \/ i = Len(queue) + 1
    BY <2>1
  <2> QED
    BY <2>1, <2>2
<1>2. CASE UNCHANGED queue
  BY <1>2
<1>3. ASSUME NEW c \in Conns, FetchPop(c)
      PROVE  \E k \in 1..Len(queue) : queue'[i] = queue[k]
  <2>1. queue # << >> /\ queue' = Tail(queue)
    BY <1>3 DEF FetchPop
  <2>2. /\ Len(queue) \in Nat /\ Len(queue') = Len(queue) - 1
        /\ \A k \in 1..Len(queue') : queue'[k] = queue[k + 1]
    BY <1>0, <2>1
  <2>3. i + 1 \in 1..Len(queue)
    BY <2>2
  <2> QED
    BY <2>2, <2>3
<1>4. ASSUME NEW c \in Conns, ConnNext(c)
      PROVE  FetchPop(c) \/ UNCHANGED queue
  BY <1>4 DEF ConnNext, ReserveStore, ReserveMap, AckClear, FailClear,
     AckRemove, FailRemove, FailStore, StoreError, store
<1>5. ASSUME NEW j \in Jobs, NEW d \in ScheduleDelays \cup {0}, Push(j, d)
      PROVE  queue'[i] = NewValue(j, 0) \/ \E k \in 1..Len(queue) : queue'[i] = queue[k]
  <2>1. NewValue(j, 0) \in Value
    BY ValueTypes
  <2> QED
    BY <1>1, <1>2, <1>5, <2>1 DEF Push
<1>6. ASSUME TaskEnqueue
      PROVE  \/ queue'[i] = NewValue(task.hand.jid, task.hand.fails)
             \/ \E k \in 1..Len(queue) : queue'[i] = queue[k]
  <2>1. NewValue(task.hand.jid, task.hand.fails) \in Value
    BY HandTypes, ValueTypes
  <2> QED
    BY <1>1, <1>6, <2>1 DEF TaskEnqueue
<1>7. CASE TaskStep \/ TaskError \/ \E n \in TaskNames : TaskStart(n)
  BY <1>2, <1>6, <1>7 DEF TaskStep, TaskScan, TaskRemove, ReapCheck, ReapExtend,
     ReapClear, ReapStore, TaskEnd, TaskError, TaskStart, store
<1>8. CASE \/ \E j \in Jobs : PushError(j)
           \/ \E j \in Jobs, x \in Extensions : ExtendReservation(j, x)
           \/ Crash \/ Boot \/ Tick \/ UNCHANGED vars
  BY <1>2, <1>8 DEF PushError, ExtendReservation, Crash, Boot, Tick, vars, store
<1> QED
  BY <1>3, <1>4, <1>5, <1>7, <1>8, <1>2 DEF Next

\* What enters the scheduled set and the retries.
LEMMA WaitingSteps ==
    ASSUME TypeOK, [Next]_vars, NEW s \in {"scheduled", "retries"}, NEW e \in zset'[s]
    PROVE  \/ e \in zset[s]
           \/ \E j \in Jobs, d \in ScheduleDelays \cup {0} :
                Push(j, d) /\ e.jid = j /\ e.fails = 0
           \/ \E c \in Conns : FailStore(c)
           \/ ReapStore
<1>0. s \in SetNames /\ s # "working"
  BY DEF SetNames
<1>1. ASSUME NEW c \in Conns, ConnNext(c)
      PROVE  FailStore(c) \/ e \in zset[s]
  BY <1>0, <1>1 DEF ConnNext, FetchPop, ReserveStore, ReserveMap, AckClear, FailClear,
     AckRemove, FailRemove, StoreError, store, TypeOK
<1>2. ASSUME NEW x \in task.batch, TaskRemove(x)
      PROVE  e \in zset[s]
  BY <1>0, <1>2 DEF TaskRemove, TypeOK
<1>3. CASE ReapExtend
  BY <1>0, <1>3, ReapExtendFields
<1>4. CASE TaskStep \/ TaskError \/ \E n \in TaskNames : TaskStart(n)
  BY <1>2, <1>3, <1>4 DEF TaskStep, TaskScan, TaskEnqueue, ReapCheck,
     ReapClear, TaskEnd, TaskError, TaskStart, store
<1>5. ASSUME NEW j \in Jobs, NEW d \in ScheduleDelays \cup {0}, Push(j, d)
      PROVE  e \in zset[s] \/ (e.jid = j /\ e.fails = 0)
  <2> DEFINE e0 == NewEntry(j, 0, 0, now + d)
  <2>1. e0.jid = j /\ e0.fails = 0
    BY NewFields
  <2> HIDE DEF e0
  <2>2. zset' = zset \/ zset' = [zset EXCEPT !["scheduled"] = @ \cup {e0}]
    BY <1>5 DEF Push, AddElement, e0
  <2>3. e \in zset[s] \/ e = e0
    BY <1>0, <2>2 DEF TypeOK
  <2> QED
    BY <2>1, <2>3
<1>6. CASE \/ \E j \in Jobs : PushError(j)
           \/ \E j \in Jobs, x \in Extensions : ExtendReservation(j, x)
           \/ Crash \/ Boot \/ Tick \/ UNCHANGED vars
  BY <1>6 DEF PushError, ExtendReservation, Crash, Boot, Tick, vars, store
<1> QED
  BY <1>1, <1>4, <1>5, <1>6 DEF Next

\* A connection changes by its own command, or a crash ends it.
LEMMA ConnSteps ==
    ASSUME TypeOK, [Next]_vars, NEW c \in Conns
    PROVE  conn'[c] = conn[c] \/ ConnNext(c) \/ conn'[c].pc = "idle"
<1>1. ASSUME NEW d \in Conns, ConnNext(d), d # c
      PROVE  conn'[c] = conn[c]
  BY <1>1 DEF ConnNext, FetchPop, ReserveStore, ReserveMap, AckClear, FailClear,
     AckRemove, FailRemove, FailStore, StoreError, Hold, Idle, TypeOK
<1>2. CASE TaskStep \/ TaskError \/ \E n \in TaskNames : TaskStart(n)
  BY <1>2 DEF TaskStep, TaskScan, TaskRemove, TaskEnqueue, ReapCheck, ReapExtend,
     ReapClear, ReapStore, TaskEnd, TaskError, TaskStart
<1>3. CASE \/ \E j \in Jobs, d \in ScheduleDelays \cup {0} : Push(j, d)
           \/ \E j \in Jobs : PushError(j)
           \/ \E j \in Jobs, x \in Extensions : ExtendReservation(j, x)
           \/ Boot \/ Tick \/ UNCHANGED vars
  BY <1>3 DEF Push, PushError, ExtendReservation, Boot, Tick, vars
<1>4. CASE Crash
  <2>1. conn'[c] = IdleConn
    BY <1>4 DEF Crash
  <2> QED
    BY <2>1, IdleTaskFields
<1> QED
  BY <1>1, <1>2, <1>3, <1>4 DEF Next

\* Only ReserveMap hands a job out.
LEMMA DeliverySteps ==
    ASSUME [Next]_vars
    PROVE  UNCHANGED deliveries \/ \E c \in Conns : ReserveMap(c)
<1>1. ASSUME NEW c \in Conns, ConnNext(c)
      PROVE  UNCHANGED deliveries \/ ReserveMap(c)
  BY <1>1 DEF ConnNext, FetchPop, ReserveStore, AckClear, FailClear,
     AckRemove, FailRemove, FailStore, StoreError, history
<1>2. CASE TaskStep \/ TaskError \/ \E n \in TaskNames : TaskStart(n)
  BY <1>2 DEF TaskStep, TaskScan, TaskRemove, TaskEnqueue, ReapCheck, ReapExtend,
     ReapClear, ReapStore, TaskEnd, TaskError, TaskStart, history
<1>3. CASE \/ \E j \in Jobs, d \in ScheduleDelays \cup {0} : Push(j, d)
           \/ \E j \in Jobs : PushError(j)
           \/ \E j \in Jobs, x \in Extensions : ExtendReservation(j, x)
           \/ Crash \/ Boot \/ Tick \/ UNCHANGED vars
  BY <1>3 DEF Push, PushError, ExtendReservation, Crash, Boot, Tick, vars, history
<1> QED
  BY <1>1, <1>2, <1>3 DEF Next

\* A job that was pushed stays pushed.
LEMMA UnbornSteps ==
    ASSUME TypeOK, [Next]_vars
    PROVE  \A j \in Jobs : fate'[j] = "unborn" => fate[j] = "unborn"
<1>1. ASSUME NEW c \in Conns, ConnNext(c)
      PROVE  \A j \in Jobs : fate'[j] = "unborn" => fate[j] = "unborn"
  BY <1>1 DEF ConnNext, FetchPop, ReserveStore, ReserveMap, AckClear, FailClear,
     AckRemove, FailRemove, FailStore, StoreError, Settle, TypeOK, history
<1>2. CASE TaskStep \/ TaskError \/ \E n \in TaskNames : TaskStart(n)
  BY <1>2, ZenonT(60) DEF TaskStep, TaskScan, TaskRemove, TaskEnqueue, ReapCheck, ReapExtend,
     ReapClear, ReapStore, TaskEnd, TaskError, TaskStart, Settle, TypeOK, history
<1>3. CASE \/ \E j \in Jobs, d \in ScheduleDelays \cup {0} : Push(j, d)
           \/ \E j \in Jobs : PushError(j)
           \/ \E j \in Jobs, x \in Extensions : ExtendReservation(j, x)
           \/ Boot \/ Tick \/ UNCHANGED vars
  BY <1>3 DEF Push, PushError, ExtendReservation, Boot, Tick, vars, TypeOK, history
<1>4. CASE Crash
  BY <1>4 DEF Crash
<1> QED
  BY <1>1, <1>2, <1>3, <1>4 DEF Next

\* The task runner holds a due job after TaskRemove, or because it did.
LEMMA EnqueueSteps ==
    ASSUME TypeOK, [Next]_vars, task'.pc = "enqueue"
    PROVE  task' = task \/ \E e \in task.batch : TaskRemove(e)
<1>1. \A n : ~NextMember(n)
  BY NextMemberFields
<1>2. ~Goto("scan") /\ ~Goto("extend") /\ ~Goto("clear") /\ task' # IdleTask
  BY GotoFields, IdleTaskFields
<1>3. ~TaskScan /\ ~ReapClear /\ \A n \in TaskNames : ~TaskStart(n)
  BY <1>1 DEF TaskScan, ReapClear, TaskStart, TypeOK
<1>4. /\ ~TaskEnqueue /\ ~ReapCheck /\ ~ReapExtend /\ ~ReapStore /\ ~TaskEnd
      /\ ~TaskError /\ ~Crash
  BY <1>1, <1>2 DEF TaskEnqueue, ReapCheck, ReapExtend, ReapStore, TaskEnd, TaskError, Crash
<1>5. ASSUME NEW c \in Conns, ConnNext(c)
      PROVE  task' = task
  BY <1>5 DEF ConnNext, FetchPop, ReserveStore, ReserveMap, AckClear, FailClear,
     AckRemove, FailRemove, FailStore, StoreError
<1>6. CASE \/ \E j \in Jobs, d \in ScheduleDelays \cup {0} : Push(j, d)
           \/ \E j \in Jobs : PushError(j)
           \/ \E j \in Jobs, x \in Extensions : ExtendReservation(j, x)
           \/ Boot \/ Tick \/ UNCHANGED vars
  BY <1>6 DEF Push, PushError, ExtendReservation, Boot, Tick, vars
<1> QED
  BY <1>3, <1>4, <1>5, <1>6 DEF Next, TaskStep

\* The task runner holds a failed job after ReapClear, or because it did.
LEMMA StoreSteps ==
    ASSUME TypeOK, [Next]_vars, task'.pc = "store"
    PROVE  task' = task \/ ReapClear
<1>1. \A n : ~NextMember(n)
  BY NextMemberFields
<1>2. ~Goto("scan") /\ ~Goto("extend") /\ ~Goto("clear") /\ task' # IdleTask
  BY GotoFields, IdleTaskFields
<1>3. ~TaskScan /\ \A n \in TaskNames : ~TaskStart(n)
  BY DEF TaskScan, TaskStart, TypeOK
<1>4. /\ ~TaskEnqueue /\ ~ReapCheck /\ ~ReapExtend /\ ~ReapStore /\ ~TaskEnd
      /\ ~TaskError /\ ~Crash
  BY <1>1, <1>2 DEF TaskEnqueue, ReapCheck, ReapExtend, ReapStore, TaskEnd, TaskError, Crash
<1>5. \A e \in task.batch : ~TaskRemove(e)
  BY TaskRemoveFields
<1>6. ASSUME NEW c \in Conns, ConnNext(c)
      PROVE  task' = task
  BY <1>6 DEF ConnNext, FetchPop, ReserveStore, ReserveMap, AckClear, FailClear,
     AckRemove, FailRemove, FailStore, StoreError
<1>7. CASE \/ \E j \in Jobs, d \in ScheduleDelays \cup {0} : Push(j, d)
           \/ \E j \in Jobs : PushError(j)
           \/ \E j \in Jobs, x \in Extensions : ExtendReservation(j, x)
           \/ Boot \/ Tick \/ UNCHANGED vars
  BY <1>7 DEF Push, PushError, ExtendReservation, Boot, Tick, vars
<1> QED
  BY <1>3, <1>4, <1>5, <1>6, <1>7 DEF Next, TaskStep

\* The numbers Counted compares.
LEMMA CountTypes ==
    ASSUME TypeOK
    PROVE  /\ \A j \in Jobs : deliveries[j] \in Nat /\ reservation[j].fails \in Nat
           /\ \A i \in 1..Len(queue) : queue[i].jid \in Jobs /\ queue[i].fails \in Nat
           /\ \A s \in SetNames : \A e \in zset[s] : e.jid \in Jobs /\ e.fails \in Nat
           /\ \A c \in Conns : /\ conn[c].val.jid \in Jobs /\ conn[c].val.fails \in Nat
                               /\ conn[c].val \in Value
           /\ task.hand.jid \in Jobs /\ task.hand.fails \in Nat /\ task.hand \in Value
<1>1. \A j \in Jobs : deliveries[j] \in Nat /\ reservation[j].fails \in Nat
  BY DEF TypeOK, Reservation
<1>2. \A i \in 1..Len(queue) : queue[i] \in Value
  BY DEF TypeOK
<1>3. \A s \in SetNames : \A e \in zset[s] : e.jid \in Jobs /\ e.fails \in Nat
  BY DEF TypeOK, Entry
<1>4. \A v \in Value : v.jid \in Jobs /\ v.fails \in Nat
  BY DEF Value
<1> QED
  BY <1>1, <1>2, <1>3, <1>4, HandTypes

\* The step that hands a job out.
LEMMA CountedReserveMap ==
    ASSUME TypeOK, AtMostOneCopy, ReserveInv, Counted, NEW c \in Conns, ReserveMap(c)
    PROVE  Counted'
<1>0. PICK h \in Jobs : h = conn[c].val.jid
  BY HandTypes
<1> DEFINE f == conn[c].val.fails
<1>1. /\ conn[c].pc = "stored"
      /\ workingMap' = workingMap \cup {h}
      /\ reservation'[h].fails = f
      /\ deliveries'[h] = deliveries[h] + 1
      /\ \A j \in Jobs \ {h} : reservation'[j] = reservation[j] /\ deliveries'[j] = deliveries[j]
      /\ conn'[c].pc = "idle" /\ \A d \in Conns \ {c} : conn'[d] = conn[d]
      /\ UNCHANGED <<now, queue, zset, task, fate>>
  BY <1>0, ReserveMapFields
<1>2. Ticket(c, h) /\ OneTicket(h)
  BY <1>0, <1>1 DEF Ticket, ReserveInv, Tickets
<1>3. ~Loose(h) /\ fate[h] # "unborn" /\ h \notin workingMap
      /\ \A d \in Conns : Ticket(d, h) => d = c
  BY <1>2 DEF OneTicket
<1>4. ~InSweep(h) /\ \A e \in zset["working"] : e.jid = h => e.fails = f
  BY <1>0, <1>1, StoredAlone DEF ReserveInv
<1>5. deliveries[h] \in Nat /\ f \in Nat /\ deliveries[h] <= f /\ f <= Limit(h)
  <2>1. Early(deliveries[h], conn[c].val)
    BY <1>0, <1>1 DEF Counted, EarlyCopies
  <2> QED
    BY <1>0, <2>1, CountTypes DEF Early
<1> HIDE DEF f
<1>6. deliveries'[h] <= f + 1 /\ deliveries'[h] \in Nat
  BY <1>1, <1>5
<1>7. EarlyCopies'
  <2>1. ASSUME NEW i \in 1..Len(queue)
        PROVE  Early(deliveries'[queue[i].jid], queue[i])
    <3>1. queue[i].jid # h /\ queue[i].jid \in Jobs
      BY <1>3, CountTypes DEF Loose, InQueue
    <3> QED
      BY <1>1, <3>1 DEF Counted, EarlyCopies
  <2>2. ASSUME NEW s \in {"scheduled", "retries"}, NEW e \in zset[s]
        PROVE  Early(deliveries'[e.jid], e)
    <3>1. e.jid # h /\ e.jid \in Jobs
      BY <1>3, CountTypes DEF Loose, InSet, SetNames
    <3> QED
      BY <1>1, <3>1 DEF Counted, EarlyCopies
  <2>3. ASSUME NEW d \in Conns, conn'[d].pc \in {"popped", "stored"}
        PROVE  Early(deliveries'[conn'[d].val.jid], conn'[d].val)
    <3>1. d # c /\ conn'[d] = conn[d]
      BY <1>1, <2>3
    <3>2. conn[d].val.jid # h /\ conn[d].val.jid \in Jobs
      <4>1. conn[d].pc = "popped" => conn[d].val.jid # h
        BY <1>3 DEF Loose, InHand, ConnHolds
      <4>2. conn[d].pc = "stored" => conn[d].val.jid # h
        BY <1>3, <3>1 DEF Ticket
      <4> QED
        BY <2>3, <3>1, <4>1, <4>2, CountTypes
    <3> QED
      BY <1>1, <2>3, <3>1, <3>2 DEF Counted, EarlyCopies
  <2>4. ASSUME task.pc = "enqueue"
        PROVE  Early(deliveries'[task.hand.jid], task.hand)
    <3>1. task.hand.jid # h /\ task.hand.jid \in Jobs
      BY <1>3, <2>4, CountTypes DEF Loose, InSweep, TaskHolds
    <3> QED
      BY <1>1, <2>4, <3>1 DEF Counted, EarlyCopies
  <2> QED
    BY <1>1, <2>1, <2>2, <2>3, <2>4 DEF EarlyCopies
<1>8. GivenCopies'
  <2>1. ASSUME NEW e \in zset["working"]
        PROVE  Given(deliveries'[e.jid], e)
    <3>1. CASE e.jid = h
      BY <1>4, <1>6, <3>1 DEF Given
    <3>2. CASE e.jid # h
      <4>1. e.jid \in Jobs
        BY CountTypes DEF SetNames
      <4> QED
        BY <1>1, <3>2, <4>1 DEF Counted, GivenCopies
    <3> QED
      BY <3>1, <3>2
  <2>2. ASSUME task.pc \in {"check", "clear", "extend"}
        PROVE  Given(deliveries'[task.hand.jid], task.hand)
    <3>1. task.hand.jid # h /\ task.hand.jid \in Jobs
      BY <1>4, <2>2, CountTypes DEF InSweep, TaskHolds
    <3> QED
      BY <1>1, <2>2, <3>1 DEF Counted, GivenCopies
  <2>3. ASSUME NEW j \in workingMap'
        PROVE  Given(deliveries'[j], reservation'[j])
    <3>1. CASE j = h
      BY <1>1, <1>6, <3>1 DEF Given
    <3>2. CASE j # h
      <4>1. j \in workingMap /\ j \in Jobs
        BY <1>1, <2>3, <3>2 DEF TypeOK
      <4> QED
        BY <1>1, <3>2, <4>1 DEF Counted, GivenCopies
    <3> QED
      BY <3>1, <3>2
  <2>4. ASSUME NEW d \in Conns, conn'[d].pc = "failrem"
        PROVE  Given(deliveries'[conn'[d].val.jid], reservation'[conn'[d].val.jid])
    <3>1. d # c /\ conn'[d] = conn[d]
      BY <1>1, <2>4
    <3>2. conn[d].val.jid # h /\ conn[d].val.jid \in Jobs
      BY <1>3, <2>4, <3>1, CountTypes DEF Ticket
    <3> QED
      BY <1>1, <2>4, <3>1, <3>2 DEF Counted, GivenCopies
  <2> QED
    BY <1>1, <2>1, <2>2, <2>3, <2>4 DEF GivenCopies
<1>9. FailedCopies'
  <2>1. ASSUME NEW d \in Conns, conn'[d].pc = "failadd"
        PROVE  Failed(deliveries'[conn'[d].val.jid], conn'[d].val)
    <3>1. d # c /\ conn'[d] = conn[d]
      BY <1>1, <2>1
    <3>2. conn[d].val.jid # h /\ conn[d].val.jid \in Jobs
      BY <1>3, <2>1, <3>1, CountTypes DEF Loose, InHand, ConnHolds
    <3> QED
      BY <1>1, <2>1, <3>1, <3>2 DEF Counted, FailedCopies
  <2>2. ASSUME task.pc = "store"
        PROVE  Failed(deliveries'[task.hand.jid], task.hand)
    <3>1. task.hand.jid # h /\ task.hand.jid \in Jobs
      BY <1>4, <2>2, CountTypes DEF InSweep, TaskHolds
    <3> QED
      BY <1>1, <2>2, <3>1 DEF Counted, FailedCopies
  <2> QED
    BY <1>1, <2>1, <2>2 DEF FailedCopies
<1>10. UnbornUngiven'
  <2> SUFFICES ASSUME NEW j \in Jobs, fate'[j] = "unborn"
               PROVE  deliveries'[j] = 0
    BY DEF UnbornUngiven
  <2>1. j # h /\ fate[j] = "unborn"
    BY <1>1, <1>3
  <2> QED
    BY <1>1, <2>1 DEF Counted, UnbornUngiven
<1>11. DeliveryBudget'
  <2> SUFFICES ASSUME NEW j \in Jobs
               PROVE  deliveries'[j] <= Budget(j)
    BY DEF DeliveryBudget
  <2>1. CASE j = h
    <3>1. Retry[h] \in Int
      BY ManagerAssumption
    <3>2. f + 1 <= Budget(h) /\ Budget(h) \in Int
      BY <1>5, <3>1 DEF Limit, Budget
    <3> QED
      BY <1>5, <1>6, <2>1, <3>2
  <2>2. CASE j # h
    BY <1>1, <2>2 DEF Counted, DeliveryBudget
  <2> QED
    BY <2>1, <2>2
<1> QED
  BY <1>7, <1>8, <1>9, <1>10, <1>11 DEF Counted

\* The copies that wait, when nothing is handed out.
LEMMA NextEarly ==
    ASSUME TypeOK, Counted, [Next]_vars, UNCHANGED deliveries
    PROVE  EarlyCopies'
<1> DEFINE D == deliveries
<1>0. \A j \in Jobs : D[j] \in Nat
  BY CountTypes
<1>1. ASSUME NEW j \in Jobs, NEW d \in ScheduleDelays \cup {0}, Push(j, d)
      PROVE  D[j] = 0
  BY <1>1 DEF Push, Counted, UnbornUngiven
<1>2. ASSUME NEW i \in 1..Len(queue')
      PROVE  Early(D[queue'[i].jid], queue'[i])
  <2>1. ASSUME NEW k \in 1..Len(queue), queue'[i] = queue[k]
        PROVE  Early(D[queue'[i].jid], queue'[i])
    BY <2>1 DEF Counted, EarlyCopies
  <2>2. ASSUME NEW j \in Jobs, NEW d \in ScheduleDelays \cup {0}, Push(j, d),
               queue'[i] = NewValue(j, 0)
        PROVE  Early(D[queue'[i].jid], queue'[i])
    <3>1. queue'[i].jid = j /\ queue'[i].fails = 0
      BY <2>2, NewFields
    <3> QED
      BY <1>0, <1>1, <2>2, <3>1, CountRules
  <2>3. ASSUME TaskEnqueue, queue'[i] = NewValue(task.hand.jid, task.hand.fails)
        PROVE  Early(D[queue'[i].jid], queue'[i])
    <3>1. queue'[i].jid = task.hand.jid /\ queue'[i].fails = task.hand.fails
      BY <2>3, NewFields
    <3>2. Early(D[task.hand.jid], task.hand)
      BY <2>3 DEF TaskEnqueue, Counted, EarlyCopies
    <3> QED
      BY <3>1, <3>2, CountRules
  <2> QED
    BY <2>1, <2>2, <2>3, QueueSteps
<1>3. ASSUME NEW s \in {"scheduled", "retries"}, NEW e \in zset'[s]
      PROVE  Early(D[e.jid], e)
  <2>1. CASE e \in zset[s]
    BY <2>1 DEF Counted, EarlyCopies
  <2>2. ASSUME NEW j \in Jobs, NEW d \in ScheduleDelays \cup {0}, Push(j, d),
               e.jid = j, e.fails = 0
        PROVE  Early(D[e.jid], e)
    BY <1>0, <1>1, <2>2, CountRules
  <2>3. ASSUME NEW v \in Value, Failed(D[v.jid], v), retryOrBury(v)
        PROVE  Early(D[e.jid], e)
    <3>1. D[v.jid] \in Nat
      BY <1>0 DEF Value
    <3>2. e \in zset[s] \/ (e.jid = v.jid /\ Early(D[v.jid], e))
      BY <2>3, <3>1, RetryIsEarly
    <3> QED
      BY <2>1, <3>2
  <2>4. ASSUME NEW c \in Conns, FailStore(c)
        PROVE  Early(D[e.jid], e)
    BY <2>3, <2>4, CountTypes DEF FailStore, Counted, FailedCopies
  <2>5. CASE ReapStore
    BY <2>3, <2>5, CountTypes DEF ReapStore, Counted, FailedCopies
  <2> QED
    BY <2>1, <2>2, <2>4, <2>5, WaitingSteps
<1>4. ASSUME NEW c \in Conns, conn'[c].pc \in {"popped", "stored"}
      PROVE  Early(D[conn'[c].val.jid], conn'[c].val)
  <2>1. CASE conn'[c] = conn[c]
    BY <1>4, <2>1 DEF Counted, EarlyCopies
  <2>2. CASE ConnNext(c)
    <3>1. ASSUME NEW p, NEW v, Hold(c, p, v), p \notin {"popped", "stored"}
          PROVE  FALSE
      BY <1>4, <3>1, HoldFields
    <3>2. ~Idle(c)
      BY <1>4, IdleFields
    <3>3. ~ReserveMap(c) /\ ~AckRemove(c) /\ ~FailRemove(c) /\ ~FailStore(c) /\ ~StoreError(c)
      BY <3>1, <3>2 DEF ReserveMap, AckRemove, FailRemove, FailStore, StoreError
    <3>4. \A j \in Jobs : ~AckClear(c, j) /\ ~FailClear(c, j)
      BY <3>1 DEF AckClear, FailClear
    <3>5. CASE FetchPop(c)
      <4>1. queue # << >> /\ conn'[c].val = Head(queue)
        BY <3>5, HoldFields DEF FetchPop
      <4>2. Head(queue) = queue[1] /\ 1 \in 1..Len(queue)
        BY <4>1 DEF TypeOK
      <4> QED
        BY <4>1, <4>2 DEF Counted, EarlyCopies
    <3>6. ASSUME NEW t \in Timeouts, ReserveStore(c, t)
          PROVE  Early(D[conn'[c].val.jid], conn'[c].val)
      <4>1. /\ conn[c].pc = "popped"
            /\ conn'[c].val.jid = conn[c].val.jid /\ conn'[c].val.fails = conn[c].val.fails
        BY <3>6, ReserveStoreFields
      <4>2. Early(D[conn[c].val.jid], conn[c].val)
        BY <4>1 DEF Counted, EarlyCopies
      <4> QED
        BY <4>1, <4>2, CountRules
    <3> QED
      BY <2>2, <3>3, <3>4, <3>5, <3>6 DEF ConnNext
  <2> QED
    BY <1>4, <2>1, <2>2, ConnSteps
<1>5. ASSUME task'.pc = "enqueue"
      PROVE  Early(D[task'.hand.jid], task'.hand)
  <2>1. ASSUME NEW e \in task.batch, TaskRemove(e)
        PROVE  Early(D[task'.hand.jid], task'.hand)
    <3>1. /\ task'.hand = ValueOf(e)
          /\ \E s \in {"scheduled", "retries"} : e \in zset[s]
      BY <1>5, <2>1, TaskRemoveFields
    <3>2. task'.hand.jid = e.jid /\ task'.hand.fails = e.fails /\ Early(D[e.jid], e)
      BY <3>1, NewFields DEF Counted, EarlyCopies
    <3> QED
      BY <3>2, CountRules
  <2>2. CASE task' = task
    BY <1>5, <2>2 DEF Counted, EarlyCopies
  <2>3. task' = task \/ \E e \in task.batch : TaskRemove(e)
    BY <1>5, EnqueueSteps
  <2> QED
    BY <2>1, <2>2, <2>3
<1> QED
  BY <1>2, <1>3, <1>4, <1>5 DEF EarlyCopies

\* The copies that are with a worker, when nothing is handed out.
LEMMA NextGiven ==
    ASSUME ~SharedScores, TypeOK, AtMostOneCopy, ReserveInv, Counted, [Next]_vars,
           UNCHANGED deliveries, \A c \in Conns : ~ReserveMap(c)
    PROVE  GivenCopies'
<1> DEFINE D == deliveries
<1>0. \A j \in Jobs : D[j] \in Nat
  BY CountTypes
<1>1. ASSUME NEW e \in zset'["working"]
      PROVE  Given(D[e.jid], e)
  <2>1. CASE e \in zset["working"]
    BY <2>1 DEF Counted, GivenCopies
  <2>2. ASSUME NEW c \in Conns, NEW t \in Timeouts, ReserveStore(c, t), e \notin zset["working"]
        PROVE  Given(D[e.jid], e)
    <3>1. /\ conn[c].pc = "popped"
          /\ e = NewEntry(conn[c].val.jid, conn[c].val.fails, now + t, now + t)
      BY <2>2, ReserveStoreFields
    <3>2. e.jid = conn[c].val.jid /\ e.fails = conn[c].val.fails
      BY <3>1, NewFields
    <3>3. Early(D[conn[c].val.jid], conn[c].val)
      BY <3>1 DEF Counted, EarlyCopies
    <3>4. Given(D[conn[c].val.jid], conn[c].val)
      BY <1>0, <3>3, CountTypes, CountRules
    <3> QED
      BY <3>2, <3>4, CountRules
  <2>3. ASSUME ReapExtend, e \notin zset["working"]
        PROVE  Given(D[e.jid], e)
    <3>1. /\ task.pc = "extend"
          /\ e = NewEntry(task.hand.jid, task.hand.fails, task.hand.exp,
                          reservation[task.hand.jid].exp)
      BY <2>3, ReapExtendFields
    <3>2. e.jid = task.hand.jid /\ e.fails = task.hand.fails
      BY <3>1, NewFields
    <3>3. Given(D[task.hand.jid], task.hand)
      BY <3>1 DEF Counted, GivenCopies
    <3> QED
      BY <3>2, <3>3, CountRules
  <2> QED
    BY <2>1, <2>2, <2>3, WorkingSteps
<1>2. ASSUME task'.pc \in {"check", "clear", "extend"}
      PROVE  Given(D[task'.hand.jid], task'.hand)
  <2>1. CASE task' = task
    BY <1>2, <2>1 DEF Counted, GivenCopies
  <2>2. CASE ReapCheck
    <3>1. task.pc = "check" /\ task'.hand = task.hand
      BY <2>2, ReapCheckFields
    <3> QED
      BY <3>1 DEF Counted, GivenCopies
  <2>3. ASSUME NEW e \in task.batch, TaskRemove(e)
        PROVE  Given(D[task'.hand.jid], task'.hand)
    <3>1. e \in zset["working"] /\ task'.hand = ValueOf(e)
      BY <1>2, <2>3, TaskRemoveFields
    <3>2. task'.hand.jid = e.jid /\ task'.hand.fails = e.fails /\ Given(D[e.jid], e)
      BY <3>1, NewFields DEF Counted, GivenCopies
    <3> QED
      BY <3>2, CountRules
  <2> QED
    BY <1>2, <2>1, <2>2, <2>3, ReapingSteps
<1>3. ASSUME NEW j \in Jobs, reservation'[j].fails = reservation[j].fails
      PROVE  Given(D[j], reservation[j]) => Given(D[j], reservation'[j])
  BY <1>3 DEF Given
<1>4. ASSUME ~Crash, ~Boot
      PROVE  /\ workingMap' \subseteq workingMap
             /\ \A j \in Jobs : reservation'[j].fails = reservation[j].fails
  <2>1. CASE ReapCheck
    BY <2>1, ReapCheckFields
  <2> QED
    BY <1>4, <2>1, ReservationSteps
<1>5. ASSUME NEW j \in workingMap'
      PROVE  Given(D[j], reservation'[j])
  <2>1. CASE ~Crash /\ ~Boot
    <3>1. j \in workingMap /\ j \in Jobs
      BY <1>4, <1>5, <2>1 DEF TypeOK
    <3>2. Given(D[j], reservation[j])
      BY <3>1 DEF Counted, GivenCopies
    <3> QED
      BY <1>3, <1>4, <2>1, <3>1, <3>2
  <2>2. CASE Crash
    BY <1>5, <2>2 DEF Crash
  <2>3. CASE Boot
    <3>1. PICK e \in zset["working"] : e.jid = j
      BY <1>5, <2>3, BootFields
    <3>2. reservation'[j].fails = e.fails
      BY <2>3, <3>1, BootFields
    <3>3. Given(D[j], e)
      BY <3>1 DEF Counted, GivenCopies
    <3> QED
      BY <3>2, <3>3 DEF Given
  <2> QED
    BY <2>1, <2>2, <2>3
<1>6. ASSUME NEW c \in Conns, conn'[c].pc = "failrem"
      PROVE  Given(D[conn'[c].val.jid], reservation'[conn'[c].val.jid])
  <2>1. ~Crash /\ ~Boot
    <3>1. Crash => conn'[c] = IdleConn
      BY DEF Crash
    <3>2. Boot => conn'[c].pc = "idle"
      BY BootFields DEF ReserveInv, Down
    <3> QED
      BY <1>6, <3>1, <3>2, IdleTaskFields
  <2>2. ASSUME conn'[c] = conn[c]
        PROVE  Given(D[conn'[c].val.jid], reservation'[conn'[c].val.jid])
    <3>1. conn[c].pc = "failrem" /\ conn[c].val.jid \in Jobs
      BY <1>6, <2>2, CountTypes
    <3>2. Given(D[conn[c].val.jid], reservation[conn[c].val.jid])
      BY <3>1 DEF Counted, GivenCopies
    <3> QED
      BY <1>3, <1>4, <2>1, <2>2, <3>1, <3>2
  <2>3. ASSUME ConnNext(c)
        PROVE  Given(D[conn'[c].val.jid], reservation'[conn'[c].val.jid])
    <3>1. ASSUME NEW p, NEW v, Hold(c, p, v), p # "failrem"
          PROVE  FALSE
      BY <1>6, <3>1, HoldFields
    <3>2. ~Idle(c)
      BY <1>6, IdleFields
    <3>3. /\ ~FetchPop(c) /\ ~ReserveMap(c) /\ ~AckRemove(c) /\ ~FailRemove(c)
          /\ ~FailStore(c) /\ ~StoreError(c)
      BY <3>1, <3>2 DEF FetchPop, ReserveMap, AckRemove, FailRemove, FailStore, StoreError
    <3>4. (\A j \in Jobs : ~AckClear(c, j)) /\ \A t \in Timeouts : ~ReserveStore(c, t)
      BY <3>1 DEF AckClear, ReserveStore
    <3>5. PICK j \in Jobs : FailClear(c, j)
      BY <2>3, <3>3, <3>4 DEF ConnNext
    <3>6. j \in workingMap /\ conn'[c].val = NewValue(j, 0) /\ reservation' = reservation
      BY <3>5, HoldFields DEF FailClear, clearReservation
    <3>7. conn'[c].val.jid = j
      BY <3>6, NewFields
    <3> QED
      BY <3>6, <3>7 DEF Counted, GivenCopies
  <2> QED
    BY <1>6, <2>2, <2>3, ConnSteps
<1> QED
  BY <1>1, <1>2, <1>5, <1>6 DEF GivenCopies

\* The copies of a job that has just failed, when nothing is handed out.
LEMMA NextFailed ==
    ASSUME TypeOK, Counted, [Next]_vars, UNCHANGED deliveries
    PROVE  FailedCopies'
<1> DEFINE D == deliveries
<1>0. \A j \in Jobs : D[j] \in Nat
  BY CountTypes
<1>1. ASSUME NEW c \in Conns, conn'[c].pc = "failadd"
      PROVE  Failed(D[conn'[c].val.jid], conn'[c].val)
  <2>1. CASE conn'[c] = conn[c]
    BY <1>1, <2>1 DEF Counted, FailedCopies
  <2>2. CASE ConnNext(c)
    <3>1. ASSUME NEW p, NEW v, Hold(c, p, v), p # "failadd"
          PROVE  FALSE
      BY <1>1, <3>1, HoldFields
    <3>2. ~Idle(c)
      BY <1>1, IdleFields
    <3>3. ~FetchPop(c) /\ ~ReserveMap(c) /\ ~AckRemove(c) /\ ~FailStore(c) /\ ~StoreError(c)
      BY <3>1, <3>2 DEF FetchPop, ReserveMap, AckRemove, FailStore, StoreError
    <3>4. /\ \A j \in Jobs : ~AckClear(c, j) /\ ~FailClear(c, j)
          /\ \A t \in Timeouts : ~ReserveStore(c, t)
      BY <3>1 DEF AckClear, FailClear, ReserveStore
    <3>5. FailRemove(c)
      BY <2>2, <3>3, <3>4 DEF ConnNext
    <3> DEFINE h == conn[c].val.jid
               w == NewValue(h, reservation[h].fails + 1)
    <3>6. conn[c].pc = "failrem" /\ Hold(c, "failadd", w)
      BY <3>2, <3>5 DEF FailRemove
    <3>7. w.jid = h /\ w.fails = reservation[h].fails + 1
      BY NewFields
    <3>8. h \in Jobs /\ Given(D[h], reservation[h])
      BY <3>6, CountTypes DEF Counted, GivenCopies
    <3> HIDE DEF h, w
    <3>9. conn'[c].val = w
      BY <3>6, HoldFields
    <3>10. Failed(D[h], w)
      BY <1>0, <3>7, <3>8, CountRules
    <3> QED
      BY <3>7, <3>9, <3>10
  <2> QED
    BY <1>1, <2>1, <2>2, ConnSteps
<1>2. ASSUME task'.pc = "store"
      PROVE  Failed(D[task'.hand.jid], task'.hand)
  <2>1. CASE task' = task
    BY <1>2, <2>1 DEF Counted, FailedCopies
  <2>2. CASE ReapClear
    <3> DEFINE h == task.hand.jid
               w == NewValue(h, reservation[h].fails + 1)
    <3>1. ~NextMember(0) /\ ~NextMember(1)
      BY <1>2, NextMemberFields
    <3>2. h \in workingMap /\ task' = [task EXCEPT !.pc = "store", !.hand = w]
      BY <2>2, <3>1 DEF ReapClear, clearReservation
    <3>3. w.jid = h /\ w.fails = reservation[h].fails + 1
      BY NewFields
    <3>4. h \in Jobs /\ Given(D[h], reservation[h])
      BY <3>2, CountTypes DEF Counted, GivenCopies
    <3> HIDE DEF h, w
    <3>5. task'.hand = w
      BY <3>2 DEF TypeOK
    <3>6. Failed(D[h], w)
      BY <1>0, <3>3, <3>4, CountRules
    <3> QED
      BY <3>3, <3>5, <3>6
  <2>3. task' = task \/ ReapClear
    BY <1>2, StoreSteps
  <2> QED
    BY <2>1, <2>2, <2>3
<1> QED
  BY <1>1, <1>2 DEF FailedCopies

\* Every step keeps the count.
LEMMA NextCounted ==
    ASSUME ~SharedScores, TypeOK, Custody, ReserveInv, Counted, [Next]_vars
    PROVE  Counted'
<1>0. AtMostOneCopy
  BY DEF Custody
<1>1. ASSUME NEW c \in Conns, ReserveMap(c)
      PROVE  Counted'
  BY <1>0, <1>1, CountedReserveMap
<1>2. ASSUME \A c \in Conns : ~ReserveMap(c)
      PROVE  Counted'
  <2>1. UNCHANGED deliveries
    BY <1>2, DeliverySteps
  <2>2. UnbornUngiven' /\ DeliveryBudget'
    BY <2>1, UnbornSteps DEF Counted, UnbornUngiven, DeliveryBudget
  <2> QED
    BY <1>0, <1>2, <2>1, <2>2, NextEarly, NextGiven, NextFailed DEF Counted
<1> QED
  BY <1>1, <1>2

\* Nothing was handed out at the start.
LEMMA InitCounted == Init => Counted
<1> SUFFICES ASSUME Init
             PROVE  Counted
  OBVIOUS
<1>1. /\ workingMap = {} /\ task = IdleTask /\ queue = << >>
      /\ \A c \in Conns : conn[c] = IdleConn
  BY Zenon DEF Init
<1>2. (\A s \in SetNames : zset[s] = {}) /\ \A j \in Jobs : deliveries[j] = 0
  BY DEF Init
<1>3. EarlyCopies /\ GivenCopies /\ FailedCopies
  BY <1>1, <1>2, IdleTaskFields DEF EarlyCopies, GivenCopies, FailedCopies, SetNames
<1>4. DeliveryBudget
  BY <1>2, ManagerAssumption DEF DeliveryBudget, Budget
<1> QED
  BY <1>2, <1>3, <1>4 DEF Counted, UnbornUngiven

(***************************************************************************)
(* A worker gets a job at most Retry + 1 times, once if it is not retried: *)
(* every delivery but the last is a failure that processFailure recorded   *)
(* and its test RetryCount < Retry let pass, whatever expires, is          *)
(* extended, crashes or fails in between.                                  *)
(***************************************************************************)
THEOREM DeliveriesAreBounded ==
    ASSUME ~SharedScores
    PROVE  Spec => []DeliveryBudget
<1>1. Init => Counted
  BY InitCounted
<1>2. TypeOK /\ Custody /\ ReserveInv /\ Counted /\ [Next]_vars => Counted'
  BY NextCounted
<1>3. Counted => DeliveryBudget
  BY DEF Counted
<1> QED
  BY <1>1, <1>2, <1>3, ReserveInvariant, PTL DEF Spec

-----------------------------------------------------------------------------
(***************************************************************************)
(* Without extensions memory and store agree.  ExactInv is inductive       *)
(* relative to ReserveInv.                                                 *)
(***************************************************************************)

\* A reservation changes by ReserveMap, a restart or the reaper's lookup.
LEMMA PlainSteps ==
    ASSUME TypeOK, Extensions = {}, [Next]_vars
    PROVE  \/ UNCHANGED reservation /\ workingMap' \subseteq workingMap
           \/ \E c \in Conns : ReserveMap(c)
           \/ ReapCheck \/ Crash \/ Boot
<1>1. ASSUME NEW c \in Conns, ConnNext(c)
      PROVE  ReserveMap(c) \/ (UNCHANGED reservation /\ workingMap' \subseteq workingMap)
  BY <1>1 DEF ConnNext, FetchPop, ReserveStore, AckClear, FailClear, clearReservation,
     AckRemove, FailRemove, FailStore, StoreError, memory
<1>2. CASE TaskStep \/ TaskError \/ \E n \in TaskNames : TaskStart(n)
  BY <1>2 DEF TaskStep, TaskScan, TaskRemove, TaskEnqueue, ReapExtend,
     ReapClear, clearReservation, ReapStore, TaskEnd, TaskError, TaskStart, memory
<1>3. CASE \/ \E j \in Jobs, d \in ScheduleDelays \cup {0} : Push(j, d)
           \/ \E j \in Jobs : PushError(j)
           \/ Tick \/ UNCHANGED vars
  BY <1>3 DEF Push, PushError, Tick, vars, memory
<1> QED
  BY <1>1, <1>2, <1>3 DEF Next

\* Nothing is extended when nobody asks for it.
LEMMA NextNeverExtended ==
    ASSUME TypeOK, AtMostOneCopy, Extensions = {}, NeverExtended, [Next]_vars
    PROVE  NeverExtended'
<1>1. ReapCheck => task'.pc # "extend" /\ \A j \in Jobs : reservation'[j].ext = reservation[j].ext
  <2> SUFFICES ASSUME ReapCheck
               PROVE  task'.pc # "extend" /\ \A j \in Jobs : reservation'[j].ext = reservation[j].ext
    OBVIOUS
  <2>1. reservation[task.hand.jid].ext = 0 /\ task.when \in Nat
    BY ExpiryTypes DEF NeverExtended
  <2>2. ~(task.when < reservation[task.hand.jid].ext)
    BY <2>1
  <2> QED
    BY <2>2, ReapCheckFields
<1>2. \A e \in task.batch : TaskRemove(e) => task'.pc # "extend"
  BY TaskRemoveFields
<1>3. task'.pc # "extend"
  BY <1>1, <1>2, ReapingSteps DEF NeverExtended
<1>4. ASSUME NEW j \in Jobs
      PROVE  reservation'[j].ext = 0
  <2>1. CASE \E c \in Conns : ReserveMap(c)
    <3>1. PICK c \in Conns : ReserveMap(c)
      BY <2>1
    <3> QED
      BY <3>1, ReserveMapFields DEF NeverExtended
  <2>2. CASE Crash
    BY <2>2 DEF Crash, NoReservation
  <2>3. CASE Boot
    BY <2>3, BootFields
  <2> QED
    BY <1>1, <2>1, <2>2, <2>3, PlainSteps DEF NeverExtended
<1> QED
  BY <1>3, <1>4 DEF NeverExtended

\* A jid leaves workingMap when a command or the reaper clears it, or in a
\* crash.
LEMMA MapLeaves ==
    ASSUME Down, [Next]_vars, NEW j \in workingMap, j \notin workingMap'
    PROVE  \/ \E c \in Conns : AckClear(c, j) \/ FailClear(c, j)
           \/ ReapClear /\ task.hand.jid = j
           \/ Crash
<1>1. ASSUME NEW c \in Conns, ConnNext(c)
      PROVE  AckClear(c, j) \/ FailClear(c, j)
  BY <1>1 DEF ConnNext, FetchPop, ReserveStore, ReserveMap, AckClear, FailClear, clearReservation,
     AckRemove, FailRemove, FailStore, StoreError, memory
<1>2. CASE TaskStep \/ TaskError \/ \E n \in TaskNames : TaskStart(n)
  BY <1>2 DEF TaskStep, TaskScan, TaskRemove, TaskEnqueue, ReapCheck, ReapExtend,
     ReapClear, clearReservation, ReapStore, TaskEnd, TaskError, TaskStart, memory
<1>3. CASE \/ \E i \in Jobs, d \in ScheduleDelays \cup {0} : Push(i, d)
           \/ \E i \in Jobs : PushError(i)
           \/ \E i \in Jobs, x \in Extensions : ExtendReservation(i, x)
           \/ Tick \/ UNCHANGED vars
  BY <1>3 DEF Push, PushError, ExtendReservation, Tick, vars, memory
<1>4. ~Boot
  BY DEF Boot, Down
<1> QED
  BY <1>1, <1>2, <1>3, <1>4 DEF Next

\* A jid enters workingMap at the end of reserve, or when the server starts.
LEMMA MapEnters ==
    ASSUME [Next]_vars, NEW j \in workingMap', j \notin workingMap
    PROVE  Boot \/ \E c \in Conns : ReserveMap(c) /\ conn[c].val.jid = j
<1>1. ASSUME NEW c \in Conns, ConnNext(c)
      PROVE  ReserveMap(c) /\ conn[c].val.jid = j
  BY <1>1 DEF ConnNext, FetchPop, ReserveStore, ReserveMap, AckClear, FailClear, clearReservation,
     AckRemove, FailRemove, FailStore, StoreError, memory
<1>2. ~TaskStep /\ ~TaskError /\ ~(\E n \in TaskNames : TaskStart(n))
  BY DEF TaskStep, TaskScan, TaskRemove, TaskEnqueue, ReapCheck, ReapExtend,
     ReapClear, clearReservation, ReapStore, TaskEnd, TaskError, TaskStart, memory
<1>3. CASE \/ \E i \in Jobs, d \in ScheduleDelays \cup {0} : Push(i, d)
           \/ \E i \in Jobs : PushError(i)
           \/ \E i \in Jobs, x \in Extensions : ExtendReservation(i, x)
           \/ Crash \/ Tick \/ UNCHANGED vars
  BY <1>3 DEF Push, PushError, ExtendReservation, Crash, Tick, vars, memory
<1> QED
  BY <1>1, <1>2, <1>3 DEF Next

\* A command that is about to remove an entry was, or has just cleared the
\* reservation.
LEMMA RemoverSteps ==
    ASSUME TypeOK, [Next]_vars, NEW c \in Conns, NEW j \in Jobs,
           conn'[c].pc \in {"ackrem", "failrem"}, conn'[c].val.jid = j
    PROVE  conn'[c] = conn[c] \/ j \in workingMap
<1>1. CASE ConnNext(c)
  <2>1. ~Idle(c)
    BY IdleFields
  <2>2. \A p, v : Hold(c, p, v) => p \in {"ackrem", "failrem"} /\ v.jid = j
    BY HoldFields
  <2>3. ~FetchPop(c) /\ ~ReserveMap(c) /\ ~AckRemove(c) /\ ~FailRemove(c) /\ ~FailStore(c)
        /\ ~StoreError(c) /\ \A t \in Timeouts : ~ReserveStore(c, t)
    BY <2>1, <2>2 DEF FetchPop, ReserveStore, ReserveMap, AckRemove, FailRemove, FailStore, StoreError
  <2>4. \A i \in Jobs : AckClear(c, i) \/ FailClear(c, i) => i = j /\ i \in workingMap
    BY <2>2, NewFields DEF AckClear, FailClear, clearReservation
  <2> QED
    BY <1>1, <2>3, <2>4 DEF ConnNext
<1> QED
  BY <1>1, ConnSteps

\* A reservation lies in memory at the score of its entry.
LEMMA NextExact ==
    ASSUME ~SharedScores, Extensions = {}, TypeOK, AtMostOneCopy, ReserveInv,
           NeverExtended, NeverExtended', Exact, [Next]_vars
    PROVE  Exact'
<1> DEFINE Owned(e) == e.jid \in workingMap
                       \/ \E c \in Conns : Ticket(c, e.jid) /\ conn[c].pc # "stored"
           OwnedNext(e) == e.jid \in workingMap'
                       \/ \E c \in Conns : /\ conn'[c].pc \in {"ackrem", "failrem"}
                                           /\ conn'[c].val.jid = e.jid
<1>1. SUFFICES ASSUME NEW e \in zset'["working"]
               PROVE  /\ e.score = e.exp
                      /\ OwnedNext(e) => e.score = reservation'[e.jid].exp
  BY DEF Exact, Ticket
<1>2. ~ReapExtend
  BY DEF ReapExtend, NeverExtended
<1>3. CASE e \notin zset["working"]
  <2>1. PICK c \in Conns, t \in Timeouts : ReserveStore(c, t)
    BY <1>2, <1>3, WorkingSteps
  <2>2. PICK h \in Jobs : h = conn[c].val.jid
    BY HandTypes
  <2>3. /\ e.score = e.exp /\ e.jid = h
        /\ conn[c].pc = "popped" /\ conn'[c].pc = "stored"
        /\ \A d \in Conns \ {c} : conn'[d] = conn[d]
        /\ UNCHANGED workingMap
    BY <1>3, <2>1, <2>2, ReserveStoreFields, NewFields
  <2>4. Loose(h)
    BY <2>2, <2>3 DEF Loose, InHand, ConnHolds
  <2>5. h \notin workingMap /\ \A d \in Conns : ~Ticket(d, h)
    BY <2>4 DEF ReserveInv, Tickets, OneTicket
  <2>6. ~OwnedNext(e)
    BY <2>3, <2>5 DEF Ticket
  <2> QED
    BY <2>3, <2>6
<1>4. CASE e \in zset["working"]
  <2>1. e.score = e.exp /\ e.jid \in Jobs /\ (Owned(e) => e.score = reservation[e.jid].exp)
    BY <1>4, ExpiryTypes DEF Exact
  <2>2. ASSUME NEW c \in Conns, conn'[c].pc \in {"ackrem", "failrem"}, conn'[c].val.jid = e.jid
        PROVE  Owned(e)
    BY <2>1, <2>2, RemoverSteps DEF Ticket
  <2>3. CASE UNCHANGED reservation /\ workingMap' \subseteq workingMap
    BY <2>1, <2>2, <2>3
  <2>4. ASSUME NEW c \in Conns, ReserveMap(c)
        PROVE  OwnedNext(e) => e.score = reservation'[e.jid].exp
    <3>1. PICK h \in Jobs : h = conn[c].val.jid
      BY HandTypes
    <3>2. CASE e.jid = h
      BY <1>4, <2>4, <3>1, <3>2, ReserveMapFields, StoredAlone DEF ReserveInv
    <3>3. CASE e.jid # h
      <4>1. reservation'[e.jid] = reservation[e.jid] /\ (e.jid \in workingMap' => e.jid \in workingMap)
        BY <2>1, <2>4, <3>1, <3>3, ReserveMapFields
      <4> QED
        BY <2>1, <2>2, <4>1
    <3> QED
      BY <3>2, <3>3
  <2>5. CASE ReapCheck
    <3>1. UNCHANGED <<reservation, workingMap>>
      BY <2>5, ReapCheckFields DEF NeverExtended
    <3> QED
      BY <2>1, <2>2, <3>1
  <2>6. CASE Crash
    <3>1. workingMap' = {} /\ \A c \in Conns : conn'[c].pc = "idle"
      BY <2>6, IdleTaskFields DEF Crash
    <3> QED
      BY <2>1, <3>1
  <2>7. CASE Boot
    BY <1>4, <2>1, <2>7, BootFields
  <2> QED
    BY <2>1, <2>3, <2>4, <2>5, <2>6, <2>7, PlainSteps
<1> QED
  BY <1>3, <1>4

\* ACK and FAIL find the entry of the job they name.
LEMMA FoundAll ==
    ASSUME ~SharedScores, TypeOK, Exact, NEW c \in Conns,
           conn[c].pc \in {"ackrem", "failrem"}
    PROVE  \A e \in zset["working"] : e.jid = conn[c].val.jid => e \in Found(conn[c].val.jid)
<1> SUFFICES ASSUME NEW e \in zset["working"], e.jid = conn[c].val.jid
             PROVE  e \in Found(e.jid)
  OBVIOUS
<1>1. e.score = reservation[e.jid].exp
  BY DEF Exact, Ticket
<1> QED
  BY <1>1 DEF Found, rem, getScore

\* A member of the working set that a sweep removes is in its hands.
LEMMA SweptIsHeld ==
    ASSUME TypeOK, NEW e \in task.batch, TaskRemove(e),
           e \in zset["working"], e \notin zset'["working"]
    PROVE  task'.pc = "check" /\ task'.hand = ValueOf(e)
<1>1. Swept(task.name) = "working" /\ task.name \in TaskNames
  BY DEF TaskRemove, TypeOK, SetNames
<1>2. task.name = "Busy" /\ WasThere(e) /\ AfterRemove(task.name) = "check"
  BY <1>1 DEF Swept, TaskNames, WasThere, AfterRemove
<1> QED
  BY <1>2 DEF TaskRemove, TypeOK

\* What becomes of an expired job the reaper holds.
LEMMA HeldLeaves ==
    ASSUME TypeOK, [Next]_vars, task.pc \in {"check", "clear"}
    PROVE  task' = task \/ ReapCheck \/ ReapClear \/ Crash
<1>1. ASSUME NEW c \in Conns, ConnNext(c)
      PROVE  task' = task
  BY <1>1 DEF ConnNext, FetchPop, ReserveStore, ReserveMap, AckClear, FailClear,
     AckRemove, FailRemove, FailStore, StoreError
<1>2. CASE TaskStep \/ TaskError \/ \E n \in TaskNames : TaskStart(n)
  BY <1>2 DEF TaskStep, TaskScan, TaskRemove, TaskEnqueue, ReapExtend,
     ReapStore, TaskEnd, TaskError, TaskStart
<1>3. CASE \/ \E j \in Jobs, d \in ScheduleDelays \cup {0} : Push(j, d)
           \/ \E j \in Jobs : PushError(j)
           \/ \E j \in Jobs, x \in Extensions : ExtendReservation(j, x)
           \/ Boot \/ Tick \/ UNCHANGED vars
  BY <1>3 DEF Push, PushError, ExtendReservation, Boot, Tick, vars
<1> QED
  BY <1>1, <1>2, <1>3 DEF Next

\* A reservation in memory has its entry, or the reaper is holding it.
LEMMA NextBacked ==
    ASSUME ~SharedScores, Extensions = {}, TypeOK, AtMostOneCopy, ReserveInv,
           NeverExtended, NeverExtended', Exact, ReservationBacked, [Next]_vars
    PROVE  ReservationBacked'
<1>1. SUFFICES ASSUME NEW j \in workingMap', j \in Jobs
               PROVE  \/ \E e \in zset'["working"] : e.jid = j /\ e.score = reservation'[j].exp
                      \/ task'.pc \in {"check", "clear"} /\ task'.hand.jid = j
  BY NextType DEF ReservationBacked, InSweep, TaskHolds, TypeOK
<1>2. CASE Boot
  <2>1. PICK e \in zset["working"] : e.jid = j
    BY <1>1, <1>2, BootFields
  <2> QED
    BY <1>2, <2>1, BootFields DEF Exact
<1>3. ASSUME NEW c \in Conns, ReserveMap(c), conn[c].val.jid = j
      PROVE  \E e \in zset'["working"] : e.jid = j /\ e.score = reservation'[j].exp
  <2>1. conn[c].pc = "stored" /\ reservation'[j].exp = conn[c].val.exp /\ UNCHANGED zset
    BY <1>3, ReserveMapFields
  <2>2. PICK e \in zset["working"] : e.jid = j /\ e.score = conn[c].val.exp
    BY <1>3, <2>1, NewFields DEF ReserveInv, StoredInSet
  <2> QED
    BY <2>1, <2>2
<1>4. CASE j \in workingMap /\ ~Boot
  <2>1. ~Loose(j) /\ \A c \in Conns : ~Ticket(c, j)
    BY <1>1, <1>4 DEF ReserveInv, Tickets, OneTicket
  <2>2. ~Crash
    BY <1>1 DEF Crash
  <2>3. reservation'[j].exp = reservation[j].exp
    <3>1. ASSUME NEW c \in Conns, ReserveMap(c)
          PROVE  reservation'[j] = reservation[j]
      <4>1. conn[c].val.jid # j
        BY <2>1, <3>1, ReserveMapFields DEF Ticket
      <4> QED
        BY <1>1, <3>1, <4>1, ReserveMapFields
    <3>2. ReapCheck => UNCHANGED reservation
      BY ReapCheckFields DEF NeverExtended
    <3> QED
      BY <1>4, <2>2, <3>1, <3>2, PlainSteps
  <2>4. ASSUME NEW e \in zset["working"], e.jid = j, e.score = reservation[j].exp,
               e \notin zset'["working"]
        PROVE  task'.pc = "check" /\ task'.hand.jid = j
    <3>1. ASSUME NEW c \in Conns, AckRemove(c) \/ FailRemove(c),
                 \A f \in Found(conn[c].val.jid) : f.jid = conn[c].val.jid
          PROVE  e \notin Found(conn[c].val.jid)
      BY <2>1, <2>4, <3>1 DEF AckRemove, FailRemove, Ticket
    <3>2. ~ReapExtend
      BY DEF ReapExtend, NeverExtended
    <3>3. \A c \in Conns, t \in Timeouts : ~ReserveStore(c, t)
      BY <2>4, ReserveStoreFields
    <3>4. PICK f \in task.batch : TaskRemove(f) /\ zset'["working"] = zset["working"] \ {f}
      BY <2>4, <3>1, <3>2, <3>3, WorkingSteps
    <3>5. f = e
      BY <2>4, <3>4
    <3> QED
      BY <2>4, <3>4, <3>5, SweptIsHeld, NewFields
  <2>5. CASE InSweep(j) /\ task.pc # "enqueue"
    <3>1. task.pc \in {"check", "clear"} /\ task.hand.jid = j
      BY <2>1, <2>5 DEF InSweep, TaskHolds, NeverExtended, Loose
    <3>2. ReapCheck => task'.pc = "clear" /\ task'.hand.jid = j
      BY <3>1, ReapCheckFields DEF NeverExtended
    <3>3. ~ReapClear
      BY <1>1, <1>4, <3>1 DEF ReapClear, clearReservation
    <3> QED
      BY <2>2, <3>1, <3>2, <3>3, HeldLeaves
  <2> QED
    BY <1>4, <2>3, <2>4, <2>5 DEF ReservationBacked
<1> QED
  BY <1>1, <1>2, <1>3, <1>4, MapEnters

\* A job enters a set other than the working set by PUSH, or from the command
\* or the reaper that recorded its failure.
LEMMA OtherSetSteps ==
    ASSUME TypeOK, [Next]_vars, NEW s \in SetNames \ {"working"}, NEW e \in zset'[s]
    PROVE  \/ e \in zset[s]
           \/ \E d \in ScheduleDelays \cup {0} : Push(e.jid, d)
           \/ \E c \in Conns : conn[c].pc = "failadd" /\ conn[c].val.jid = e.jid
           \/ task.pc = "store" /\ task.hand.jid = e.jid
<1>1. ASSUME NEW v \in Value, retryOrBury(v)
      PROVE  e \in zset[s] \/ e.jid = v.jid
  <2>1. PICK r \in SetNames, f \in Entry :
          f.jid = v.jid /\ zset' = [zset EXCEPT ![r] = AddElement(@, f)]
    BY <1>1, retryOrBuryEntry
  <2> QED
    BY <2>1 DEF TypeOK, AddElement
<1>2. ASSUME NEW j \in Jobs, NEW d \in ScheduleDelays \cup {0}, Push(j, d)
      PROVE  e \in zset[s] \/ e.jid = j
  <2>1. CASE UNCHANGED zset
    BY <2>1
  <2>2. CASE ~(UNCHANGED zset)
    <3>1. PICK f : f = NewEntry(j, 0, 0, now + d)
      OBVIOUS
    <3>2. zset' = [zset EXCEPT !["scheduled"] = AddElement(@, f)]
      BY <1>2, <2>2, <3>1 DEF Push
    <3>3. e \in zset[s] \/ e = f
      BY <3>2 DEF TypeOK, AddElement
    <3> QED
      BY <3>1, <3>3, NewFields
  <2> QED
    BY <2>1, <2>2
<1>3. ASSUME NEW c \in Conns, ConnNext(c)
      PROVE  e \in zset[s] \/ (conn[c].pc = "failadd" /\ conn[c].val.jid = e.jid)
  <2>1. CASE FailStore(c)
    BY <1>1, <2>1, HandTypes DEF FailStore
  <2>2. \A t \in Timeouts : ReserveStore(c, t) => e \in zset[s]
    BY ReserveStoreFields
  <2>3. CASE AckRemove(c) \/ FailRemove(c)
    BY <2>3 DEF AckRemove, FailRemove, TypeOK
  <2>4. CASE \/ FetchPop(c) \/ ReserveMap(c) \/ StoreError(c)
             \/ \E j \in Jobs : AckClear(c, j) \/ FailClear(c, j)
    BY <2>4 DEF FetchPop, ReserveMap, StoreError, AckClear, FailClear, store
  <2> QED
    BY <1>3, <2>1, <2>2, <2>3, <2>4 DEF ConnNext
<1>4. CASE TaskStep
  <2>1. CASE ReapStore
    BY <1>1, <2>1, HandTypes DEF ReapStore
  <2>2. ReapExtend => e \in zset[s]
    BY ReapExtendFields
  <2>3. \A f \in task.batch : TaskRemove(f) => e \in zset[s]
    BY DEF TaskRemove, TypeOK
  <2>4. CASE TaskScan \/ TaskEnqueue \/ ReapCheck \/ ReapClear \/ TaskEnd
    BY <2>4 DEF TaskScan, TaskEnqueue, ReapCheck, ReapClear, TaskEnd, store
  <2> QED
    BY <1>4, <2>1, <2>2, <2>3, <2>4 DEF TaskStep
<1>5. CASE \/ \E j \in Jobs : PushError(j)
           \/ \E j \in Jobs, x \in Extensions : ExtendReservation(j, x)
           \/ TaskError \/ \E n \in TaskNames : TaskStart(n)
           \/ Crash \/ Boot \/ Tick \/ UNCHANGED vars
  BY <1>5 DEF PushError, ExtendReservation, TaskError, TaskStart, Crash, Boot, Tick, vars, store
<1> QED
  BY <1>2, <1>3, <1>4, <1>5 DEF Next

\* A job comes loose when it is pushed, or when the failure of the worker who
\* has it is recorded.
LEMMA LooseSteps ==
    ASSUME TypeOK, [Next]_vars, NEW j \in Jobs, Loose(j)'
    PROVE  \/ Loose(j)
           \/ fate[j] = "unborn"
           \/ \E c \in Conns : FailRemove(c) /\ conn[c].val.jid = j /\ Found(j) # {}
           \/ ReapClear /\ task.hand.jid = j /\ j \in workingMap
<1>0. \A d : Push(j, d) => fate[j] = "unborn"
  BY DEF Push
<1>1. CASE InQueue(j)'
  <2>1. PICK i \in 1..Len(queue') : queue'[i].jid = j
    BY <1>1 DEF InQueue
  <2>2. CASE \E k \in 1..Len(queue) : queue'[i] = queue[k]
    BY <2>1, <2>2 DEF Loose, InQueue
  <2>3. CASE \E h \in Jobs, d \in ScheduleDelays \cup {0} : Push(h, d) /\ queue'[i] = NewValue(h, 0)
    BY <1>0, <2>1, <2>3, NewFields
  <2>4. CASE TaskEnqueue /\ queue'[i] = NewValue(task.hand.jid, task.hand.fails)
    BY <2>1, <2>4, NewFields DEF TaskEnqueue, Loose, InSweep, TaskHolds
  <2> QED
    BY <2>2, <2>3, <2>4, QueueSteps
<1>2. ASSUME NEW s \in SetNames \ {"working"}, InSet(s, j)'
      PROVE  Loose(j) \/ fate[j] = "unborn"
  <2>1. PICK e \in zset'[s] : e.jid = j
    BY <1>2 DEF InSet
  <2>2. CASE e \in zset[s]
    BY <2>1, <2>2 DEF Loose, InSet
  <2>3. CASE \E c \in Conns : conn[c].pc = "failadd" /\ conn[c].val.jid = j
    BY <2>3 DEF Loose, InHand, ConnHolds
  <2>4. CASE task.pc = "store" /\ task.hand.jid = j
    BY <2>4 DEF Loose, InSweep, TaskHolds
  <2> QED
    BY <1>0, <2>1, <2>2, <2>3, <2>4, OtherSetSteps
<1>3. ASSUME NEW c \in Conns, InHand(c, j)'
      PROVE  Loose(j) \/ (FailRemove(c) /\ conn[c].val.jid = j /\ Found(j) # {})
  <2>1. conn'[c].pc \in {"popped", "failadd"} /\ conn'[c].val.jid = j
    BY <1>3 DEF InHand, ConnHolds
  <2>2. ~Idle(c)
    BY <2>1, IdleFields
  <2>3. \A p, v : Hold(c, p, v) => p \in {"popped", "failadd"} /\ v.jid = j
    BY <2>1, HoldFields
  <2>4. ~ReserveMap(c) /\ ~AckRemove(c) /\ ~FailStore(c) /\ ~StoreError(c)
        /\ \A t \in Timeouts : ~ReserveStore(c, t)
    BY <2>2, <2>3 DEF ReserveStore, ReserveMap, AckRemove, FailStore, StoreError
  <2>5. \A i \in Jobs : ~AckClear(c, i) /\ ~FailClear(c, i)
    BY <2>3 DEF AckClear, FailClear
  <2>6. CASE FetchPop(c)
    <3>1. queue # << >> /\ Head(queue).jid = j
      BY <2>3, <2>6 DEF FetchPop
    <3>2. 1 \in 1..Len(queue) /\ Head(queue) = queue[1]
      BY <3>1 DEF TypeOK
    <3> QED
      BY <3>1, <3>2 DEF Loose, InQueue
  <2>7. CASE FailRemove(c)
    <3>1. PICK h : h = conn[c].val.jid
      OBVIOUS
    <3>2. Found(h) # {} /\ h = j
      BY <2>2, <2>3, <2>7, <3>1, NewFields DEF FailRemove
    <3> QED
      BY <2>7, <3>1, <3>2
  <2>8. CASE conn'[c] = conn[c]
    BY <2>1, <2>8 DEF Loose, InHand, ConnHolds
  <2> QED
    BY <2>1, <2>4, <2>5, <2>6, <2>7, <2>8, ConnSteps DEF ConnNext
<1>4. ASSUME task'.pc = "enqueue", task'.hand.jid = j
      PROVE  Loose(j)
  <2>1. CASE task' = task
    BY <1>4, <2>1 DEF Loose, InSweep, TaskHolds
  <2>2. ASSUME NEW e \in task.batch, TaskRemove(e)
        PROVE  Loose(j)
    <3>1. PICK s \in {"scheduled", "retries"} : e \in zset[s] /\ task'.hand = ValueOf(e)
      BY <1>4, <2>2, TaskRemoveFields
    <3> QED
      BY <1>4, <3>1, NewFields DEF Loose, InSet, SetNames
  <2> QED
    BY <1>4, <2>1, <2>2, EnqueueSteps
<1>5. ASSUME task'.pc = "store", task'.hand.jid = j
      PROVE  Loose(j) \/ (ReapClear /\ task.hand.jid = j /\ j \in workingMap)
  <2>1. CASE task' = task
    BY <1>5, <2>1 DEF Loose, InSweep, TaskHolds
  <2>2. CASE ReapClear
    <3>1. \A n : ~NextMember(n)
      BY <1>5, NextMemberFields
    <3>2. PICK h : h = task.hand.jid
      OBVIOUS
    <3>3. PICK f : h \in workingMap /\ task' = [task EXCEPT !.pc = "store", !.hand = NewValue(h, f)]
      BY <2>2, <3>1, <3>2 DEF ReapClear, clearReservation
    <3>4. task'.hand = NewValue(h, f)
      BY <3>3 DEF TypeOK
    <3> QED
      BY <1>5, <2>2, <3>2, <3>3, <3>4, NewFields
  <2> QED
    BY <1>5, <2>1, <2>2, StoreSteps
<1> QED
  BY <1>1, <1>2, <1>3, <1>4, <1>5 DEF Loose, InSweep

\* ACK answers OK after its entry was removed.
LEMMA AckedSteps ==
    ASSUME TypeOK, [Next]_vars, NEW j \in Jobs, fate'[j] = "acked"
    PROVE  fate[j] = "acked" \/ \E c \in Conns : AckRemove(c) /\ conn[c].val.jid = j
<1>1. ASSUME NEW c \in Conns, ConnNext(c)
      PROVE  fate[j] = "acked" \/ (AckRemove(c) /\ conn[c].val.jid = j)
  BY <1>1 DEF ConnNext, FetchPop, ReserveStore, ReserveMap, AckClear, FailClear,
     AckRemove, FailRemove, FailStore, StoreError, Settle, TypeOK, history
<1>2. CASE TaskStep \/ TaskError \/ \E n \in TaskNames : TaskStart(n)
  BY <1>2, ZenonT(60) DEF TaskStep, TaskScan, TaskRemove, TaskEnqueue, ReapCheck, ReapExtend,
     ReapClear, ReapStore, TaskEnd, TaskError, TaskStart, Settle, TypeOK, history
<1>3. CASE \/ \E i \in Jobs, d \in ScheduleDelays \cup {0} : Push(i, d)
           \/ \E i \in Jobs : PushError(i)
           \/ \E i \in Jobs, x \in Extensions : ExtendReservation(i, x)
           \/ Boot \/ Tick \/ UNCHANGED vars
  BY <1>3 DEF Push, PushError, ExtendReservation, Boot, Tick, vars, TypeOK, history
<1>4. CASE Crash
  BY <1>4 DEF Crash
<1> QED
  BY <1>1, <1>2, <1>3, <1>4 DEF Next

\* An entry enters the working set by reserve when nothing is extended.
LEMMA EntrySteps ==
    ASSUME ~SharedScores, TypeOK, NeverExtended, [Next]_vars,
           NEW e \in zset'["working"], e \notin zset["working"]
    PROVE  \E c \in Conns : /\ conn[c].pc = "popped" /\ conn[c].val.jid = e.jid
                            /\ conn'[c].pc = "stored" /\ conn'[c].val.jid = e.jid
<1>1. ~ReapExtend
  BY DEF ReapExtend, NeverExtended
<1>2. PICK c \in Conns, t \in Timeouts : ReserveStore(c, t)
  BY <1>1, WorkingSteps
<1> QED
  BY <1>2, ReserveStoreFields, NewFields

\* An acknowledged job is in no place from which it could come back.
LEMMA NextAcked ==
    ASSUME ~SharedScores, TypeOK, AtMostOneCopy, ReserveInv, NeverExtended, Exact,
           AckedNowhere, [Next]_vars
    PROVE  AckedNowhere'
<1>1. SUFFICES ASSUME NEW j \in Jobs, fate'[j] = "acked"
               PROVE  j \notin workingMap' /\ ~Loose(j)' /\ ~InSet("working", j)'
  BY DEF AckedNowhere, Acked
<1>2. CASE fate[j] = "acked"
  <2>1. j \notin workingMap /\ ~Loose(j) /\ ~InSet("working", j)
    BY <1>2 DEF AckedNowhere, Acked
  <2>2. ASSUME NEW c \in Conns, ReserveMap(c), conn[c].val.jid = j
        PROVE  FALSE
    BY <2>1, <2>2, ReserveMapFields, StoredAlone DEF ReserveInv
  <2>3. Boot => j \notin workingMap'
    BY <2>1, BootFields DEF InSet
  <2>4. j \notin workingMap'
    BY <2>1, <2>2, <2>3, MapEnters
  <2>5. ~(\E c \in Conns : FailRemove(c) /\ conn[c].val.jid = j /\ Found(j) # {})
    BY <2>1, RemOwn, SortedSetTypes DEF Found, InSet
  <2>6. ~Loose(j)'
    BY <1>2, <2>1, <2>5, LooseSteps
  <2>7. ASSUME NEW e \in zset'["working"], e.jid = j
        PROVE  FALSE
    <3>1. e \notin zset["working"]
      BY <2>1, <2>7 DEF InSet
    <3>2. PICK c \in Conns : conn[c].pc = "popped" /\ conn[c].val.jid = j
      BY <2>7, <3>1, EntrySteps
    <3> QED
      BY <2>1, <3>2 DEF Loose, InHand, ConnHolds
  <2> QED
    BY <2>4, <2>6, <2>7 DEF InSet
<1>3. ASSUME NEW c \in Conns, AckRemove(c), conn[c].val.jid = j, fate[j] # "acked"
      PROVE  j \notin workingMap' /\ ~Loose(j)' /\ ~InSet("working", j)'
  <2>1. Ticket(c, j) /\ conn[c].pc = "ackrem" /\ UNCHANGED <<workingMap, task>>
    BY <1>3 DEF AckRemove, Ticket, memory
  <2>2. j \notin workingMap /\ ~Loose(j) /\ fate[j] # "unborn"
    BY <2>1 DEF ReserveInv, Tickets, OneTicket
  <2>3. ASSUME NEW d \in Conns
        PROVE  ~(FailRemove(d) /\ conn[d].val.jid = j)
    <3>1. d # c => ~Ticket(d, j)
      BY <2>1 DEF ReserveInv, Tickets, OneTicket
    <3> QED
      BY <2>1, <3>1 DEF FailRemove, Ticket
  <2>4. ~Loose(j)'
    BY <2>2, <2>3, LooseSteps
  <2>5. zset'["working"] = zset["working"] \ Found(j)
    BY <1>3 DEF AckRemove, TypeOK, SetNames
  <2>6. ~InSet("working", j)'
    BY <1>3, <2>1, <2>5, FoundAll DEF InSet
  <2> QED
    BY <2>1, <2>2, <2>4, <2>6
<1> QED
  BY <1>1, <1>2, <1>3, AckedSteps

\* The parts of ExactInv hold together.
LEMMA NextExactInv ==
    ASSUME ~SharedScores, Extensions = {}, TypeOK, Custody, ReserveInv, ExactInv, [Next]_vars
    PROVE  ExactInv'
<1>1. NeverExtended'
  BY NextNeverExtended DEF ExactInv, Custody
<1> QED
  BY <1>1, NextExact, NextBacked, NextAcked DEF ExactInv, Custody

\* Nothing is reserved, extended or acknowledged in the beginning.
LEMMA InitExactInv == Init => ExactInv
<1> SUFFICES ASSUME Init PROVE ExactInv
  OBVIOUS
<1>1. NeverExtended
  BY IdleTaskFields DEF Init, NeverExtended, NoReservation
<1>2. zset["working"] = {} /\ workingMap = {} /\ \A j \in Jobs : fate[j] # "acked"
  BY DEF Init, SetNames
<1> QED
  BY <1>1, <1>2 DEF ExactInv, Exact, ReservationBacked, AckedNowhere, Acked

\* ExactInv holds in every reachable state when nothing is extended.
LEMMA ExactInvariant ==
    ASSUME ~SharedScores, Extensions = {}
    PROVE  Spec => [](TypeOK /\ Custody /\ ReserveInv /\ ExactInv)
<1>1. Init => TypeOK /\ Custody /\ ReserveInv /\ ExactInv
  BY InitType, InitCustody, InitReserve, InitExactInv
<1>2. TypeOK /\ Custody /\ ReserveInv /\ ExactInv /\ [Next]_vars
        => TypeOK' /\ Custody' /\ ReserveInv' /\ ExactInv'
  BY NextType, NextCustody, NextReserve, NextExactInv
<1> QED
  BY <1>1, <1>2, PTL DEF Spec

(***************************************************************************)
(* Once ACK has answered OK the job is gone from the queue, from every     *)
(* sorted set and from every command: no crash, no restart, no failing     *)
(* Redis command and no sweep that was under way brings it back.  Nothing  *)
(* in the server extends reservations yet (Extensions is empty); the       *)
(* shared float64 scores are excluded as above.                            *)
(***************************************************************************)
THEOREM AcknowledgedIsGone ==
    ASSUME ~SharedScores, Extensions = {}
    PROVE  Spec => []AckedIsGone
<1>1. AckedNowhere => AckedIsGone
  <2> SUFFICES ASSUME AckedNowhere, NEW j \in Jobs, fate[j] = "acked", ~InSweep(j)
               PROVE  ~Exists(j)
    BY DEF AckedIsGone
  <2>1. ~Loose(j) /\ ~InSet("working", j)
    BY DEF AckedNowhere, Acked
  <2> QED
    BY <2>1 DEF Exists, Loose
<1>2. TypeOK /\ Custody /\ ReserveInv /\ ExactInv => AckedIsGone
  BY <1>1 DEF ExactInv
<1> QED
  BY <1>2, ExactInvariant, PTL

-----------------------------------------------------------------------------
(* The converse direction, when no Redis command fails. *)

\* What becomes of a command that is entitled to decide about a job.
LEMMA TicketLeaves ==
    ASSUME TypeOK, MaxErrs = 0, [Next]_vars, up', NEW c \in Conns,
           conn[c].pc \in {"stored", "ackrem", "failrem"}
    PROVE  conn'[c] = conn[c] \/ ReserveMap(c) \/ AckRemove(c) \/ FailRemove(c)
<1>1. ~StoreError(c)
  <2>1. errs \in Nat
    BY DEF TypeOK
  <2>2. ~(errs < MaxErrs)
    BY <2>1
  <2> QED
    BY <2>2 DEF StoreError
<1>2. CASE ConnNext(c)
  BY <1>1, <1>2 DEF ConnNext, FetchPop, ReserveStore, AckClear, FailClear, FailStore
<1>3. ASSUME NEW d \in Conns, d # c, ConnNext(d)
      PROVE  conn'[c] = conn[c]
  <2>1. \A p, v : Hold(d, p, v) => conn'[c] = conn[c]
    BY <1>3, HoldFields
  <2>2. Idle(d) => conn'[c] = conn[c]
    BY <1>3, IdleFields
  <2> QED
    BY <1>3, <2>1, <2>2 DEF ConnNext, FetchPop, ReserveStore, ReserveMap, AckClear, FailClear,
       AckRemove, FailRemove, FailStore, StoreError
<1>4. CASE TaskStep \/ TaskError \/ \E n \in TaskNames : TaskStart(n)
  BY <1>4 DEF TaskStep, TaskScan, TaskRemove, TaskEnqueue, ReapCheck, ReapExtend,
     ReapClear, ReapStore, TaskEnd, TaskError, TaskStart
<1>5. CASE \/ \E j \in Jobs, d \in ScheduleDelays \cup {0} : Push(j, d)
           \/ \E j \in Jobs : PushError(j)
           \/ \E j \in Jobs, x \in Extensions : ExtendReservation(j, x)
           \/ Boot \/ Tick \/ UNCHANGED vars
  BY <1>5 DEF Push, PushError, ExtendReservation, Boot, Tick, vars
<1>6. ~Crash
  BY DEF Crash
<1> QED
  BY <1>2, <1>3, <1>4, <1>5, <1>6 DEF Next

\* The server comes up by Boot.
LEMMA ComesUp ==
    ASSUME [Next]_vars, ~up, up'
    PROVE  Boot
<1>1. \A c \in Conns : ~ConnNext(c)
  BY DEF ConnNext, FetchPop, ReserveStore, ReserveMap, AckClear, FailClear,
     AckRemove, FailRemove, FailStore, StoreError
<1>2. ~TaskStep /\ ~TaskError /\ \A n \in TaskNames : ~TaskStart(n)
  BY DEF TaskStep, TaskScan, TaskRemove, TaskEnqueue, ReapCheck, ReapExtend,
     ReapClear, ReapStore, TaskEnd, TaskError, TaskStart
<1>3. CASE \/ \E j \in Jobs, d \in ScheduleDelays \cup {0} : Push(j, d)
           \/ \E j \in Jobs : PushError(j)
           \/ \E j \in Jobs, x \in Extensions : ExtendReservation(j, x)
           \/ Crash \/ Tick \/ UNCHANGED vars
  BY <1>3 DEF Push, PushError, ExtendReservation, Crash, Tick, vars, faults
<1> QED
  BY <1>1, <1>2, <1>3 DEF Next

\* An entry has its reservation or a command that is about to remove it.
LEMMA NextNoOrphan ==
    ASSUME ~SharedScores, MaxErrs = 0, TypeOK, AtMostOneCopy, ReserveInv,
           NeverExtended, Exact, NoOrphanEntry, [Next]_vars
    PROVE  NoOrphanEntry'
<1> DEFINE Kept(e) == \/ e.jid \in workingMap'
                      \/ \E c \in Conns : /\ conn'[c].val.jid = e.jid
                                          /\ conn'[c].pc \in {"stored", "ackrem", "failrem"}
<1>1. SUFFICES ASSUME up', NEW e \in zset'["working"]
               PROVE  Kept(e)
  BY DEF NoOrphanEntry
<1>2. CASE e \notin zset["working"]
  BY <1>2, EntrySteps
<1>3. CASE e \in zset["working"] /\ ~up
  BY <1>1, <1>3, ComesUp, BootFields
<1>4. CASE e \in zset["working"] /\ up
  <2>0. e.jid \in Jobs /\ InSet("working", e.jid)
    BY <1>4, ExpiryTypes DEF InSet
  <2>1. CASE e.jid \in workingMap
    <3>1. ~Crash
      BY <1>1 DEF Crash
    <3>2. ASSUME ReapClear, task.hand.jid = e.jid
          PROVE  FALSE
      <4>1. InSweep(e.jid)
        BY <3>2 DEF ReapClear, InSweep, TaskHolds
      <4> QED
        BY <2>0, <4>1 DEF AtMostOneCopy, SweepOnly, SetNames
    <3>3. ASSUME NEW c \in Conns, AckClear(c, e.jid) \/ FailClear(c, e.jid)
          PROVE  Kept(e)
      <4>1. conn'[c].pc \in {"ackrem", "failrem"} /\ conn'[c].val.jid = e.jid
        BY <3>3, HoldFields, NewFields DEF AckClear, FailClear
      <4> QED
        BY <4>1
    <3> QED
      BY <2>1, <3>1, <3>2, <3>3, MapLeaves DEF ReserveInv
  <2>2. ASSUME NEW c \in Conns, conn[c].val.jid = e.jid,
               conn[c].pc \in {"stored", "ackrem", "failrem"}
        PROVE  Kept(e)
    <3>1. CASE conn'[c] = conn[c]
      BY <2>2, <3>1
    <3>2. CASE ReserveMap(c)
      BY <2>2, <3>2, ReserveMapFields
    <3>3. CASE AckRemove(c) \/ FailRemove(c)
      <4>1. conn[c].pc \in {"ackrem", "failrem"}
        BY <3>3 DEF AckRemove, FailRemove
      <4>2. zset'["working"] = zset["working"] \ Found(conn[c].val.jid)
        BY <3>3 DEF AckRemove, FailRemove, TypeOK, SetNames
      <4> QED
        BY <1>1, <1>4, <2>2, <4>1, <4>2, FoundAll
    <3> QED
      BY <1>1, <2>2, <3>1, <3>2, <3>3, TicketLeaves
  <2> QED
    BY <1>4, <2>1, <2>2 DEF NoOrphanEntry
<1> QED
  BY <1>2, <1>3, <1>4

(***************************************************************************)
(* workingMap and the working set hold the same reservations, at the same  *)
(* expiry, up to what a running command or the reaper has in its hands:    *)
(* in particular loadWorkingSet rebuilds after a crash what was there.     *)
(* Provided no Redis command fails: after a failed ZREM an entry stays     *)
(* without a reservation.                                                  *)
(***************************************************************************)
THEOREM MemoryMatchesStore ==
    ASSUME ~SharedScores, Extensions = {}, MaxErrs = 0
    PROVE  Spec => []ReservationsAgree
<1> DEFINE All == TypeOK /\ Custody /\ ReserveInv /\ ExactInv
<1>1. Init => NoOrphanEntry
  BY DEF Init, NoOrphanEntry, SetNames
<1>2. All /\ NoOrphanEntry /\ [Next]_vars => NoOrphanEntry'
  BY NextNoOrphan DEF ExactInv, Custody
<1>3. All /\ NoOrphanEntry => ReservationsAgree
  BY DEF ExactInv, ReservationsAgree
<1>4. Spec => []All
  BY ExactInvariant
<1> HIDE DEF All
<1> QED
  BY <1>1, <1>2, <1>3, <1>4, PTL DEF Spec

-----------------------------------------------------------------------------
(***************************************************************************)
(* Third part.  Manager implements JobLifecycle.  A copy of a job is seen  *)
(* as a state of the diagram and a number of recorded failures; the proof  *)
(* follows the copies.                                                     *)
(***************************************************************************)

\* The state of the diagram that a job in a sorted set is in.
Label(s) == CASE s = "scheduled" -> "SCHEDULED"
              [] s = "retries" -> "RETRIES"
              [] s = "dead" -> "DEAD"
              [] s = "working" -> "WORKING"

\* A copy of job j that stands for state a with n recorded failures: in the
\* queue, in a sorted set, with a connection (k is its record) and with the
\* task runner (t is its record).
QueueCopy(j, n) == \E k \in 1..Len(queue) : queue[k].jid = j /\ queue[k].fails = n
SetCopy(s, j, n) == \E e \in zset[s] : e.jid = j /\ e.fails = n
HandCopy(k, j, a, n) ==
    /\ k.val.jid = j
    /\ \/ k.pc = "popped" /\ a = "ENQUEUED" /\ n = k.val.fails
       \/ k.pc = "failadd" /\ a = "WORKING" /\ n = k.val.fails - 1
SweepCopy(t, j, a, n) ==
    /\ t.hand.jid = j
    /\ \/ t.pc = "enqueue" /\ n = t.hand.fails
          /\ a = (IF t.name = "Scheduled" THEN "SCHEDULED" ELSE "RETRIES")
       \/ t.pc \in {"check", "extend", "clear"} /\ a = "WORKING" /\ n = t.hand.fails
       \/ t.pc = "store" /\ a = "WORKING" /\ n = t.hand.fails - 1

Copy(j, a, n) ==
    \/ a = "ENQUEUED" /\ QueueCopy(j, n)
    \/ \E s \in SetNames : a = Label(s) /\ SetCopy(s, j, n)
    \/ \E c \in Conns : HandCopy(conn[c], j, a, n)
    \/ SweepCopy(task, j, a, n)

\* What the refinement mapping shows of a job is its copy, or that it is not
\* pushed yet, or gone.
View ==
    \A j \in Jobs :
        /\ \A a, n : Copy(j, a, n) => State(j) = a /\ Tries(j) = n
        /\ (\A a, n : ~Copy(j, a, n)) =>
             State(j) = (IF fate[j] = "unborn" THEN "NEW" ELSE "GONE") /\ Tries(j) = 0

-----------------------------------------------------------------------------
(* The mapping shows the copies *)

\* A copy is in one of the places of Exists.
LEMMA CopyPlaces ==
    ASSUME NEW j \in Jobs
    PROVE  /\ \A n : QueueCopy(j, n) => InQueue(j)
           /\ \A s \in SetNames : \A n : SetCopy(s, j, n) => InSet(s, j)
           /\ \A c \in Conns : \A a, n : HandCopy(conn[c], j, a, n) => InHand(c, j)
           /\ \A a, n : SweepCopy(task, j, a, n) => InSweep(j)
           /\ InQueue(j) => \E n : QueueCopy(j, n)
           /\ \A s \in SetNames : InSet(s, j) => \E n : SetCopy(s, j, n)
           /\ \A c \in Conns : InHand(c, j) => \E a, n : HandCopy(conn[c], j, a, n)
           /\ InSweep(j) => \E a, n : SweepCopy(task, j, a, n)
  BY DEF QueueCopy, InQueue, SetCopy, InSet, HandCopy, InHand, ConnHolds, SweepCopy, InSweep, TaskHolds

\* The failures Tries chooses from are those of the copies.
LEMMA RecordedIsCopied ==
    ASSUME TypeOK, NEW j \in Jobs, NEW n
    PROVE  n \in Recorded(j) <=> \E a : Copy(j, a, n)
<1> DEFINE A == {queue[i].fails : i \in {k \in 1..Len(queue) : queue[k].jid = j}}
           B == UNION {{e.fails : e \in {x \in zset[s] : x.jid = j}} : s \in SetNames}
           C == {conn[c].val.fails - (IF conn[c].pc = "failadd" THEN 1 ELSE 0) :
                   c \in {d \in Conns : InHand(d, j)}}
           D == IF InSweep(j) THEN {task.hand.fails - (IF task.pc = "store" THEN 1 ELSE 0)} ELSE {}
<1>1. n \in A <=> QueueCopy(j, n)
  BY DEF QueueCopy
<1>2. n \in B <=> \E s \in SetNames : SetCopy(s, j, n)
  BY DEF SetCopy
<1>3. n \in C <=> \E c \in Conns : \E a : HandCopy(conn[c], j, a, n)
  <2>1. n \in C <=> \E c \in Conns : /\ InHand(c, j)
                                     /\ n = conn[c].val.fails - (IF conn[c].pc = "failadd" THEN 1 ELSE 0)
    OBVIOUS
  <2>2. ASSUME NEW c \in Conns
        PROVE  InHand(c, j) /\ n = conn[c].val.fails - (IF conn[c].pc = "failadd" THEN 1 ELSE 0)
                 <=> \E a : HandCopy(conn[c], j, a, n)
    <3>1. conn[c].val.fails \in Nat /\ conn[c].val.fails - 0 = conn[c].val.fails
      BY HandTypes
    <3>2. (\E a : HandCopy(conn[c], j, a, n)) <=>
            HandCopy(conn[c], j, "ENQUEUED", n) \/ HandCopy(conn[c], j, "WORKING", n)
      BY DEF HandCopy
    <3> QED
      BY <3>1, <3>2 DEF HandCopy, InHand, ConnHolds
  <2> QED
    BY <2>1, <2>2
<1>4. n \in D <=> \E a : SweepCopy(task, j, a, n)
  <2>1. task.hand.fails \in Nat /\ task.hand.fails - 0 = task.hand.fails
    BY HandTypes
  <2>2. (\E a : SweepCopy(task, j, a, n)) <=>
          \/ SweepCopy(task, j, "SCHEDULED", n) \/ SweepCopy(task, j, "RETRIES", n)
          \/ SweepCopy(task, j, "WORKING", n)
    BY DEF SweepCopy
  <2> QED
    BY <2>1, <2>2 DEF SweepCopy, InSweep, TaskHolds
<1>5. Recorded(j) = A \cup B \cup C \cup D
  BY DEF Recorded
<1>6. (\E a : Copy(j, a, n)) <=> \/ QueueCopy(j, n)
                                 \/ \E s \in SetNames : SetCopy(s, j, n)
                                 \/ \E c \in Conns : \E a : HandCopy(conn[c], j, a, n)
                                 \/ \E a : SweepCopy(task, j, a, n)
  <2>1. QueueCopy(j, n) => Copy(j, "ENQUEUED", n)
    BY DEF Copy
  <2>2. \A s \in SetNames : SetCopy(s, j, n) => Copy(j, Label(s), n)
    BY DEF Copy
  <2>3. \A a : (\E c \in Conns : HandCopy(conn[c], j, a, n)) \/ SweepCopy(task, j, a, n) => Copy(j, a, n)
    BY DEF Copy
  <2>4. \A a : Copy(j, a, n) => \/ QueueCopy(j, n) \/ \E s \in SetNames : SetCopy(s, j, n)
                                \/ \E c \in Conns : HandCopy(conn[c], j, a, n)
                                \/ SweepCopy(task, j, a, n)
    BY DEF Copy
  <2> QED
    BY <2>1, <2>2, <2>3, <2>4
<1> HIDE DEF A, B, C, D
<1> QED
  BY <1>1, <1>2, <1>3, <1>4, <1>5, <1>6

\* A job has one copy at most.
LEMMA CopyUnique ==
    ASSUME TypeOK, AtMostOneCopy, NEW j \in Jobs, NEW a, NEW b, NEW n, NEW m,
           Copy(j, a, n), Copy(j, b, m)
    PROVE  a = b /\ n = m
<1>1. CASE InQueue(j)
  <2>1. /\ \A s \in SetNames : \A k : ~SetCopy(s, j, k)
        /\ \A c \in Conns : \A x, k : ~HandCopy(conn[c], j, x, k)
        /\ \A x, k : ~SweepCopy(task, j, x, k)
    BY <1>1, CopyPlaces DEF AtMostOneCopy, QueueOnly
  <2>2. a = "ENQUEUED" /\ b = "ENQUEUED" /\ QueueCopy(j, n) /\ QueueCopy(j, m)
    BY <2>1 DEF Copy
  <2> QED
    BY <2>2 DEF QueueCopy, AtMostOneCopy, OnceInQueue
<1>2. CASE ~InQueue(j) /\ \E c \in Conns : InHand(c, j)
  <2>1. PICK c \in Conns : InHand(c, j)
    BY <1>2
  <2>2. /\ \A s \in SetNames : \A k : ~SetCopy(s, j, k)
        /\ \A k : ~QueueCopy(j, k)
        /\ \A d \in Conns : \A x, k : HandCopy(conn[d], j, x, k) => d = c
        /\ \A x, k : ~SweepCopy(task, j, x, k)
    BY <1>2, <2>1, CopyPlaces DEF AtMostOneCopy, HandsOnly, OnceInHands
  <2>3. HandCopy(conn[c], j, a, n) /\ HandCopy(conn[c], j, b, m)
    BY <2>2 DEF Copy
  <2> QED
    BY <2>3 DEF HandCopy
<1>3. CASE ~InQueue(j) /\ (\A c \in Conns : ~InHand(c, j)) /\ InSweep(j)
  <2>1. /\ \A s \in SetNames : \A k : ~SetCopy(s, j, k)
        /\ \A k : ~QueueCopy(j, k)
        /\ \A c \in Conns : \A x, k : ~HandCopy(conn[c], j, x, k)
    BY <1>3, CopyPlaces DEF AtMostOneCopy, SweepOnly
  <2>2. SweepCopy(task, j, a, n) /\ SweepCopy(task, j, b, m)
    BY <2>1 DEF Copy
  <2> QED
    BY <2>2 DEF SweepCopy
<1>4. CASE ~InQueue(j) /\ (\A c \in Conns : ~InHand(c, j)) /\ ~InSweep(j)
  <2>1. /\ \A k : ~QueueCopy(j, k)
        /\ \A c \in Conns : \A x, k : ~HandCopy(conn[c], j, x, k)
        /\ \A x, k : ~SweepCopy(task, j, x, k)
    BY <1>4, CopyPlaces
  <2>2. PICK s \in SetNames : a = Label(s) /\ SetCopy(s, j, n)
    BY <2>1 DEF Copy
  <2>3. PICK t \in SetNames : b = Label(t) /\ SetCopy(t, j, m)
    BY <2>1 DEF Copy
  <2>4. PICK e \in zset[s] : e.jid = j /\ e.fails = n
    BY <2>2 DEF SetCopy
  <2>5. PICK f \in zset[t] : f.jid = j /\ f.fails = m
    BY <2>3 DEF SetCopy
  <2>6. s = t /\ e = f
    BY <2>4, <2>5 DEF AtMostOneCopy, OnceInSets
  <2> QED
    BY <2>2, <2>3, <2>4, <2>5, <2>6
<1> QED
  BY <1>1, <1>2, <1>3, <1>4

\* State shows the place of the copy.
LEMMA StateIsPlace ==
    ASSUME TypeOK, Custody, NEW j \in Jobs
    PROVE  /\ \A a, n : Copy(j, a, n) => State(j) = a
           /\ (\A a, n : ~Copy(j, a, n)) =>
                State(j) = (IF fate[j] = "unborn" THEN "NEW" ELSE "GONE")
<1> DEFINE U == fate[j] = "unborn"
           Q == InQueue(j)
           P == \E c \in Conns : conn[c].pc = "popped" /\ conn[c].val.jid = j
           S(s) == InSet(s, j)
           F == \E c \in Conns : conn[c].pc = "failadd" /\ conn[c].val.jid = j
           E == InSweep(j) /\ task.pc = "enqueue"
           R == InSweep(j) /\ Reaping
           H == \E c \in Conns : InHand(c, j)
<1>0. "scheduled" \in SetNames /\ "retries" \in SetNames /\ "dead" \in SetNames /\ "working" \in SetNames
  BY DEF SetNames
<1>1. State(j) = CASE U -> "NEW"
                   [] Q -> "ENQUEUED"
                   [] P -> "ENQUEUED"
                   [] S("scheduled") -> "SCHEDULED"
                   [] S("retries") -> "RETRIES"
                   [] S("dead") -> "DEAD"
                   [] S("working") -> "WORKING"
                   [] F -> "WORKING"
                   [] E -> IF task.name = "Scheduled" THEN "SCHEDULED" ELSE "RETRIES"
                   [] R -> "WORKING"
                   [] OTHER -> "GONE"
  BY DEF State
<1>2. /\ U => ~Q /\ ~H /\ (\A s \in SetNames : ~S(s)) /\ ~InSweep(j)
      /\ Q => ~H /\ (\A s \in SetNames : ~S(s)) /\ ~InSweep(j)
      /\ H => (\A s \in SetNames : ~S(s)) /\ ~InSweep(j)
      /\ InSweep(j) => \A s \in SetNames : ~S(s)
      /\ \A s, t \in SetNames : S(s) /\ S(t) => s = t
  <2>1. U => ~Exists(j)
    BY DEF Custody, UnbornIsNowhere
  <2>2. \A s, t \in SetNames : S(s) /\ S(t) => s = t
    BY DEF Custody, AtMostOneCopy, OnceInSets, InSet
  <2> QED
    BY <2>1, <2>2 DEF Exists, Custody, AtMostOneCopy, QueueOnly, HandsOnly, SweepOnly
<1>3. /\ P => H
      /\ F => H
      /\ P => ~F
      /\ H => P \/ F
      /\ E => ~R
      /\ InSweep(j) => E \/ R
  BY <1>2 DEF InHand, ConnHolds, Custody, AtMostOneCopy, OnceInHands, Reaping, InSweep, TaskHolds
<1>4. ASSUME NEW n, QueueCopy(j, n)
      PROVE  State(j) = "ENQUEUED"
  <2>1. Q
    BY <1>4, CopyPlaces
  <2>2. ~U /\ ~P /\ ~F /\ ~E /\ ~R /\ \A s \in SetNames : ~S(s)
    BY <1>2, <1>3, <2>1
  <2> HIDE DEF U, Q, P, S, F, E, R, H
  <2> QED
    BY <1>0, <1>1, <2>1, <2>2
<1>5. ASSUME NEW s \in SetNames, S(s)
      PROVE  State(j) = Label(s)
  <2>1. s = "scheduled" \/ s = "retries" \/ s = "dead" \/ s = "working"
    BY DEF SetNames
  <2>2. ~U /\ ~Q /\ ~P /\ ~F /\ ~E /\ ~R /\ \A t \in SetNames : S(t) => t = s
    BY <1>2, <1>3, <1>5
  <2> HIDE DEF U, Q, P, S, F, E, R, H
  <2> QED
    BY <1>0, <1>1, <1>5, <2>1, <2>2 DEF Label
<1>6. ASSUME NEW c \in Conns, NEW a, NEW n, HandCopy(conn[c], j, a, n)
      PROVE  State(j) = a
  <2>1. (a = "ENQUEUED" /\ P) \/ (a = "WORKING" /\ F)
    BY <1>6 DEF HandCopy
  <2>2. ~U /\ ~Q /\ ~E /\ ~R /\ \A s \in SetNames : ~S(s)
    BY <1>2, <1>3, <2>1
  <2>3. (P => ~F) /\ (F => ~P)
    BY <1>3
  <2> HIDE DEF U, Q, P, S, F, E, R, H
  <2> QED
    BY <1>0, <1>1, <2>1, <2>2, <2>3
<1>7. ASSUME NEW a, NEW n, SweepCopy(task, j, a, n)
      PROVE  State(j) = a
  <2>1. \/ E /\ a = (IF task.name = "Scheduled" THEN "SCHEDULED" ELSE "RETRIES")
        \/ R /\ a = "WORKING"
    BY <1>7 DEF SweepCopy, InSweep, TaskHolds, Reaping
  <2>2. InSweep(j)
    BY <1>7, CopyPlaces
  <2> HIDE DEF U, Q, P, S, F, E, R, H
  <2> QED
    BY <1>0, <1>1, <1>2, <1>3, <2>1, <2>2
<1>8. ASSUME \A a, n : ~Copy(j, a, n)
      PROVE  State(j) = (IF U THEN "NEW" ELSE "GONE")
  <2>1. ~Q /\ ~H /\ (\A s \in SetNames : ~S(s)) /\ ~InSweep(j)
    <3>1. \A n : ~QueueCopy(j, n)
      BY <1>8 DEF Copy
    <3>2. \A s \in SetNames : \A n : ~SetCopy(s, j, n)
      BY <1>8 DEF Copy
    <3>3. (\A c \in Conns : \A a, n : ~HandCopy(conn[c], j, a, n)) /\ \A a, n : ~SweepCopy(task, j, a, n)
      BY <1>8 DEF Copy
    <3> QED
      BY <3>1, <3>2, <3>3, CopyPlaces
  <2>2. ~P /\ ~F /\ ~E /\ ~R
    BY <1>3, <2>1
  <2> HIDE DEF U, Q, P, S, F, E, R, H
  <2> QED
    BY <1>0, <1>1, <2>1, <2>2
<1>9. \A s \in SetNames : \A n : SetCopy(s, j, n) => S(s)
  BY CopyPlaces
<1> QED
  BY <1>4, <1>5, <1>6, <1>7, <1>8, <1>9 DEF Copy

\* What the mapping shows of every job.
LEMMA MappingView ==
    ASSUME TypeOK, Custody
    PROVE  View
<1> SUFFICES ASSUME NEW j \in Jobs
             PROVE  /\ \A a, n : Copy(j, a, n) => Tries(j) = n
                    /\ (\A a, n : ~Copy(j, a, n)) => Tries(j) = 0
  BY StateIsPlace DEF View
<1>1. ASSUME NEW a, NEW n, Copy(j, a, n)
      PROVE  Tries(j) = n
  <2>1. n \in Recorded(j)
    BY <1>1, RecordedIsCopied
  <2>2. \A m \in Recorded(j) : m = n
    BY <1>1, RecordedIsCopied, CopyUnique DEF Custody
  <2> QED
    BY <2>1, <2>2 DEF Tries
<1>2. ASSUME \A a, n : ~Copy(j, a, n)
      PROVE  Tries(j) = 0
  <2>1. Recorded(j) = {}
    BY <1>2, RecordedIsCopied
  <2> QED
    BY <2>1 DEF Tries
<1> QED
  BY <1>1, <1>2

-----------------------------------------------------------------------------
(* Steps of copies and steps of the diagram *)

\* The mapping shows the same of a job before and after.
Unmoved(j) == State(j)' = State(j) /\ Tries(j)' = Tries(j)

\* No copy of the job is left, and it was pushed.
GoneNext(j) == (\A a, n : ~Copy(j, a, n)') /\ fate'[j] # "unborn"

\* A job whose copies are the same before and after is not moved.
LEMMA SameCopies ==
    ASSUME View, View', NEW j \in Jobs,
           \A a, n : Copy(j, a, n)' <=> Copy(j, a, n),
           fate'[j] = "unborn" <=> fate[j] = "unborn"
    PROVE  Unmoved(j)
<1>1. CASE \E a, n : Copy(j, a, n)
  <2>1. PICK a, n : Copy(j, a, n)
    BY <1>1
  <2>2. Copy(j, a, n)'
    BY <2>1
  <2> QED
    BY <2>1, <2>2 DEF View, Unmoved
<1>2. CASE \A a, n : ~Copy(j, a, n)
  <2>1. \A a, n : ~Copy(j, a, n)'
    BY <1>2
  <2> QED
    BY <1>2, <2>1 DEF View, Unmoved
<1> QED
  BY <1>1, <1>2

\* A job whose copy stands for the same as before is not moved.
LEMMA SameCopy ==
    ASSUME View, View', NEW j \in Jobs, NEW a, NEW n, Copy(j, a, n), Copy(j, a, n)'
    PROVE  Unmoved(j)
  BY DEF View, Unmoved

\* The diagram stutters when no job is moved and nothing fails.
LEMMA Stutters ==
    ASSUME \A j \in Jobs : Unmoved(j), UNCHANGED <<crashes, errs>>
    PROVE  UNCHANGED Abstract!lvars
  BY DEF Unmoved, Abstract!lvars

\* One job goes to another state, or is gone.
LEMMA Moves ==
    ASSUME View, View', NEW h \in Jobs, NEW a, NEW n, NEW b, NEW m,
           Copy(h, a, n) \/ (a = "NEW" /\ fate[h] = "unborn" /\ \A x, k : ~Copy(h, x, k)),
           \A j \in Jobs \ {h} : Unmoved(j), UNCHANGED <<crashes, errs>>,
           (b # "GONE" /\ Copy(h, b, m)') \/ (b = "GONE" /\ GoneNext(h))
    PROVE  Abstract!Move(h, a, b, m)
<1>1. State(h) = a
  BY DEF View
<1>2. State(h)' = b /\ Tries(h)' = IF b = "GONE" THEN 0 ELSE m
  BY DEF View, GoneNext
<1> QED
  BY <1>1, <1>2 DEF Unmoved, Abstract!Move

\* A fault loses the jobs of L and leaves the others alone.
LEMMA Loses ==
    ASSUME View, View', NEW L \in SUBSET Jobs,
           \A j \in L : /\ State(j) \notin {"DEAD", "GONE"}
                        /\ GoneNext(j),
           \A j \in Jobs \ L : Unmoved(j),
           crashes' + errs' = crashes + errs + 1
    PROVE  Abstract!Fault(L)
<1>1. \A j \in L : State(j)' = "GONE" /\ Tries(j)' = 0
  BY DEF View, GoneNext
<1> QED
  BY <1>1 DEF Unmoved, Abstract!Fault

-----------------------------------------------------------------------------
(* How copies come and go in each kind of place *)

\* In the queue: LPUSH adds one, BRPOP takes the one at the head.
LEMMA QueueCopies ==
    ASSUME TypeOK, NEW j, NEW n
    PROVE  /\ UNCHANGED queue => (QueueCopy(j, n)' <=> QueueCopy(j, n))
           /\ \A v : queue' = Append(queue, v) =>
                (QueueCopy(j, n)' <=> QueueCopy(j, n) \/ (j = v.jid /\ n = v.fails))
           /\ queue # << >> /\ queue' = Tail(queue) =>
                (QueueCopy(j, n) <=> \/ QueueCopy(j, n)'
                                     \/ j = Head(queue).jid /\ n = Head(queue).fails)
<1>1. UNCHANGED queue => (QueueCopy(j, n)' <=> QueueCopy(j, n))
  BY DEF QueueCopy
<1>2. ASSUME NEW v, queue' = Append(queue, v)
      PROVE  QueueCopy(j, n)' <=> QueueCopy(j, n) \/ (j = v.jid /\ n = v.fails)
  <2>1. /\ Len(queue') = Len(queue) + 1
        /\ Len(queue) \in Nat
        /\ \A k \in 1..Len(queue) : queue'[k] = queue[k]
        /\ queue'[Len(queue) + 1] = v
    BY <1>2 DEF TypeOK
  <2>2. \A k : k \in 1..Len(queue') <=> k \in 1..Len(queue) \/ k = Len(queue) + 1
    BY <2>1
  <2> QED
    BY <2>1, <2>2 DEF QueueCopy
<1>3. ASSUME queue # << >>, queue' = Tail(queue)
      PROVE  QueueCopy(j, n) <=> \/ QueueCopy(j, n)'
                                 \/ j = Head(queue).jid /\ n = Head(queue).fails
  <2>1. /\ Len(queue) \in Nat
        /\ Len(queue) > 0
        /\ Len(queue') = Len(queue) - 1
        /\ \A k \in 1..Len(queue') : queue'[k] = queue[k + 1]
        /\ Head(queue) = queue[1]
    BY <1>3 DEF TypeOK
  <2>2. \A k \in 1..Len(queue) : k = 1 \/ (k - 1 \in 1..Len(queue') /\ queue[k] = queue'[k - 1])
    BY <2>1
  <2>3. 1 \in 1..Len(queue) /\ \A k \in 1..Len(queue') : k + 1 \in 1..Len(queue)
    BY <2>1
  <2> QED
    BY <2>1, <2>2, <2>3 DEF QueueCopy
<1> QED
  BY <1>1, <1>2, <1>3

\* In a sorted set: ZADD adds one, ZREM takes those of one job away.
LEMMA SetCopies ==
    ASSUME TypeOK, NEW s \in SetNames, NEW j, NEW n
    PROVE  /\ UNCHANGED zset => (SetCopy(s, j, n)' <=> SetCopy(s, j, n))
           /\ \A t \in SetNames : \A e : zset' = [zset EXCEPT ![t] = AddElement(@, e)] =>
                (SetCopy(s, j, n)' <=>
                   SetCopy(s, j, n) \/ (s = t /\ j = e.jid /\ n = e.fails))
           /\ \A t \in SetNames : \A D : zset' = [zset EXCEPT ![t] = @ \ D] =>
                /\ SetCopy(s, j, n)' => SetCopy(s, j, n)
                /\ (\A e \in D : e.jid # j) => (SetCopy(s, j, n)' <=> SetCopy(s, j, n))
<1>1. UNCHANGED zset => (SetCopy(s, j, n)' <=> SetCopy(s, j, n))
  BY DEF SetCopy
<1>2. ASSUME NEW t \in SetNames, NEW e, zset' = [zset EXCEPT ![t] = AddElement(@, e)]
      PROVE  SetCopy(s, j, n)' <=> SetCopy(s, j, n) \/ (s = t /\ j = e.jid /\ n = e.fails)
  <2>1. zset'[s] = IF s = t THEN zset[s] \cup {e} ELSE zset[s]
    BY <1>2 DEF TypeOK, AddElement
  <2> QED
    BY <2>1 DEF SetCopy
<1>3. ASSUME NEW t \in SetNames, NEW D, zset' = [zset EXCEPT ![t] = @ \ D]
      PROVE  /\ SetCopy(s, j, n)' => SetCopy(s, j, n)
             /\ (\A e \in D : e.jid # j) => (SetCopy(s, j, n)' <=> SetCopy(s, j, n))
  <2>1. zset'[s] = IF s = t THEN zset[s] \ D ELSE zset[s]
    BY <1>3 DEF TypeOK
  <2> QED
    BY <2>1 DEF SetCopy
<1> QED
  BY <1>1, <1>2, <1>3

\* Who holds nothing, or another job, has no copy of it.
LEMMA NoCopies ==
    ASSUME NEW j, NEW a, NEW n
    PROVE  /\ \A k : k.pc \notin {"popped", "failadd"} \/ k.val.jid # j => ~HandCopy(k, j, a, n)
           /\ \A t : t.pc \notin {"enqueue", "check", "extend", "clear", "store"} \/ t.hand.jid # j =>
                ~SweepCopy(t, j, a, n)
  BY DEF HandCopy, SweepCopy

\* A job that no place treats differently is not moved.
LEMMA Untouched ==
    ASSUME View, View', NEW j \in Jobs,
           \A n : QueueCopy(j, n)' <=> QueueCopy(j, n),
           \A s \in SetNames : \A n : SetCopy(s, j, n)' <=> SetCopy(s, j, n),
           \A c \in Conns : \A a, n : HandCopy(conn'[c], j, a, n) <=> HandCopy(conn[c], j, a, n),
           \A a, n : SweepCopy(task', j, a, n) <=> SweepCopy(task, j, a, n),
           fate'[j] = "unborn" <=> fate[j] = "unborn"
    PROVE  Unmoved(j)
<1>1. ASSUME NEW a, NEW n
      PROVE  Copy(j, a, n)' <=> Copy(j, a, n)
  BY DEF Copy
<1> QED
  BY <1>1, SameCopies

-----------------------------------------------------------------------------
(***************************************************************************)
(* The failures a reservation carries in memory are those of the entry in  *)
(* the working set, or of the one the reaper has taken from it, and a job  *)
(* that is about to be stored after a failure is one that is retried.      *)
(***************************************************************************)
Decided(j) == \/ j \in workingMap
              \/ \E c \in Conns : conn[c].pc \in {"ackrem", "failrem"} /\ conn[c].val.jid = j
Agreed ==
    /\ \A e \in zset["working"] : Decided(e.jid) => reservation[e.jid].fails = e.fails
    /\ task.pc \in {"check", "clear", "extend"} /\ Decided(task.hand.jid) =>
          reservation[task.hand.jid].fails = task.hand.fails
Retried == /\ \A c \in Conns : conn[c].pc = "failadd" => Retry[conn[c].val.jid] # 0
           /\ task.pc = "store" => Retry[task.hand.jid] # 0

\* The failures in a reservation change by ReserveMap or a restart; otherwise
\* who decides about a job decided before.
LEMMA DecidedSteps ==
    ASSUME TypeOK, [Next]_vars
    PROVE  \/ \A j \in Jobs : /\ reservation'[j].fails = reservation[j].fails
                              /\ Decided(j)' => Decided(j)
           \/ \E c \in Conns : ReserveMap(c)
           \/ Boot
           \/ Crash /\ \A j \in Jobs : ~Decided(j)'
<1>1. ASSUME NEW j \in Jobs, Decided(j)'
      PROVE  j \in workingMap' \/ Decided(j)
  BY <1>1, RemoverSteps DEF Decided
<1>2. CASE workingMap' \subseteq workingMap /\ \A j \in Jobs : reservation'[j].fails = reservation[j].fails
  BY <1>1, <1>2 DEF Decided
<1>3. CASE ReapCheck
  BY <1>1, <1>3, ReapCheckFields DEF Decided
<1>4. CASE Crash
  <2>1. workingMap' = {} /\ \A c \in Conns : conn'[c].pc = "idle"
    BY <1>4, IdleTaskFields DEF Crash
  <2> QED
    BY <1>4, <2>1 DEF Decided
<1> QED
  BY <1>2, <1>3, <1>4, ReservationSteps

\* Memory and store record the same failures.
LEMMA NextAgreed ==
    ASSUME ~SharedScores, TypeOK, AtMostOneCopy, ReserveInv, Agreed, [Next]_vars
    PROVE  Agreed'
<1>1. ASSUME NEW c \in Conns, conn[c].pc = "popped"
      PROVE  ~Decided(conn[c].val.jid)
  <2>1. PICK h \in Jobs : h = conn[c].val.jid
    BY HandTypes
  <2>2. Loose(h)
    BY <1>1, <2>1 DEF Loose, InHand, ConnHolds
  <2> QED
    BY <2>1, <2>2 DEF ReserveInv, Tickets, OneTicket, Ticket, Decided
<1>2. ASSUME NEW e \in zset'["working"], Decided(e.jid)'
      PROVE  reservation'[e.jid].fails = e.fails
  <2>1. CASE e \notin zset["working"] /\ \E c \in Conns, t \in Timeouts : ReserveStore(c, t)
    <3>1. PICK c \in Conns, t \in Timeouts : ReserveStore(c, t)
      BY <2>1
    <3>2. PICK h \in Jobs : h = conn[c].val.jid
      BY HandTypes
    <3>3. e.jid = h /\ conn[c].pc = "popped" /\ UNCHANGED workingMap
          /\ conn'[c].pc = "stored" /\ \A d \in Conns \ {c} : conn'[d] = conn[d]
      BY <2>1, <3>1, <3>2, ReserveStoreFields, NewFields
    <3> QED
      BY <1>1, <1>2, <3>2, <3>3 DEF Decided
  <2>2. CASE e \notin zset["working"] /\ ReapExtend
    <3>1. PICK h \in Jobs : h = task.hand.jid
      BY HandTypes
    <3>2. e.jid = h /\ e.fails = task.hand.fails /\ task.pc = "extend"
          /\ UNCHANGED <<workingMap, reservation, conn>>
      BY <2>2, <3>1, ReapExtendFields, NewFields
    <3> QED
      BY <1>2, <3>1, <3>2 DEF Agreed, Decided
  <2>3. CASE e \in zset["working"]
    <3>0. e.jid \in Jobs
      BY <2>3, ExpiryTypes
    <3>1. CASE /\ reservation'[e.jid].fails = reservation[e.jid].fails
               /\ Decided(e.jid)' => Decided(e.jid)
      BY <1>2, <2>3, <3>1 DEF Agreed
    <3>2. ASSUME NEW c \in Conns, ReserveMap(c)
          PROVE  reservation'[e.jid].fails = e.fails
      <4>1. PICK h \in Jobs : h = conn[c].val.jid
        BY HandTypes
      <4>2. CASE e.jid = h
        BY <2>3, <3>2, <4>1, <4>2, ReserveMapFields, StoredAlone DEF ReserveInv
      <4>3. CASE e.jid # h
        <5>1. reservation'[e.jid] = reservation[e.jid] /\ (e.jid \in workingMap' => e.jid \in workingMap)
              /\ conn'[c].pc = "idle" /\ \A d \in Conns \ {c} : conn'[d] = conn[d]
          BY <3>0, <3>2, <4>1, <4>3, ReserveMapFields
        <5>2. Decided(e.jid)
          BY <1>2, <5>1 DEF Decided
        <5> QED
          BY <2>3, <5>1, <5>2 DEF Agreed
      <4> QED
        BY <4>2, <4>3
    <3>3. CASE Boot
      BY <2>3, <3>3, BootFields
    <3> QED
      BY <1>2, <3>0, <3>1, <3>2, <3>3, DecidedSteps
  <2> QED
    BY <2>1, <2>2, <2>3, WorkingSteps
<1>3. ASSUME NEW h \in Jobs, task'.pc \in {"check", "clear", "extend"}, task'.hand.jid = h, Decided(h)'
      PROVE  reservation'[h].fails = task'.hand.fails
  <2>1. CASE task' = task \/ ReapCheck
    <3>0. task.pc \in {"check", "clear", "extend"} /\ task'.hand = task.hand
      BY <1>3, <2>1, ReapCheckFields
    <3>1. InSweep(h) /\ ~Crash /\ ~Boot
      <4>1. InSweep(h) /\ up
        BY <1>3, <3>0 DEF InSweep, TaskHolds, ReserveInv, Down
      <4>2. ~Crash
        BY <1>3, IdleTaskFields DEF Crash
      <4> QED
        BY <4>1, <4>2 DEF Boot
    <3>2. ASSUME NEW c \in Conns, ReserveMap(c)
          PROVE  /\ reservation'[h].fails = reservation[h].fails
                 /\ Decided(h)
      <4>1. PICK g \in Jobs : g = conn[c].val.jid
        BY HandTypes
      <4>2. g # h
        BY <3>1, <3>2, <4>1, ReserveMapFields, StoredAlone DEF ReserveInv
      <4>3. reservation'[h] = reservation[h] /\ (h \in workingMap' => h \in workingMap)
            /\ conn'[c].pc = "idle" /\ \A d \in Conns \ {c} : conn'[d] = conn[d]
        BY <3>2, <4>1, <4>2, ReserveMapFields
      <4> QED
        BY <1>3, <4>3 DEF Decided
    <3>3. reservation'[h].fails = reservation[h].fails /\ Decided(h)
      BY <1>3, <3>1, <3>2, DecidedSteps
    <3> QED
      BY <1>3, <3>0, <3>3 DEF Agreed
  <2>2. ASSUME NEW e \in task.batch, TaskRemove(e)
        PROVE  reservation'[h].fails = task'.hand.fails
    <3>1. e \in zset["working"] /\ e.jid = h /\ task'.hand.fails = e.fails
      BY <1>3, <2>2, TaskRemoveFields, NewFields
    <3>2. UNCHANGED <<workingMap, reservation, conn>>
      BY <2>2 DEF TaskRemove, memory
    <3> QED
      BY <1>3, <3>1, <3>2 DEF Agreed, Decided
  <2> QED
    BY <1>3, <2>1, <2>2, ReapingSteps
<1>4. task'.hand.jid \in Jobs
  BY NextType, HandTypes DEF TypeOK, Value
<1> QED
  BY <1>2, <1>3, <1>4 DEF Agreed

\* Only a job with retries is stored after a failure.
LEMMA NextRetried ==
    ASSUME TypeOK, Retried, [Next]_vars
    PROVE  Retried'
<1>1. ASSUME NEW c \in Conns, conn'[c].pc = "failadd"
      PROVE  Retry[conn'[c].val.jid] # 0
  <2>1. CASE conn'[c] = conn[c]
    BY <1>1, <2>1 DEF Retried
  <2>2. CASE ConnNext(c)
    <3>1. ~Idle(c)
      BY <1>1, IdleFields
    <3>2. \A p, v : Hold(c, p, v) => p = "failadd" /\ v = conn'[c].val
      BY <1>1, HoldFields
    <3>3. /\ ~FetchPop(c) /\ ~ReserveMap(c) /\ ~AckRemove(c) /\ ~FailStore(c) /\ ~StoreError(c)
          /\ \A t \in Timeouts : ~ReserveStore(c, t)
          /\ \A j \in Jobs : ~AckClear(c, j) /\ ~FailClear(c, j)
      BY <3>1, <3>2 DEF FetchPop, ReserveStore, ReserveMap, AckClear, FailClear,
         AckRemove, FailStore, StoreError
    <3>4. FailRemove(c)
      BY <2>2, <3>3 DEF ConnNext
    <3> QED
      BY <3>1, <3>2, <3>4, NewFields DEF FailRemove
  <2> QED
    BY <1>1, <2>1, <2>2, ConnSteps
<1>2. ASSUME task'.pc = "store"
      PROVE  Retry[task'.hand.jid] # 0
  <2>1. CASE task' = task
    BY <1>2, <2>1 DEF Retried
  <2>2. CASE ReapClear
    <3>1. \A n : ~NextMember(n)
      BY <1>2, NextMemberFields
    <3>2. PICK h : h = task.hand.jid
      OBVIOUS
    <3>3. PICK f : Retry[h] # 0 /\ task' = [task EXCEPT !.pc = "store", !.hand = NewValue(h, f)]
      BY <2>2, <3>1, <3>2 DEF ReapClear
    <3>4. task'.hand = NewValue(h, f)
      BY <3>3 DEF TypeOK
    <3> QED
      BY <3>3, <3>4, NewFields
  <2> QED
    BY <1>2, <2>1, <2>2, StoreSteps
<1> QED
  BY <1>1, <1>2 DEF Retried

-----------------------------------------------------------------------------
(* Every step is a step of the diagram *)

\* The one place that has a copy of a job.
LEMMA AloneCopies ==
    ASSUME AtMostOneCopy, NEW h \in Jobs
    PROVE  /\ \A s \in SetNames : InSet(s, h) =>
                /\ \A n : ~QueueCopy(h, n)
                /\ \A c \in Conns : \A a, n : ~HandCopy(conn[c], h, a, n)
                /\ \A a, n : ~SweepCopy(task, h, a, n)
           /\ \A c \in Conns : InHand(c, h) =>
                /\ \A n : ~QueueCopy(h, n)
                /\ \A s \in SetNames : \A n : ~SetCopy(s, h, n)
                /\ \A d \in Conns \ {c} : \A a, n : ~HandCopy(conn[d], h, a, n)
                /\ \A a, n : ~SweepCopy(task, h, a, n)
           /\ InSweep(h) =>
                /\ \A n : ~QueueCopy(h, n)
                /\ \A s \in SetNames : \A n : ~SetCopy(s, h, n)
                /\ \A c \in Conns : \A a, n : ~HandCopy(conn[c], h, a, n)
  BY CopyPlaces DEF AtMostOneCopy, QueueOnly, HandsOnly, SweepOnly, OnceInHands

\* A job that is in no place any more is gone.
LEMMA GoneFromPlaces ==
    ASSUME NEW h \in Jobs,
           \A n : ~QueueCopy(h, n)',
           \A s \in SetNames : \A n : ~SetCopy(s, h, n)',
           \A c \in Conns : \A a, n : ~HandCopy(conn'[c], h, a, n),
           \A a, n : ~SweepCopy(task', h, a, n),
           fate'[h] # "unborn"
    PROVE  GoneNext(h)
  BY DEF GoneNext, Copy

\* A step of connection c leaves a job alone that c does not hold.
LEMMA ConnUntouched ==
    ASSUME View, View', NEW j \in Jobs, NEW c \in Conns,
           \A d \in Conns \ {c} : conn'[d] = conn[d],
           \A n : QueueCopy(j, n)' <=> QueueCopy(j, n),
           \A s \in SetNames : \A n : SetCopy(s, j, n)' <=> SetCopy(s, j, n),
           conn[c].pc \notin {"popped", "failadd"} \/ conn[c].val.jid # j,
           conn'[c].pc \notin {"popped", "failadd"} \/ conn'[c].val.jid # j,
           UNCHANGED task,
           fate'[j] = "unborn" <=> fate[j] = "unborn"
    PROVE  Unmoved(j)
<1>1. \A a, n : ~HandCopy(conn[c], j, a, n) /\ ~HandCopy(conn'[c], j, a, n)
  BY NoCopies
<1>2. \A d \in Conns : \A a, n : HandCopy(conn'[d], j, a, n) <=> HandCopy(conn[d], j, a, n)
  BY <1>1
<1> QED
  BY <1>2, Untouched

\* What is known in a state in which a step begins, and about the mapping after.
Known == /\ ~SharedScores /\ TypeOK /\ Custody /\ ReserveInv /\ Agreed /\ Retried
         /\ View

Follows == Abstract!Next \/ UNCHANGED Abstract!lvars

\* BRPOP: the job is still shown as enqueued.
LEMMA FollowFetchPop ==
    ASSUME Known, View', NEW c \in Conns, FetchPop(c)
    PROVE  Follows
<1> USE DEF Known
<1>1. PICK v \in Value : v = Head(queue)
  BY DEF FetchPop, TypeOK
<1>2. /\ conn[c].pc = "idle" /\ conn'[c].pc = "popped" /\ conn'[c].val = v /\ v.jid \in Jobs
      /\ \A d \in Conns \ {c} : conn'[d] = conn[d]
      /\ queue # << >> /\ queue' = Tail(queue)
      /\ UNCHANGED <<zset, task, fate, crashes, errs>>
  BY <1>1, HoldFields DEF FetchPop, faults, history, Value
<1>3. ASSUME NEW j \in Jobs, j # v.jid
      PROVE  Unmoved(j)
  <2>1. /\ \A n : QueueCopy(j, n)' <=> QueueCopy(j, n)
        /\ \A s \in SetNames : \A n : SetCopy(s, j, n)' <=> SetCopy(s, j, n)
    BY <1>1, <1>2, <1>3, QueueCopies, SetCopies
  <2> QED
    BY <1>2, <1>3, <2>1, ConnUntouched
<1>4. QueueCopy(v.jid, v.fails) /\ HandCopy(conn'[c], v.jid, "ENQUEUED", v.fails)
  BY <1>1, <1>2, QueueCopies DEF HandCopy
<1>5. Copy(v.jid, "ENQUEUED", v.fails) /\ Copy(v.jid, "ENQUEUED", v.fails)'
  BY <1>4 DEF Copy
<1>6. Unmoved(v.jid)
  BY <1>2, <1>5, SameCopy
<1> QED
  BY <1>2, <1>3, <1>6, Stutters DEF Follows

\* ZADD to the working set: the worker has the job.
LEMMA FollowReserveStore ==
    ASSUME Known, View', NEW c \in Conns, NEW t \in Timeouts, ReserveStore(c, t)
    PROVE  Follows
<1> USE DEF Known
<1>1. PICK h \in Jobs, f \in Nat : h = conn[c].val.jid /\ f = conn[c].val.fails
  BY HandTypes
<1>2. /\ conn[c].pc = "popped" /\ conn'[c].pc = "stored" /\ conn'[c].val.jid = h
      /\ \A d \in Conns \ {c} : conn'[d] = conn[d]
      /\ UNCHANGED <<queue, task, fate, crashes, errs>>
  BY <1>1, ReserveStoreFields DEF ReserveStore, faults
<1>3. "working" \in SetNames /\ Label("working") = "WORKING"
  BY DEF SetNames, Label
<1>4. PICK e : e.jid = h /\ e.fails = f /\ zset' = [zset EXCEPT !["working"] = AddElement(@, e)]
  <2>1. PICK e : e = NewEntry(h, f, now + t, now + t)
    OBVIOUS
  <2>2. zset' = [zset EXCEPT !["working"] = AddElement(@, e)]
    BY <1>1, <2>1 DEF ReserveStore
  <2>3. e.jid = h /\ e.fails = f
    BY <2>1, NewFields
  <2> QED
    BY <2>2, <2>3
<1>5. ASSUME NEW j \in Jobs, j # h
      PROVE  Unmoved(j)
  <2>1. /\ \A n : QueueCopy(j, n)' <=> QueueCopy(j, n)
        /\ \A s \in SetNames : \A n : SetCopy(s, j, n)' <=> SetCopy(s, j, n)
    BY <1>2, <1>3, <1>4, <1>5, QueueCopies, SetCopies
  <2> QED
    BY <1>1, <1>2, <1>5, <2>1, ConnUntouched
<1>6. HandCopy(conn[c], h, "ENQUEUED", f) /\ SetCopy("working", h, f)'
  BY <1>1, <1>2, <1>3, <1>4, SetCopies DEF HandCopy
<1>7. Copy(h, "ENQUEUED", f) /\ Copy(h, "WORKING", f)'
  BY <1>3, <1>6 DEF Copy
<1>8. Abstract!Move(h, "ENQUEUED", "WORKING", f) /\ Tries(h) = f
  BY <1>2, <1>5, <1>7, Moves DEF View
<1>9. Abstract!Fetch(h)
  BY <1>8 DEF Abstract!Fetch
<1> QED
  BY <1>9 DEF Follows, Abstract!Next

\* Steps of a connection that move no copy of a job.
LEMMA FollowConnQuiet ==
    ASSUME Known, View', NEW c \in Conns,
           ReserveMap(c) \/ \E j \in Jobs : AckClear(c, j) \/ FailClear(c, j)
    PROVE  Follows
<1> USE DEF Known
<1>1. /\ conn[c].pc \in {"stored", "idle"} /\ conn'[c].pc \in {"idle", "ackrem", "failrem"}
      /\ \A d \in Conns \ {c} : conn'[d] = conn[d]
      /\ UNCHANGED <<queue, zset, task, crashes, errs>>
  BY HoldFields, IdleFields DEF ReserveMap, AckClear, FailClear, store, faults
<1>2. \A j \in Jobs : fate'[j] = "unborn" <=> fate[j] = "unborn"
  <2>1. \A j \in workingMap : j \in Jobs /\ fate[j] # "unborn"
    BY DEF ReserveInv, Tickets, OneTicket, TypeOK
  <2>2. CASE ReserveMap(c) \/ \E j \in Jobs : FailClear(c, j)
    BY <2>2 DEF ReserveMap, FailClear, history
  <2>3. ASSUME NEW j \in Jobs, AckClear(c, j)
        PROVE  \A i \in Jobs : fate'[i] = "unborn" <=> fate[i] = "unborn"
    BY <2>1, <2>3 DEF AckClear, clearReservation, TypeOK
  <2> QED
    BY <2>2, <2>3
<1>3. ASSUME NEW j \in Jobs
      PROVE  Unmoved(j)
  BY <1>1, <1>2, QueueCopies, SetCopies, ConnUntouched
<1> QED
  BY <1>1, <1>3, Stutters DEF Follows

\* An entry that is removed is the only copy of its job.
LEMMA FoundCopy ==
    ASSUME Known, NEW c \in Conns, conn[c].pc \in {"ackrem", "failrem"},
           NEW h \in Jobs, h = conn[c].val.jid,
           zset' = [zset EXCEPT !["working"] = @ \ Found(h)]
    PROVE  /\ fate[h] # "unborn"
           /\ \A j \in Jobs \ {h} : \A s \in SetNames : \A n : SetCopy(s, j, n)' <=> SetCopy(s, j, n)
           /\ Found(h) = {} => UNCHANGED zset
           /\ Found(h) # {} =>
                /\ Copy(h, "WORKING", reservation[h].fails)
                /\ InSet("working", h)
                /\ \A s \in SetNames : \A n : ~SetCopy(s, h, n)'
<1> USE DEF Known
<1>0. "working" \in SetNames /\ Label("working") = "WORKING"
  BY DEF SetNames, Label
<1>1. fate[h] # "unborn"
  BY DEF ReserveInv, Tickets, OneTicket, Ticket
<1>2. \A e \in Found(h) : e.jid = h /\ e \in zset["working"]
  BY RemOwn, SortedSetTypes DEF Found
<1>3. \A j \in Jobs \ {h} : \A s \in SetNames : \A n : SetCopy(s, j, n)' <=> SetCopy(s, j, n)
  BY <1>0, <1>2, SetCopies
<1>4. Found(h) = {} => UNCHANGED zset
  <2> SUFFICES ASSUME Found(h) = {} PROVE UNCHANGED zset
    OBVIOUS
  <2>1. zset["working"] \ Found(h) = zset["working"]
    OBVIOUS
  <2> QED
    BY <2>1 DEF TypeOK
<1>5. ASSUME Found(h) # {}
      PROVE  /\ Copy(h, "WORKING", reservation[h].fails)
             /\ InSet("working", h)
             /\ \A s \in SetNames : \A n : ~SetCopy(s, h, n)'
  <2>1. PICK e : e \in Found(h)
    BY <1>5
  <2>2. e.jid = h /\ e \in zset["working"]
    BY <1>2, <2>1
  <2>3. e.fails = reservation[h].fails
    BY <2>2 DEF Agreed, Decided
  <2>4. SetCopy("working", h, reservation[h].fails) /\ InSet("working", h)
    BY <2>2, <2>3 DEF SetCopy, InSet
  <2>5. \A s \in SetNames : \A x \in zset[s] : x.jid = h => s = "working" /\ x = e
    BY <1>0, <2>2 DEF Custody, AtMostOneCopy, OnceInSets
  <2>6. \A s \in SetNames : zset'[s] = IF s = "working" THEN zset[s] \ Found(h) ELSE zset[s]
    BY DEF TypeOK
  <2>7. \A s \in SetNames : \A n : ~SetCopy(s, h, n)'
    BY <2>1, <2>5, <2>6 DEF SetCopy
  <2> QED
    BY <1>0, <2>4, <2>7 DEF Copy
<1> QED
  BY <1>1, <1>3, <1>4, <1>5

\* ACK's ZREM: the job is gone, if it was still there.
LEMMA FollowAckRemove ==
    ASSUME Known, View', NEW c \in Conns, AckRemove(c)
    PROVE  Follows
<1> USE DEF Known
<1>1. PICK h \in Jobs : h = conn[c].val.jid
  BY HandTypes
<1>2. /\ conn[c].pc = "ackrem" /\ conn'[c].pc = "idle"
      /\ \A d \in Conns \ {c} : conn'[d] = conn[d]
      /\ zset' = [zset EXCEPT !["working"] = @ \ Found(h)]
      /\ UNCHANGED <<queue, task, crashes, errs>>
      /\ fate' = [fate EXCEPT ![h] = "acked"]
  BY <1>1, IdleFields DEF AckRemove, faults
<1>3. /\ fate[h] # "unborn" /\ fate'[h] # "unborn"
      /\ \A j \in Jobs \ {h} : fate'[j] = fate[j]
      /\ \A j \in Jobs \ {h} : \A s \in SetNames : \A n : SetCopy(s, j, n)' <=> SetCopy(s, j, n)
  BY <1>1, <1>2, FoundCopy DEF TypeOK
<1>4. ASSUME NEW j \in Jobs \ {h}
      PROVE  Unmoved(j)
  BY <1>2, <1>3, QueueCopies, ConnUntouched
<1>5. CASE Found(h) = {}
  <2>1. UNCHANGED zset
    <3>1. zset \in [SetNames -> SUBSET Entry]
      BY DEF TypeOK
    <3> QED
      BY <1>2, <1>5, <3>1
  <2>2. Unmoved(h)
    BY <1>2, <1>3, <2>1, QueueCopies, SetCopies, ConnUntouched
  <2> QED
    BY <1>2, <1>4, <2>2, Stutters DEF Follows
<1>6. CASE Found(h) # {}
  <2>1. /\ Copy(h, "WORKING", reservation[h].fails) /\ InSet("working", h)
        /\ \A s \in SetNames : \A n : ~SetCopy(s, h, n)'
    BY <1>1, <1>2, <1>6, FoundCopy
  <2>2. /\ \A n : ~QueueCopy(h, n)
        /\ \A d \in Conns : \A a, n : ~HandCopy(conn[d], h, a, n)
        /\ \A a, n : ~SweepCopy(task, h, a, n)
    BY <2>1, AloneCopies DEF Custody, SetNames
  <2>3. GoneNext(h)
    BY <1>2, <1>3, <2>1, <2>2, QueueCopies, NoCopies, GoneFromPlaces
  <2>4. Abstract!Move(h, "WORKING", "GONE", 0)
    BY <1>2, <1>4, <2>1, <2>3, Moves
  <2> QED
    BY <2>4 DEF Follows, Abstract!Next, Abstract!Ack
<1> QED
  BY <1>5, <1>6

\* FAIL's ZREM: a job without retries is gone, the others are still shown as
\* being worked on.
LEMMA FollowFailRemove ==
    ASSUME Known, View', NEW c \in Conns, FailRemove(c)
    PROVE  Follows
<1> USE DEF Known
<1>1. PICK h \in Jobs, f \in Nat : h = conn[c].val.jid /\ f = reservation[h].fails
  BY HandTypes, CountTypes
<1>2. /\ conn[c].pc = "failrem"
      /\ zset' = [zset EXCEPT !["working"] = @ \ Found(h)]
      /\ UNCHANGED <<queue, task, crashes, errs>>
      /\ \/ /\ Found(h) # {} /\ Retry[h] # 0
            /\ Hold(c, "failadd", NewValue(h, f + 1)) /\ UNCHANGED fate
         \/ Found(h) # {} /\ Retry[h] = 0 /\ Settle(h, "ephemeral") /\ Idle(c)
         \/ Found(h) = {} /\ Idle(c) /\ UNCHANGED fate
  BY <1>1 DEF FailRemove, faults
<1>3. /\ \A d \in Conns \ {c} : conn'[d] = conn[d]
      /\ Idle(c) => conn'[c].pc = "idle"
      /\ Hold(c, "failadd", NewValue(h, f + 1)) =>
           conn'[c].pc = "failadd" /\ conn'[c].val.jid = h /\ conn'[c].val.fails = f + 1
  BY <1>2, IdleFields, HoldFields, NewFields
<1>4. /\ fate[h] # "unborn"
      /\ \A j \in Jobs \ {h} : \A s \in SetNames : \A n : SetCopy(s, j, n)' <=> SetCopy(s, j, n)
  BY <1>1, <1>2, FoundCopy, ZenonT(60)
<1>5. fate'[h] # "unborn" /\ \A j \in Jobs \ {h} : fate'[j] = fate[j]
  BY <1>2, <1>4 DEF Settle, TypeOK
<1>6. ASSUME NEW j \in Jobs \ {h}
      PROVE  Unmoved(j)
  BY <1>2, <1>3, <1>4, <1>5, QueueCopies, ConnUntouched
<1>7. CASE Found(h) = {}
  <2>1. UNCHANGED zset /\ conn'[c].pc = "idle"
    BY <1>1, <1>2, <1>3, <1>7, FoundCopy, ZenonT(60)
  <2>2. Unmoved(h)
    BY <1>2, <1>3, <1>4, <1>5, <2>1, QueueCopies, SetCopies, ConnUntouched
  <2> QED
    BY <1>2, <1>6, <2>2, Stutters DEF Follows
<1>8. CASE Found(h) # {} /\ Retry[h] # 0
  <2>1. Copy(h, "WORKING", f)
    BY <1>1, <1>2, <1>8, FoundCopy
  <2>2. conn'[c].pc = "failadd" /\ conn'[c].val.jid = h /\ conn'[c].val.fails = f + 1
    BY <1>2, <1>3, <1>8
  <2>3. HandCopy(conn'[c], h, "WORKING", f)
    BY <2>2 DEF HandCopy
  <2>4. Copy(h, "WORKING", f)'
    BY <2>3 DEF Copy
  <2>5. Unmoved(h)
    BY <2>1, <2>4, SameCopy
  <2> QED
    BY <1>2, <1>6, <2>5, Stutters DEF Follows
<1>9. CASE Found(h) # {} /\ Retry[h] = 0
  <2>1. /\ Copy(h, "WORKING", f) /\ InSet("working", h) /\ conn'[c].pc = "idle"
        /\ \A s \in SetNames : \A n : ~SetCopy(s, h, n)'
    BY <1>1, <1>2, <1>3, <1>9, FoundCopy
  <2>2. /\ \A n : ~QueueCopy(h, n)
        /\ \A d \in Conns : \A a, n : ~HandCopy(conn[d], h, a, n)
        /\ \A a, n : ~SweepCopy(task, h, a, n)
    BY <2>1, AloneCopies DEF Custody, SetNames
  <2>3. GoneNext(h)
    BY <1>2, <1>3, <1>5, <2>1, <2>2, QueueCopies, NoCopies, GoneFromPlaces
  <2>4. Abstract!Move(h, "WORKING", "GONE", 0)
    BY <1>2, <1>6, <2>1, <2>3, Moves
  <2> QED
    BY <1>9, <2>4 DEF Follows, Abstract!Next, Abstract!Fail
<1> QED
  BY <1>7, <1>8, <1>9

\* A failed job is put among the retries or into the morgue.
LEMMA FollowStore ==
    ASSUME Known, View', NEW v \in Value, Retry[v.jid] # 0, retryOrBury(v),
           Copy(v.jid, "WORKING", v.fails - 1),
           \A j \in Jobs \ {v.jid} :
              (\A s \in SetNames : \A n : SetCopy(s, j, n)' <=> SetCopy(s, j, n)) => Unmoved(j),
           UNCHANGED <<crashes, errs>>
    PROVE  Follows
<1> USE DEF Known
<1>1. PICK h \in Jobs, f \in Nat : h = v.jid /\ f = v.fails
  BY DEF Value
<1>2. /\ "retries" \in SetNames /\ Label("retries") = "RETRIES"
      /\ "dead" \in SetNames /\ Label("dead") = "DEAD"
  BY DEF SetNames, Label
<1>3. Tries(h) = f - 1 /\ Retry[h] \in Int
  BY <1>1, ManagerAssumption DEF View
<1>4. ASSUME NEW s \in {"retries", "dead"}, NEW e, e.jid = h, e.fails = f,
             zset' = [zset EXCEPT ![s] = AddElement(@, e)]
      PROVE  Abstract!Move(h, "WORKING", Label(s), f)
  <2>1. ASSUME NEW j \in Jobs \ {h}
        PROVE  Unmoved(j)
    BY <1>1, <1>2, <1>4, SetCopies
  <2>2. SetCopy(s, h, f)'
    BY <1>2, <1>4, SetCopies
  <2>3. Copy(h, Label(s), f)' /\ Label(s) # "GONE"
    BY <1>2, <2>2 DEF Copy
  <2> QED
    BY <1>1, <2>1, <2>3, Moves
<1>5. \A x, y : NewEntry(v.jid, v.fails, x, y).jid = h /\ NewEntry(v.jid, v.fails, x, y).fails = f
  BY <1>1, NewFields
<1>6. \/ f - 1 < Retry[h] /\ Abstract!Move(h, "WORKING", "RETRIES", f)
      \/ ~(f - 1 < Retry[h]) /\ Abstract!Move(h, "WORKING", "DEAD", f)
  BY <1>1, <1>2, <1>4, <1>5 DEF retryOrBury, MayRetry
<1>7. Abstract!Fail(h)
  <2>1. [j \in Jobs |-> Tries(j)][h] = f - 1 /\ (f - 1) + 1 = f
    BY <1>3
  <2>2. ~(f - 1 < Retry[h]) => f - 1 >= Retry[h]
    BY <1>3
  <2> QED
    BY <1>1, <1>6, <2>1, <2>2 DEF Abstract!Fail
<1> QED
  BY <1>7 DEF Follows, Abstract!Next

\* FAIL's ZADD.
LEMMA FollowFailStore ==
    ASSUME Known, View', NEW c \in Conns, FailStore(c)
    PROVE  Follows
<1> USE DEF Known
<1>1. PICK v \in Value : v = conn[c].val
  BY HandTypes
<1>2. /\ conn[c].pc = "failadd" /\ conn'[c].pc = "idle" /\ retryOrBury(v)
      /\ \A d \in Conns \ {c} : conn'[d] = conn[d]
      /\ UNCHANGED <<queue, task, fate, crashes, errs>>
  BY <1>1, IdleFields DEF FailStore, faults, history
<1>3. HandCopy(conn[c], v.jid, "WORKING", v.fails - 1) /\ Retry[v.jid] # 0
  BY <1>1, <1>2 DEF HandCopy, Retried
<1>4. Copy(v.jid, "WORKING", v.fails - 1)
  BY <1>3 DEF Copy
<1>5. ASSUME NEW j \in Jobs \ {v.jid},
             \A s \in SetNames : \A n : SetCopy(s, j, n)' <=> SetCopy(s, j, n)
      PROVE  Unmoved(j)
  BY <1>1, <1>2, <1>5, QueueCopies, ConnUntouched
<1> QED
  BY <1>2, <1>3, <1>4, <1>5, FollowStore

\* A failed command: what only the connection had is lost.
LEMMA FollowStoreError ==
    ASSUME Known, View', NEW c \in Conns, StoreError(c)
    PROVE  Follows
<1> USE DEF Known
<1>1. PICK h \in Jobs : h = conn[c].val.jid
  BY HandTypes
<1>2. /\ conn[c].pc \in {"popped", "ackrem", "failrem", "failadd"} /\ conn'[c].pc = "idle"
      /\ \A d \in Conns \ {c} : conn'[d] = conn[d]
      /\ UNCHANGED <<queue, zset, task, crashes>>
      /\ errs' = errs + 1
      /\ IF conn[c].pc \in {"popped", "failadd"} THEN Settle(h, "storeerr") ELSE UNCHANGED fate
  BY <1>1, IdleFields DEF StoreError, store
<1>3. crashes' + errs' = crashes + errs + 1
  BY <1>2 DEF TypeOK
<1>4. \A j \in Jobs : (fate'[j] = "unborn" <=> fate[j] = "unborn")
  BY <1>2 DEF Settle, TypeOK
<1>5. ASSUME NEW j \in Jobs, conn[c].pc \notin {"popped", "failadd"} \/ j # h
      PROVE  Unmoved(j)
  BY <1>1, <1>2, <1>4, <1>5, QueueCopies, SetCopies, ConnUntouched
<1>6. CASE conn[c].pc \notin {"popped", "failadd"}
  <2>1. Abstract!Fault({})
    BY <1>3, <1>5, <1>6, Loses
  <2> QED
    BY <2>1 DEF Follows, Abstract!Next
<1>7. CASE conn[c].pc \in {"popped", "failadd"}
  <2>1. InHand(c, h)
    BY <1>1, <1>7 DEF InHand, ConnHolds
  <2>2. PICK a, n : HandCopy(conn[c], h, a, n)
    BY <2>1, CopyPlaces
  <2>3. a \in {"ENQUEUED", "WORKING"} /\ Copy(h, a, n)
    BY <2>2 DEF HandCopy, Copy
  <2>4. State(h) \notin {"DEAD", "GONE"}
    BY <2>3 DEF View
  <2>5. fate[h] # "unborn"
    BY <2>1 DEF Custody, UnbornIsNowhere, Exists
  <2>6. /\ \A k : ~QueueCopy(h, k)
        /\ \A s \in SetNames : \A k : ~SetCopy(s, h, k)
        /\ \A d \in Conns \ {c} : \A x, k : ~HandCopy(conn[d], h, x, k)
        /\ \A x, k : ~SweepCopy(task, h, x, k)
    BY <2>1, AloneCopies DEF Custody
  <2>7. GoneNext(h)
    BY <1>2, <1>4, <2>5, <2>6, QueueCopies, SetCopies, NoCopies, GoneFromPlaces
  <2>8. Abstract!Fault({h})
    BY <1>3, <1>5, <2>4, <2>7, Loses
  <2> QED
    BY <2>8 DEF Follows, Abstract!Next
<1> QED
  BY <1>6, <1>7

\* A step of the task runner leaves a job alone that it does not hold.
LEMMA TaskUntouched ==
    ASSUME View, View', NEW j \in Jobs, UNCHANGED conn,
           \A n : QueueCopy(j, n)' <=> QueueCopy(j, n),
           \A s \in SetNames : \A n : SetCopy(s, j, n)' <=> SetCopy(s, j, n),
           task.pc \notin {"enqueue", "check", "extend", "clear", "store"} \/ task.hand.jid # j,
           task'.pc \notin {"enqueue", "check", "extend", "clear", "store"} \/ task'.hand.jid # j,
           fate'[j] = "unborn" <=> fate[j] = "unborn"
    PROVE  Unmoved(j)
<1>1. \A a, n : ~SweepCopy(task, j, a, n) /\ ~SweepCopy(task', j, a, n)
  BY NoCopies
<1> QED
  BY <1>1, Untouched

\* Steps of the task runner between two members.
LEMMA FollowTaskQuiet ==
    ASSUME Known, View', TaskScan \/ TaskEnd \/ \E n \in TaskNames : TaskStart(n)
    PROVE  Follows
<1> USE DEF Known
<1>1. /\ task.pc \in {"idle", "scan", "next"} /\ task'.pc \in {"idle", "scan", "next"}
      /\ UNCHANGED <<queue, zset, conn, fate, crashes, errs>>
  <2>1. CASE TaskScan \/ \E n \in TaskNames : TaskStart(n)
    BY <2>1 DEF TaskScan, TaskStart, TypeOK, store, faults, history
  <2>2. CASE TaskEnd
    BY <2>2, GotoFields, IdleTaskFields DEF TaskEnd, store, faults, history
  <2> QED
    BY <2>1, <2>2
<1>2. ASSUME NEW j \in Jobs
      PROVE  Unmoved(j)
  BY <1>1, QueueCopies, SetCopies, TaskUntouched
<1> QED
  BY <1>1, <1>2, Stutters DEF Follows

\* ZREM of a member of the batch: what leaves the morgue is gone, every other
\* job is still shown where it came from.
LEMMA FollowTaskRemove ==
    ASSUME Known, View', NEW e \in task.batch, TaskRemove(e)
    PROVE  Follows
<1> USE DEF Known
<1>1. PICK s \in SetNames : s = Swept(task.name)
  BY SortedSetTypes DEF TypeOK
<1>2. PICK h \in Jobs, f \in Nat : h = e.jid /\ f = e.fails
  BY DEF TypeOK, Entry
<1>3. /\ task.pc = "next" /\ task'.name = task.name /\ task.name \in TaskNames
      /\ zset' = [zset EXCEPT ![s] = @ \ {e}]
      /\ UNCHANGED <<queue, conn, crashes, errs>>
  BY <1>1, TaskRemoveFields DEF TaskRemove, faults, TypeOK
<1>4. CASE e \notin zset[s]
  <2>1. UNCHANGED zset
    <3>1. zset[s] \ {e} = zset[s]
      BY <1>4
    <3> QED
      BY <1>3, <3>1 DEF TypeOK
  <2>2. task'.pc = "next" /\ UNCHANGED fate
    BY <1>1, <1>3, <1>4 DEF TaskRemove, WasThere, TypeOK
  <2>3. ASSUME NEW j \in Jobs
        PROVE  Unmoved(j)
    BY <1>3, <2>1, <2>2, QueueCopies, SetCopies, TaskUntouched
  <2> QED
    BY <1>3, <2>2, <2>3, Stutters DEF Follows
<1>5. CASE e \in zset[s]
  <2>1. /\ task'.hand = ValueOf(e) /\ task'.pc = AfterRemove(task.name)
        /\ IF task.name = "Dead" THEN Settle(h, "purged") ELSE UNCHANGED fate
    BY <1>1, <1>2, <1>5 DEF TaskRemove, WasThere, TypeOK
  <2>2. task'.hand.jid = h /\ task'.hand.fails = f
    BY <1>2, <2>1, NewFields
  <2>3. InSet(s, h) /\ SetCopy(s, h, f)
    BY <1>2, <1>5 DEF InSet, SetCopy
  <2>4. fate[h] # "unborn" /\ fate'[h] # "unborn" /\ \A j \in Jobs : fate'[j] = "unborn" <=> fate[j] = "unborn"
    <3>1. fate[h] # "unborn"
      BY <2>3 DEF Custody, UnbornIsNowhere, Exists
    <3> QED
      BY <2>1, <3>1 DEF Settle, TypeOK
  <2>5. ASSUME NEW j \in Jobs \ {h}
        PROVE  Unmoved(j)
    <3>1. \A r \in SetNames : \A n : SetCopy(r, j, n)' <=> SetCopy(r, j, n)
      BY <1>2, <1>3, SetCopies
    <3> QED
      BY <1>3, <2>2, <2>4, <3>1, QueueCopies, TaskUntouched
  <2>6. Copy(h, Label(s), f)
    BY <2>3 DEF Copy
  <2>7. CASE task.name # "Dead"
    <3>1. \/ task.name = "Scheduled" /\ task'.pc = "enqueue" /\ Label(s) = "SCHEDULED"
          \/ task.name = "Retries" /\ task'.pc = "enqueue" /\ Label(s) = "RETRIES"
          \/ task.name = "Busy" /\ task'.pc = "check" /\ Label(s) = "WORKING"
      BY <1>1, <1>3, <2>1, <2>7 DEF TaskNames, Swept, AfterRemove, Label
    <3>2. SweepCopy(task', h, Label(s), f)
      BY <1>3, <2>2, <3>1 DEF SweepCopy
    <3>3. Copy(h, Label(s), f)'
      BY <3>2 DEF Copy
    <3>4. Unmoved(h)
      BY <2>6, <3>3, SameCopy
    <3> QED
      BY <1>3, <2>5, <3>4, Stutters DEF Follows
  <2>8. CASE task.name = "Dead"
    <3>1. s = "dead" /\ Label(s) = "DEAD" /\ task'.pc = "next"
      BY <1>1, <2>1, <2>8 DEF Swept, AfterRemove, Label
    <3>2. /\ \A n : ~QueueCopy(h, n)
          /\ \A d \in Conns : \A a, n : ~HandCopy(conn[d], h, a, n)
      BY <2>3, AloneCopies DEF Custody
    <3>3. \A r \in SetNames : \A x \in zset[r] : x.jid = h => r = s /\ x = e
      BY <1>2, <1>5 DEF Custody, AtMostOneCopy, OnceInSets
    <3>4. \A r \in SetNames : zset'[r] = IF r = s THEN zset[r] \ {e} ELSE zset[r]
      BY <1>3 DEF TypeOK
    <3>5. \A r \in SetNames : \A n : ~SetCopy(r, h, n)'
      BY <3>3, <3>4 DEF SetCopy
    <3>6. GoneNext(h)
      BY <1>3, <2>4, <3>1, <3>2, <3>5, QueueCopies, NoCopies, GoneFromPlaces
    <3>7. Abstract!Move(h, "DEAD", "GONE", 0)
      BY <1>3, <2>5, <2>6, <3>1, <3>6, Moves
    <3> QED
      BY <3>7 DEF Follows, Abstract!Next, Abstract!Purge
  <2> QED
    BY <2>7, <2>8
<1> QED
  BY <1>4, <1>5

\* schedule's LPUSH.
LEMMA FollowTaskEnqueue ==
    ASSUME Known, View', TaskEnqueue
    PROVE  Follows
<1> USE DEF Known
<1>1. PICK h \in Jobs, f \in Nat : h = task.hand.jid /\ f = task.hand.fails
  BY HandTypes
<1>2. PICK v : v = NewValue(h, f)
  OBVIOUS
<1>3. /\ task.pc = "enqueue" /\ task'.pc = "next" /\ queue' = Append(queue, v)
      /\ v.jid = h /\ v.fails = f
      /\ UNCHANGED <<zset, conn, fate, crashes, errs>>
  BY <1>1, <1>2, NextMemberFields, NewFields DEF TaskEnqueue, faults, history
<1>4. ASSUME NEW j \in Jobs \ {h}
      PROVE  Unmoved(j)
  <2>1. \A n : QueueCopy(j, n)' <=> QueueCopy(j, n)
    BY <1>3, QueueCopies
  <2> QED
    BY <1>1, <1>3, <2>1, SetCopies, TaskUntouched
<1>5. PICK a \in {"SCHEDULED", "RETRIES"} : a = IF task.name = "Scheduled" THEN "SCHEDULED" ELSE "RETRIES"
  OBVIOUS
<1>6. SweepCopy(task, h, a, f) /\ QueueCopy(h, f)'
  BY <1>1, <1>3, <1>5, QueueCopies DEF SweepCopy
<1>7. Copy(h, a, f) /\ Copy(h, "ENQUEUED", f)'
  BY <1>6 DEF Copy
<1>8. Abstract!Move(h, a, "ENQUEUED", f) /\ Tries(h) = f
  BY <1>3, <1>4, <1>7, Moves DEF View
<1>9. Abstract!Enqueue(h)
  BY <1>5, <1>8 DEF Abstract!Enqueue
<1> QED
  BY <1>9 DEF Follows, Abstract!Next

\* The reaper looks at a reservation, or puts an extended one back.
LEMMA FollowReapKeeps ==
    ASSUME Known, View', ReapCheck \/ ReapExtend
    PROVE  Follows
<1> USE DEF Known
<1>1. PICK h \in Jobs, f \in Nat : h = task.hand.jid /\ f = task.hand.fails
  BY HandTypes
<1>2. task.pc \in {"check", "extend"} /\ UNCHANGED <<queue, conn, fate, crashes, errs>>
  BY DEF ReapCheck, ReapExtend, store, faults, history
<1>3. SweepCopy(task, h, "WORKING", f)
  BY <1>1, <1>2 DEF SweepCopy
<1>4. Copy(h, "WORKING", f)
  BY <1>3 DEF Copy
<1>5. CASE ReapCheck
  <2>1. /\ task'.pc \in {"extend", "clear"} /\ task'.hand.jid = h /\ task'.hand.fails = f
        /\ UNCHANGED zset
    BY <1>1, <1>5, ReapCheckFields
  <2>2. SweepCopy(task', h, "WORKING", f)
    BY <2>1 DEF SweepCopy
  <2>3. Copy(h, "WORKING", f)'
    BY <2>2 DEF Copy
  <2>4. \A j \in Jobs \ {h} : Unmoved(j)
    BY <1>1, <1>2, <2>1, QueueCopies, SetCopies, TaskUntouched
  <2> QED
    BY <1>2, <1>4, <2>3, <2>4, SameCopy, Stutters DEF Follows
<1>6. CASE ReapExtend
  <2>1. "working" \in SetNames /\ Label("working") = "WORKING"
    BY DEF SetNames, Label
  <2>2. PICK e : e = NewEntry(h, f, task.hand.exp, reservation[h].exp)
    OBVIOUS
  <2>3. /\ task'.pc = "next" /\ zset' = [zset EXCEPT !["working"] = AddElement(@, e)]
        /\ e.jid = h /\ e.fails = f
    BY <1>1, <1>6, <2>2, NextMemberFields, NewFields DEF ReapExtend
  <2>4. SetCopy("working", h, f)'
    BY <2>1, <2>3, SetCopies
  <2>5. Copy(h, "WORKING", f)'
    BY <2>1, <2>4 DEF Copy
  <2>6. ASSUME NEW j \in Jobs \ {h}
        PROVE  Unmoved(j)
    <3>1. \A s \in SetNames : \A n : SetCopy(s, j, n)' <=> SetCopy(s, j, n)
      BY <2>1, <2>3, SetCopies
    <3> QED
      BY <1>1, <1>2, <2>3, <3>1, QueueCopies, TaskUntouched
  <2> QED
    BY <1>2, <1>4, <2>5, <2>6, SameCopy, Stutters DEF Follows
<1> QED
  BY <1>5, <1>6

\* What the task runner holds is the only copy of its job.
LEMMA HeldByTask ==
    ASSUME Known, task.pc \in {"enqueue", "check", "extend", "clear", "store"},
           NEW h \in Jobs, h = task.hand.jid
    PROVE  /\ fate[h] # "unborn"
           /\ State(h) \notin {"DEAD", "GONE"}
           /\ \A n : ~QueueCopy(h, n)
           /\ \A s \in SetNames : \A n : ~SetCopy(s, h, n)
           /\ \A c \in Conns : \A a, n : ~HandCopy(conn[c], h, a, n)
<1> USE DEF Known
<1>1. InSweep(h)
  BY DEF InSweep, TaskHolds
<1>2. PICK a, n : SweepCopy(task, h, a, n)
  BY <1>1, CopyPlaces
<1>3. a \in {"SCHEDULED", "RETRIES", "WORKING"} /\ Copy(h, a, n)
  BY <1>2 DEF SweepCopy, Copy
<1>4. State(h) \notin {"DEAD", "GONE"}
  BY <1>3 DEF View
<1>5. fate[h] # "unborn"
  BY <1>1 DEF Custody, UnbornIsNowhere, Exists
<1> QED
  BY <1>1, <1>4, <1>5, AloneCopies DEF Custody

\* processFailure, called by the reaper: a job without retries or without a
\* reservation is gone, every other one is still shown as being worked on.
LEMMA FollowReapClear ==
    ASSUME Known, View', ReapClear
    PROVE  Follows
<1> USE DEF Known
<1>1. PICK h \in Jobs, f \in Nat : h = task.hand.jid /\ f = task.hand.fails
  BY HandTypes
<1>2. /\ task.pc = "clear" /\ UNCHANGED <<queue, zset, conn, crashes, errs>>
  BY DEF ReapClear, store, faults
<1>3. /\ fate[h] # "unborn"
      /\ \A n : ~QueueCopy(h, n)
      /\ \A s \in SetNames : \A n : ~SetCopy(s, h, n)
      /\ \A c \in Conns : \A a, n : ~HandCopy(conn[c], h, a, n)
  BY <1>1, <1>2, HeldByTask
<1>4. SweepCopy(task, h, "WORKING", f)
  BY <1>1, <1>2 DEF SweepCopy
<1>5. Copy(h, "WORKING", f)
  BY <1>4 DEF Copy
<1>6. \A j \in Jobs : fate'[j] = "unborn" <=> fate[j] = "unborn"
  <2>1. UNCHANGED fate \/ Settle(h, "raced") \/ Settle(h, "ephemeral")
    BY <1>1 DEF ReapClear
  <2> QED
    BY <1>3, <2>1 DEF Settle, TypeOK
<1>7. CASE \E n : NextMember(n)
  <2>1. task'.pc = "next"
    BY <1>7, NextMemberFields
  <2>2. \A j \in Jobs \ {h} : Unmoved(j)
    BY <1>1, <1>2, <1>6, <2>1, QueueCopies, SetCopies, TaskUntouched
  <2>3. GoneNext(h)
    BY <1>2, <1>3, <1>6, <2>1, QueueCopies, SetCopies, NoCopies, GoneFromPlaces
  <2>4. Abstract!Move(h, "WORKING", "GONE", 0)
    BY <1>2, <1>5, <2>2, <2>3, Moves
  <2> QED
    BY <2>4 DEF Follows, Abstract!Next, Abstract!Ack
<1>8. CASE ~(\E n : NextMember(n))
  <2>1. /\ h \in workingMap
        /\ task' = [task EXCEPT !.pc = "store", !.hand = NewValue(h, reservation[h].fails + 1)]
    BY <1>1, <1>8 DEF ReapClear, clearReservation
  <2>2. reservation[h].fails = f
    BY <1>1, <1>2, <2>1 DEF Agreed, Decided
  <2>3. task'.pc = "store" /\ task'.hand = NewValue(h, f + 1)
    BY <2>1, <2>2 DEF TypeOK
  <2>4. task'.hand.jid = h /\ task'.hand.fails - 1 = f
    BY <2>3, NewFields
  <2>5. SweepCopy(task', h, "WORKING", f)
    BY <2>3, <2>4 DEF SweepCopy
  <2>6. Copy(h, "WORKING", f)'
    BY <2>5 DEF Copy
  <2>7. \A j \in Jobs \ {h} : Unmoved(j)
    BY <1>1, <1>2, <1>6, <2>4, QueueCopies, SetCopies, TaskUntouched
  <2> QED
    BY <1>2, <1>5, <2>6, <2>7, SameCopy, Stutters DEF Follows
<1> QED
  BY <1>7, <1>8

\* The reaper's ZADD.
LEMMA FollowReapStore ==
    ASSUME Known, View', ReapStore
    PROVE  Follows
<1> USE DEF Known
<1>1. PICK v \in Value : v = task.hand
  BY HandTypes
<1>2. /\ task.pc = "store" /\ task'.pc = "next" /\ retryOrBury(v)
      /\ UNCHANGED <<queue, conn, fate, crashes, errs>>
  BY <1>1, NextMemberFields DEF ReapStore, faults, history
<1>3. SweepCopy(task, v.jid, "WORKING", v.fails - 1) /\ Retry[v.jid] # 0
  BY <1>1, <1>2 DEF SweepCopy, Retried
<1>4. Copy(v.jid, "WORKING", v.fails - 1)
  BY <1>3 DEF Copy
<1>5. ASSUME NEW j \in Jobs \ {v.jid},
             \A s \in SetNames : \A n : SetCopy(s, j, n)' <=> SetCopy(s, j, n)
      PROVE  Unmoved(j)
  BY <1>1, <1>2, <1>5, QueueCopies, TaskUntouched
<1> QED
  BY <1>2, <1>3, <1>4, <1>5, FollowStore

\* A failed command of a sweep: what only the task runner had is lost.
LEMMA FollowTaskError ==
    ASSUME Known, View', TaskError
    PROVE  Follows
<1> USE DEF Known
<1>1. PICK h \in Jobs : h = task.hand.jid
  BY HandTypes
<1>2. /\ UNCHANGED <<queue, zset, conn, crashes>> /\ errs' = errs + 1
      /\ \/ task.pc \in {"scan", "next"} /\ UNCHANGED fate
         \/ task.pc \in {"enqueue", "extend", "store"} /\ Settle(h, "storeerr")
  BY <1>1 DEF TaskError, store
<1>3. task'.pc \in {"idle", "next"}
  BY IdleTaskFields, NextMemberFields DEF TaskError
<1>4. crashes' + errs' = crashes + errs + 1
  BY <1>2 DEF TypeOK
<1>5. \A j \in Jobs : fate'[j] = "unborn" <=> fate[j] = "unborn"
  BY <1>2 DEF Settle, TypeOK
<1>6. ASSUME NEW j \in Jobs, task.pc \in {"scan", "next"} \/ j # h
      PROVE  Unmoved(j)
  BY <1>1, <1>2, <1>3, <1>5, <1>6, QueueCopies, SetCopies, TaskUntouched
<1>7. CASE task.pc \in {"scan", "next"}
  <2>1. Abstract!Fault({})
    BY <1>4, <1>6, <1>7, Loses
  <2> QED
    BY <2>1 DEF Follows, Abstract!Next
<1>8. CASE task.pc \in {"enqueue", "extend", "store"}
  <2>1. GoneNext(h) /\ State(h) \notin {"DEAD", "GONE"}
    <3>1. /\ fate[h] # "unborn" /\ State(h) \notin {"DEAD", "GONE"}
          /\ \A n : ~QueueCopy(h, n)
          /\ \A s \in SetNames : \A n : ~SetCopy(s, h, n)
          /\ \A c \in Conns : \A a, n : ~HandCopy(conn[c], h, a, n)
      BY <1>1, <1>8, HeldByTask
    <3>2. \A a, n : ~SweepCopy(task', h, a, n)
      BY <1>3, NoCopies
    <3>3. (\A n : ~QueueCopy(h, n)') /\ \A s \in SetNames : \A n : ~SetCopy(s, h, n)'
      BY <1>2, <3>1, QueueCopies, SetCopies
    <3> QED
      BY <1>2, <1>5, <3>1, <3>2, <3>3, GoneFromPlaces
  <2>2. Abstract!Fault({h})
    BY <1>4, <1>6, <2>1, Loses
  <2> QED
    BY <2>2 DEF Follows, Abstract!Next
<1> QED
  BY <1>2, <1>7, <1>8

\* PUSH, also one whose LPUSH fails.
LEMMA FollowPush ==
    ASSUME Known, View', NEW h \in Jobs,
           PushError(h) \/ \E d \in ScheduleDelays \cup {0} : Push(h, d)
    PROVE  Follows
<1> USE DEF Known
<1>1. fate[h] = "unborn" /\ UNCHANGED <<conn, task, crashes>>
  BY DEF PushError, Push, faults
<1>2. ~Exists(h)
  BY <1>1 DEF Custody, UnbornIsNowhere
<1>3. /\ \A n : ~QueueCopy(h, n)
      /\ \A s \in SetNames : \A n : ~SetCopy(s, h, n)
      /\ \A c \in Conns : \A a, n : ~HandCopy(conn[c], h, a, n)
      /\ \A a, n : ~SweepCopy(task, h, a, n)
  BY <1>2, CopyPlaces DEF Exists
<1>4. \A a, n : ~Copy(h, a, n)
  BY <1>3 DEF Copy
<1>5. fate'[h] # "unborn" /\ \A j \in Jobs \ {h} : fate'[j] = fate[j]
  BY DEF PushError, Push, TypeOK
<1>6. ASSUME NEW j \in Jobs \ {h},
             \A n : QueueCopy(j, n)' <=> QueueCopy(j, n),
             \A s \in SetNames : \A n : SetCopy(s, j, n)' <=> SetCopy(s, j, n)
      PROVE  Unmoved(j)
  BY <1>1, <1>5, <1>6, Untouched
<1>7. CASE PushError(h)
  <2>1. UNCHANGED <<queue, zset>> /\ errs' = errs + 1
    BY <1>7 DEF PushError, store
  <2>2. GoneNext(h)
    BY <1>1, <1>3, <1>5, <2>1, QueueCopies, SetCopies, GoneFromPlaces
  <2>3. State(h) = "NEW"
    BY <1>1, <1>4 DEF View
  <2>4. crashes' + errs' = crashes + errs + 1
    BY <1>1, <2>1 DEF TypeOK
  <2>5. \A j \in Jobs \ {h} : Unmoved(j)
    BY <1>6, <2>1, QueueCopies, SetCopies
  <2>6. Abstract!Fault({h})
    BY <2>2, <2>3, <2>4, <2>5, Loses
  <2> QED
    BY <2>6 DEF Follows, Abstract!Next
<1>8. ASSUME NEW d \in ScheduleDelays \cup {0}, Push(h, d)
      PROVE  Follows
  <2>0. UNCHANGED <<crashes, errs>>
    BY <1>8 DEF Push, faults
  <2>1. CASE d = 0
    <3>0. ~(d > 0)
      BY <2>1
    <3>1. PICK v : v = NewValue(h, 0)
      OBVIOUS
    <3>2. queue' = Append(queue, v) /\ UNCHANGED zset /\ v.jid = h /\ v.fails = 0
      BY <1>8, <3>0, <3>1, NewFields DEF Push
    <3>3. QueueCopy(h, 0)' /\ \A j \in Jobs \ {h} : \A n : QueueCopy(j, n)' <=> QueueCopy(j, n)
      BY <3>2, QueueCopies
    <3>4. Copy(h, "ENQUEUED", 0)'
      BY <3>3 DEF Copy
    <3>5. \A j \in Jobs \ {h} : Unmoved(j)
      BY <1>6, <3>2, <3>3, SetCopies
    <3>6. Abstract!Move(h, "NEW", "ENQUEUED", 0)
      BY <1>1, <1>4, <2>0, <3>4, <3>5, Moves
    <3> QED
      BY <3>6 DEF Follows, Abstract!Next, Abstract!Push
  <2>2. CASE d # 0
    <3>0. "scheduled" \in SetNames /\ Label("scheduled") = "SCHEDULED"
      BY DEF SetNames, Label
    <3>1. PICK e : e = NewEntry(h, 0, 0, now + d)
      OBVIOUS
    <3>2. /\ zset' = [zset EXCEPT !["scheduled"] = AddElement(@, e)]
          /\ UNCHANGED queue /\ e.jid = h /\ e.fails = 0
      BY <1>8, <2>2, <3>1, NewFields DEF Push
    <3>3. /\ SetCopy("scheduled", h, 0)'
          /\ \A j \in Jobs \ {h} : \A s \in SetNames : \A n : SetCopy(s, j, n)' <=> SetCopy(s, j, n)
      BY <3>0, <3>2, SetCopies
    <3>4. Copy(h, "SCHEDULED", 0)'
      BY <3>0, <3>3 DEF Copy
    <3>5. \A j \in Jobs \ {h} : Unmoved(j)
      BY <1>6, <3>2, <3>3, QueueCopies
    <3>6. Abstract!Move(h, "NEW", "SCHEDULED", 0)
      BY <1>1, <1>4, <2>0, <3>4, <3>5, Moves
    <3> QED
      BY <3>6 DEF Follows, Abstract!Next, Abstract!Push
  <2> QED
    BY <2>1, <2>2
<1> QED
  BY <1>7, <1>8

\* A crash loses the jobs that are only in memory.
LEMMA FollowCrash ==
    ASSUME Known, View', Crash
    PROVE  Follows
<1> USE DEF Known
<1> DEFINE L == {j \in Jobs : (\E c \in Conns : InHand(c, j)) \/ InSweep(j)}
<1>1. /\ UNCHANGED <<queue, zset, errs>> /\ crashes' = crashes + 1
      /\ task'.pc = "idle" /\ \A c \in Conns : conn'[c].pc = "idle"
  BY IdleTaskFields DEF Crash, store
<1>2. crashes' + errs' = crashes + errs + 1
  BY <1>1 DEF TypeOK
<1>3. \A j \in Jobs : fate'[j] = "unborn" <=> fate[j] = "unborn"
  BY DEF Crash
<1>4. \A j \in Jobs : \A a, n : ~SweepCopy(task', j, a, n) /\ \A c \in Conns : ~HandCopy(conn'[c], j, a, n)
  BY <1>1, NoCopies
<1>5. ASSUME NEW j \in Jobs \ L
      PROVE  Unmoved(j)
  <2>1. \A a, n : ~SweepCopy(task, j, a, n) /\ \A c \in Conns : ~HandCopy(conn[c], j, a, n)
    BY CopyPlaces
  <2> QED
    BY <1>1, <1>3, <1>4, <2>1, QueueCopies, SetCopies, Untouched
<1>6. ASSUME NEW j \in L
      PROVE  State(j) \notin {"DEAD", "GONE"} /\ GoneNext(j)
  <2>1. fate[j] # "unborn"
    BY DEF Custody, UnbornIsNowhere, Exists
  <2>2. (\A n : ~QueueCopy(j, n)) /\ \A s \in SetNames : \A n : ~SetCopy(s, j, n)
    BY AloneCopies DEF Custody
  <2>3. GoneNext(j)
    BY <1>1, <1>3, <1>4, <2>1, <2>2, QueueCopies, SetCopies, GoneFromPlaces
  <2>4. PICK a, n : SweepCopy(task, j, a, n) \/ \E c \in Conns : HandCopy(conn[c], j, a, n)
    BY CopyPlaces
  <2>5. a \in {"ENQUEUED", "SCHEDULED", "RETRIES", "WORKING"} /\ Copy(j, a, n)
    BY <2>4 DEF SweepCopy, HandCopy, Copy
  <2> QED
    BY <2>3, <2>5 DEF View
<1>7. Abstract!Fault(L)
  <2>1. L \in SUBSET Jobs
    OBVIOUS
  <2> HIDE DEF L
  <2> QED
    BY <1>2, <1>5, <1>6, <2>1, Loses
<1> QED
  BY <1>7 DEF Follows, Abstract!Next

\* Every step of the job manager is a step of the diagram or a stutter.
LEMMA NextFollows ==
    ASSUME Known, View', [Next]_vars
    PROVE  Follows
<1>1. ASSUME NEW c \in Conns, ConnNext(c)
      PROVE  Follows
  BY <1>1, FollowFetchPop, FollowReserveStore, FollowConnQuiet, FollowAckRemove, FollowFailRemove,
     FollowFailStore, FollowStoreError DEF ConnNext
<1>2. CASE TaskStep \/ TaskError \/ \E n \in TaskNames : TaskStart(n)
  BY <1>2, FollowTaskQuiet, FollowTaskRemove, FollowTaskEnqueue, FollowReapKeeps, FollowReapClear,
     FollowReapStore, FollowTaskError DEF TaskStep
<1>3. CASE \/ \E j \in Jobs, x \in Extensions : ExtendReservation(j, x)
           \/ Boot \/ Tick \/ UNCHANGED vars
  <2>1. UNCHANGED <<queue, zset, conn, task, fate, crashes, errs>>
    BY <1>3 DEF ExtendReservation, Boot, Tick, vars, store, faults, history
  <2>2. ASSUME NEW j \in Jobs
        PROVE  Unmoved(j)
    BY <2>1, QueueCopies, SetCopies, Untouched DEF Known
  <2> QED
    BY <2>1, <2>2, Stutters DEF Follows
<1> QED
  BY <1>1, <1>2, <1>3, FollowPush, FollowCrash DEF Next

\* The initial state maps to the initial state of the diagram.
LEMMA InitFollows ==
    ASSUME Init, View
    PROVE  Abstract!Init
<1>1. ASSUME NEW j \in Jobs
      PROVE  State(j) = "NEW" /\ Tries(j) = 0
  <2>1. \A n : ~QueueCopy(j, n)
    BY DEF Init, QueueCopy
  <2>2. \A s \in SetNames : \A n : ~SetCopy(s, j, n)
    BY DEF Init, SetCopy
  <2>3. (\A c \in Conns : conn[c].pc = "idle") /\ task.pc = "idle" /\ fate[j] = "unborn"
    BY IdleTaskFields DEF Init
  <2>4. \A a, n : ~Copy(j, a, n)
    BY <2>1, <2>2, <2>3, NoCopies DEF Copy
  <2> QED
    BY <2>3, <2>4 DEF View
<1>2. crashes + errs = 0
  BY DEF Init
<1> QED
  BY <1>1, <1>2 DEF Abstract!Init

(***************************************************************************)
(* The job manager implements the state diagram of the protocol            *)
(* specification: whatever commands, sweeps, extensions, crashes and       *)
(* failing Redis commands do, a job goes along the arrows, is retried      *)
(* exactly as often as its limit says, never comes back from where it      *)
(* ended, and is lost only by a fault or out of a worker's hands.          *)
(***************************************************************************)
THEOREM ImplementsDiagram ==
    ASSUME ~SharedScores
    PROVE  Spec => FollowsDiagram
<1> DEFINE Inv == TypeOK /\ Custody /\ ReserveInv /\ Agreed /\ Retried
<1>1. Init => Agreed /\ Retried
  <2> SUFFICES ASSUME Init PROVE Agreed /\ Retried
    OBVIOUS
  <2>1. zset["working"] = {} /\ task.pc = "idle" /\ \A c \in Conns : conn[c].pc = "idle"
    BY IdleTaskFields DEF Init, SetNames
  <2> QED
    BY <2>1 DEF Agreed, Retried
<1>2. TypeOK /\ Custody /\ ReserveInv /\ Agreed /\ Retried /\ [Next]_vars => Agreed' /\ Retried'
  BY NextAgreed, NextRetried DEF Custody
<1>3. Spec => [](TypeOK /\ Custody /\ ReserveInv)
  BY ReserveInvariant
<1>4. Spec => []Inv
  BY <1>1, <1>2, <1>3, PTL DEF Spec
<1>5. Inv => View
  BY MappingView
<1>6. Init /\ View => Abstract!Init
  BY InitFollows
<1>7. Inv /\ View /\ View' /\ [Next]_vars => [Abstract!Next]_(Abstract!lvars)
  BY NextFollows DEF Known, Follows
<1> HIDE DEF Inv
<1> QED
  BY <1>4, <1>5, <1>6, <1>7, PTL DEF Spec, FollowsDiagram, Abstract!Spec

=============================================================================
