----------------------------- MODULE QueuesProofs -----------------------------
(***************************************************************************)
(* Proofs about Queues: the queues that hold jobs stay registered, and,    *)
(* with one operator at a time, the process and the store agree on which   *)
(* queues are paused and no FETCH asks for a queue that was paused.        *)
(***************************************************************************)
EXTENDS Queues, TLAPS, SequenceTheorems

-----------------------------------------------------------------------------
(* The inductive invariants *)

\* Which command is at which step: producers only push, and a command's step
\* tells what it is about.
Shaped ==
    \A p \in Procs :
      LET c == proc[p] IN
      /\ c.op # "flush"
      /\ c.pc # "idle" => up
      /\ c.pc # "idle" /\ p \notin Operators => c.op = "push"
      /\ c.pc \in {"next", "mark", "read", "write"} => c.op \in {"pause", "resume"}
      /\ c.pc = "push" => c.op = "push"
      /\ c.pc = "delete" => c.op = "delete"
      /\ c.pc \in {"unlink", "srem", "unmap"} => c.op = "clear"
      /\ c.pc \notin {"idle", "next"} => c.q \in Names

CommandInv == TypeOK /\ Shaped

\* A queue that nobody clears has its name in the store before the process
\* knows it, and is known before anything is pushed to it.
Named ==
    \A q \in Names \ cleared : up /\ q \in queueSet => q \in names

Announced ==
    \A p \in Procs :
      LET c == proc[p] IN
      /\ c.pc # "idle" /\ c.op = "clear" => c.q \in cleared
      /\ c.pc = "insert" /\ c.q \notin cleared => c.q \in names
      /\ c.pc = "push" /\ c.q \notin cleared => c.q \in queueSet

RegisterInv == Named /\ Announced /\ Registered

\* Pause and Resume write the store first.  Until they have written m.paused
\* too, the store is ahead of it by the queue they are at.
Marked(c, S) == IF c.op = "pause" THEN S \cup {c.q} ELSE S \ {c.q}

Synced ==
    up /\ ~flushed =>
      /\ (\A p \in Operators : proc[p].pc \notin {"read", "write"}) => paused = pausedSet
      /\ \A p \in Operators :
           proc[p].pc \in {"read", "write"} => pausedSet = Marked(proc[p], paused)

\* Nobody else writes m.paused between the two halves of its update.
Current == \A p \in Operators : proc[p].pc = "write" => proc[p].copy = paused

\* The queues that are to stay paused are so in the store and in the process.
Kept ==
    /\ held \subseteq pausedSet
    /\ up => held \subseteq paused
    /\ \A p \in Operators :
         LET c == proc[p] IN
         /\ c.op = "pause" /\ c.pc \in {"read", "write"} => c.q \in pausedSet
         /\ c.op = "resume" /\ c.pc \in {"get", "insert", "mark", "read", "write"} =>
              c.q \notin held

PauseInv == Synced /\ Current /\ Kept

-----------------------------------------------------------------------------
(* The types and the shape of the commands *)

\* LREM takes one job out of a list: what is left is a list of jobs, and it
\* was not empty before.
LEMMA OneOut ==
    ASSUME NEW s \in Seq(Jobs), NEW i \in 1..Len(s)
    PROVE  /\ SubSeq(s, 1, i - 1) \o SubSeq(s, i + 1, Len(s)) \in Seq(Jobs)
           /\ s # << >>
<1>1. /\ Len(s) \in Nat
      /\ \A k \in 1..Len(s) : s[k] \in Jobs
  BY LenProperties
<1>2. SubSeq(s, 1, i - 1) \in Seq(Jobs)
  <2>1. \A k \in 1..(i - 1) : s[k] \in Jobs
    BY <1>1
  <2> QED  BY <2>1, <1>1, SubSeqProperties
<1>3. SubSeq(s, i + 1, Len(s)) \in Seq(Jobs)
  <2>1. \A k \in (i + 1)..Len(s) : s[k] \in Jobs
    BY <1>1
  <2> QED  BY <2>1, <1>1, SubSeqProperties
<1>4. s # << >>
  BY <1>1, EmptySeq
<1> QED  BY <1>2, <1>3, <1>4, ConcatProperties

\* What LREM does to the lists: they stay lists of jobs, and none gets a job.
LEMMA LremShrinks ==
    ASSUME TypeOK, NEW q \in Names, NEW j \in Jobs, Lrem(q, j)
    PROVE  /\ list' \in [Names -> Seq(Jobs)]
           /\ \A r \in Names : list'[r] # << >> => list[r] # << >>
<1>1. list \in [Names -> Seq(Jobs)]
  BY DEF TypeOK
<1>2. CASE UNCHANGED list
  BY <1>1, <1>2
<1>3. ASSUME NEW i \in 1..Len(list[q]),
             list' = [list EXCEPT ![q] = SubSeq(@, 1, i - 1) \o SubSeq(@, i + 1, Len(@))]
      PROVE  /\ list' \in [Names -> Seq(Jobs)]
             /\ \A r \in Names : list'[r] # << >> => list[r] # << >>
  <2>1. PICK t : t = SubSeq(list[q], 1, i - 1) \o SubSeq(list[q], i + 1, Len(list[q]))
    OBVIOUS
  <2>2. t \in Seq(Jobs) /\ list[q] # << >>
    BY <2>1, <1>1, OneOut
  <2>3. list' = [list EXCEPT ![q] = t]
    BY <1>3, <2>1
  <2> QED  BY <2>2, <2>3, <1>1
<1> QED  BY <1>2, <1>3 DEF Lrem

\* The record of a command.
Commands == [pc : PcStates, op : AllOps \cup {"push"}, q : Names \cup {None},
             todo : SUBSET Names, star : BOOLEAN, job : SUBSET Jobs, copy : SUBSET Names]

\* An idle command is one.
LEMMA IdleTyped == IdleProc \in Commands
BY DEF IdleProc, Commands, PcStates, AllOps

\* The initial state has its types and idle commands.
LEMMA CommandInit == Init => CommandInv
<1> SUFFICES ASSUME Init PROVE CommandInv
  OBVIOUS
<1>1. << >> \in Seq(Jobs)
  BY EmptySeq
<1>2. list \in [Names -> Seq(Jobs)]
  BY <1>1 DEF Init
<1>3. TypeOK
  <2>1. proc \in [Procs -> Commands]
    BY IdleTyped DEF Init
  <2>2. asks \in [Workers -> SUBSET (Nat \X Names)]
    BY DEF Init
  <2>3. ops \in Nat /\ errs \in Nat /\ crashes \in Nat
    BY DEF Init
  <2> QED  BY <1>2, <2>1, <2>2, <2>3 DEF Init, TypeOK, Commands
<1> QED  BY <1>3 DEF CommandInv, Shaped, Init, IdleProc

\* What has to be shown of a step that keeps the types: only what it changes
\* needs an argument.
LEMMA TypesMove ==
    ASSUME proc' \in [Procs -> Commands],
           list' \in [Names -> Seq(Jobs)],
           asks' \in [Workers -> SUBSET (Nat \X Names)],
           names' \subseteq Names, pausedSet' \subseteq Names, queueSet' \subseteq Names,
           paused' \subseteq Names, held' \subseteq Names, cleared' \subseteq Names,
           pushed' \subseteq Jobs, mu' \in Procs \cup {None},
           ops' \in Nat, errs' \in Nat, crashes' \in Nat,
           up' \in BOOLEAN, flushed' \in BOOLEAN
    PROVE  TypeOK'
BY DEF TypeOK, Commands

\* Where a command is and what it may go on with: the record of a command keeps
\* its type when the step it is at changes.
LEMMA CommandGet ==
    ASSUME CommandInv, NEW p \in Procs, GetQueue(p) \/ Insert(p)
    PROVE  CommandInv'
<1> USE DEF CommandInv
<1>1. proc[p].q \in Names /\ proc[p].pc \in {"get", "insert"} /\ up
  BY DEF Shaped, GetQueue, Insert
<1>0. proc \in [Procs -> Commands] /\ proc[p].op \in AllOps \cup {"push"}
  BY DEF TypeOK, Commands
<1>2. CASE Proceed(p)
  <2>1. AfterGet(proc[p].op) \in {"push", "mark", "unlink", "delete", "idle"}
    BY <1>0 DEF AfterGet, Shaped, AllOps
  <2>2. /\ AfterGet(proc[p].op) = "push" => proc[p].op = "push"
        /\ AfterGet(proc[p].op) = "mark" => proc[p].op \in {"pause", "resume"}
        /\ AfterGet(proc[p].op) = "unlink" => proc[p].op = "clear"
        /\ AfterGet(proc[p].op) = "delete" => proc[p].op = "delete"
    BY <1>0 DEF AfterGet, Shaped, AllOps
  <2>3. PICK n : n = AfterGet(proc[p].op)
    OBVIOUS
  <2>4. proc' = [proc EXCEPT ![p] = IF n = "idle" THEN IdleProc ELSE [@ EXCEPT !.pc = n]]
    BY <1>2, <2>3 DEF Proceed
  <2>5. TypeOK'
    <3>1. n \in PcStates
      BY <2>1, <2>3 DEF PcStates
    <3>2. proc' \in [Procs -> Commands]
      BY <1>0, <2>4, <3>1, IdleTyped DEF Commands
    <3> QED  BY <1>1, <3>2, TypesMove DEF GetQueue, Insert, redis, bounds, history, TypeOK
  <2>6. Shaped'
    <3>1. up'
      BY DEF GetQueue, Insert
    <3>2. PICK c : c = IF n = "idle" THEN IdleProc ELSE [proc[p] EXCEPT !.pc = n]
      OBVIOUS
    <3>3. \/ c.pc = "idle" /\ c.op = "look"
          \/ c.pc = n /\ n # "idle" /\ c.op = proc[p].op /\ c.q = proc[p].q
      BY <1>0, <3>2 DEF IdleProc, Commands
    <3>4. proc' = [proc EXCEPT ![p] = c]
      BY <2>4, <3>2
    <3> QED
      BY <1>0, <1>1, <2>1, <2>2, <2>3, <3>1, <3>3, <3>4 DEF Shaped
  <2> QED  BY <2>5, <2>6
<1>3. CASE Goto(p, "insert") /\ GetQueue(p)
  <2>1. TypeOK'
    <3>1. proc' \in [Procs -> Commands]
      BY <1>0, <1>3 DEF Goto, Commands, PcStates
    <3> QED  BY <1>1, <1>3, <3>1, TypesMove DEF GetQueue, redis, bounds, history, TypeOK
  <2>2. Shaped'
    BY <1>1, <1>3 DEF GetQueue, Goto, Shaped, bounds, history
  <2> QED  BY <2>1, <2>2
<1> QED  BY <1>2, <1>3 DEF GetQueue, Insert

\* PUSH: a producer begins with an idle command and ends with one.
LEMMA CommandPush ==
    ASSUME CommandInv,
           \/ \E p \in Producers, j \in Jobs, q \in Names : BeginPush(p, j, q)
           \/ \E p \in Procs : Push(p)
    PROVE  CommandInv'
<1> USE DEF CommandInv
<1>0. proc \in [Procs -> Commands] /\ list \in [Names -> Seq(Jobs)]
  BY DEF TypeOK, Commands
<1>1. ASSUME NEW p \in Producers, NEW j \in Jobs, NEW q \in Names, BeginPush(p, j, q)
      PROVE  CommandInv'
  <2>1. PICK c : c = [IdleProc EXCEPT !.pc = "get", !.op = "push", !.q = q, !.job = {j}]
    OBVIOUS
  <2>2. c \in Commands /\ c.pc = "get" /\ c.op = "push" /\ c.q = q
    BY <2>1 DEF IdleProc, Commands, PcStates, AllOps
  <2>3. proc' = [proc EXCEPT ![p] = c] /\ p \in Procs /\ up'
    BY <1>1, <2>1 DEF BeginPush, Procs
  <2>4. proc' \in [Procs -> Commands]
    BY <1>0, <2>2, <2>3
  <2>5. TypeOK'
    BY <1>1, <2>4, TypesMove DEF BeginPush, redis, memory, bounds, TypeOK
  <2>6. Shaped'
    BY <1>0, <2>2, <2>3 DEF Shaped
  <2> QED  BY <2>5, <2>6
<1>2. ASSUME NEW p \in Procs, Push(p)
      PROVE  CommandInv'
  <2>1. proc[p].pc = "push" /\ proc[p].op = "push" /\ proc[p].q \in Names /\ up
    BY <1>2 DEF Push, Shaped
  <2>2. proc' = [proc EXCEPT ![p] = IdleProc]
    BY <1>0, <1>2, <2>1 DEF Push, Done
  <2>3. proc' \in [Procs -> Commands]
    BY <1>0, <2>2, IdleTyped
  <2>4. PICK j \in proc[p].job : list' = [list EXCEPT ![proc[p].q] = Append(@, j)]
    BY <1>2 DEF Push
  <2>5. j \in Jobs
    BY <1>0, <2>4 DEF Commands
  <2>6. Append(list[proc[p].q], j) \in Seq(Jobs)
    BY <1>0, <2>1, <2>5, AppendProperties
  <2>7. list' \in [Names -> Seq(Jobs)]
    BY <1>0, <2>4, <2>6
  <2>8. TypeOK'
    BY <1>2, <2>3, <2>7, TypesMove DEF Push, memory, bounds, history, TypeOK
  <2>9. Shaped'
    BY <1>0, <1>2, <2>1, <2>2 DEF Shaped, Push, IdleProc
  <2> QED  BY <2>8, <2>9
<1> QED  BY <1>1, <1>2

\* FETCH leaves the commands alone.
LEMMA CommandFetch ==
    ASSUME CommandInv, NEW w \in Workers,
           brpop(w) \/ brpopTimeout(w) \/ \E qs \in Orders : Fetch(w, qs)
    PROVE  CommandInv'
<1> USE DEF CommandInv
<1>0. /\ proc \in [Procs -> Commands]
      /\ list \in [Names -> Seq(Jobs)]
      /\ asks \in [Workers -> SUBSET (Nat \X Names)]
  BY DEF TypeOK, Commands
<1>1. UNCHANGED <<names, pausedSet, queueSet, paused, mu, proc, up, ops, errs, crashes,
                  pushed, held, cleared, flushed>>
  BY DEF brpop, brpopTimeout, Fetch, redis, memory, bounds, history
<1>2. Shaped'
  BY <1>1 DEF Shaped
<1>3. list' \in [Names -> Seq(Jobs)]
  <2>1. CASE brpop(w)
    <3>1. PICK a \in asks[w] : /\ list[a[2]] # << >>
                               /\ list' = [list EXCEPT ![a[2]] = Tail(@)]
      BY <2>1 DEF brpop
    <3>2. a[2] \in Names
      BY <1>0, <3>1
    <3>3. Tail(list[a[2]]) \in Seq(Jobs)
      BY <1>0, <3>1, <3>2, HeadTailProperties
    <3> QED  BY <1>0, <3>1, <3>2, <3>3
  <2>2. CASE ~brpop(w)
    BY <1>0, <2>2 DEF brpopTimeout, Fetch, redis
  <2> QED  BY <2>1, <2>2
<1>4. asks' \in [Workers -> SUBSET (Nat \X Names)]
  <2>1. CASE brpop(w) \/ brpopTimeout(w)
    BY <1>0, <2>1 DEF brpop, brpopTimeout
  <2>2. ASSUME NEW qs \in Orders, Fetch(w, qs)
        PROVE  asks' \in [Workers -> SUBSET (Nat \X Names)]
    <3>1. qs \in Seq(Names)
      BY QueuesAssumption
    <3>2. \A i \in 1..Len(qs) : i \in Nat /\ qs[i] \in Names
      BY <3>1, LenProperties
    <3>3. filter(qs) \in SUBSET (Nat \X Names)
      BY <3>2 DEF filter
    <3> QED  BY <1>0, <2>2, <3>3 DEF Fetch
  <2> QED  BY <2>1, <2>2
<1>5. TypeOK'
  BY <1>0, <1>1, <1>3, <1>4, TypesMove DEF TypeOK
<1> QED  BY <1>2, <1>5

\* QUEUE PAUSE and QUEUE RESUME.
LEMMA CommandQueue ==
    ASSUME CommandInv,
           \/ \E p \in Operators, op \in Ops, T \in SUBSET Names, star \in BOOLEAN :
                BeginQueue(p, op, T, star)
           \/ \E p \in Procs : NextQueue(p) \/ Mark(p) \/ ReadPaused(p) \/ WritePaused(p)
    PROVE  CommandInv'
<1> USE DEF CommandInv
<1>0. /\ proc \in [Procs -> Commands]
      /\ ops \in Nat
      /\ \A p \in Operators : p \in Procs
  BY DEF TypeOK, Commands, Procs
<1>1. ASSUME NEW p \in Operators, NEW op \in Ops, NEW T \in SUBSET Names,
             NEW star \in BOOLEAN, BeginQueue(p, op, T, star)
      PROVE  CommandInv'
  <2>1. PICK c : c = [IdleProc EXCEPT !.pc = "next", !.op = op, !.todo = T, !.star = star]
    OBVIOUS
  <2>2. c \in Commands /\ c.pc = "next" /\ c.op = op /\ op \in {"pause", "resume"}
    BY <1>1, <2>1 DEF IdleProc, Commands, PcStates, AllOps, BeginQueue
  <2>3. proc' = [proc EXCEPT ![p] = c] /\ up' /\ ops' = ops + 1
    BY <1>1, <2>1 DEF BeginQueue, Operate
  <2>4. proc' \in [Procs -> Commands] /\ ops' \in Nat
    BY <1>0, <2>2, <2>3
  <2>5. TypeOK'
    BY <1>1, <2>4, TypesMove DEF BeginQueue, redis, memory, history, TypeOK
  <2>6. Shaped'
    BY <1>0, <2>2, <2>3 DEF Shaped
  <2> QED  BY <2>5, <2>6
<1>2. ASSUME NEW p \in Procs, NextQueue(p)
      PROVE  CommandInv'
  <2>1. proc[p].pc = "next" /\ proc[p].op \in {"pause", "resume"} /\ up
    BY <1>2 DEF NextQueue, Shaped
  <2>2. CASE proc' = [proc EXCEPT ![p] = IdleProc] /\ UNCHANGED held
    <3>1. proc' \in [Procs -> Commands]
      BY <1>0, <2>2, IdleTyped
    <3>2. TypeOK'
      BY <1>2, <2>2, <3>1, TypesMove DEF NextQueue, redis, memory, bounds, TypeOK
    <3>3. Shaped'
      BY <1>0, <1>2, <2>1, <2>2 DEF Shaped, NextQueue, IdleProc
    <3> QED  BY <3>2, <3>3
  <2>3. ASSUME NEW q \in proc[p].todo,
               proc' = [proc EXCEPT ![p].pc = "get", ![p].q = q, ![p].todo = @ \ {q}],
               held' = IF proc[p].op = "resume" THEN held \ {q} ELSE held
        PROVE  CommandInv'
    <3>1. q \in Names
      BY <1>0 DEF Commands
    <3>2. proc' \in [Procs -> Commands]
      BY <1>0, <2>3, <3>1 DEF Commands, PcStates
    <3>3. TypeOK'
      BY <1>2, <2>3, <3>2, TypesMove DEF NextQueue, redis, memory, bounds, TypeOK
    <3>4. Shaped'
      <4>1. PICK c : c = [proc[p] EXCEPT !.pc = "get", !.q = q, !.todo = @ \ {q}]
        OBVIOUS
      <4>2. c.pc = "get" /\ c.op = proc[p].op /\ c.q = q
        BY <1>0, <4>1 DEF Commands
      <4>3. proc' = [proc EXCEPT ![p] = c]
        BY <1>0, <2>3, <4>1 DEF Commands
      <4> QED  BY <1>0, <1>2, <2>1, <3>1, <4>2, <4>3 DEF Shaped, NextQueue
    <3> QED  BY <3>3, <3>4
  <2> QED  BY <1>2, <2>2, <2>3 DEF NextQueue
<1>3. ASSUME NEW p \in Procs, Mark(p) \/ ReadPaused(p) \/ WritePaused(p)
      PROVE  CommandInv'
  <2>1. /\ proc[p].pc \in {"mark", "read", "write"}
        /\ proc[p].op \in {"pause", "resume"}
        /\ proc[p].q \in Names
        /\ up
    BY <1>3 DEF Mark, ReadPaused, WritePaused, Shaped
  <2>2. paused \subseteq Names /\ pausedSet \subseteq Names /\ proc[p].copy \subseteq Names
    BY <1>0 DEF TypeOK, Commands
  <2>3. CASE Mark(p)
    <3>1. proc' = [proc EXCEPT ![p].pc = "read"]
      BY <2>3 DEF Mark, Goto
    <3>2. proc' \in [Procs -> Commands]
      BY <1>0, <3>1 DEF Commands, PcStates
    <3>3. pausedSet' \subseteq Names
      BY <2>1, <2>2, <2>3 DEF Mark
    <3>4. TypeOK'
      BY <2>3, <3>2, <3>3, TypesMove DEF Mark, memory, bounds, history, TypeOK
    <3>5. Shaped'
      BY <1>0, <2>1, <2>3, <3>1 DEF Shaped, Mark, Commands
    <3> QED  BY <3>4, <3>5
  <2>4. CASE ReadPaused(p)
    <3>1. proc' = [proc EXCEPT ![p].pc = "write", ![p].copy = paused]
      BY <2>4 DEF ReadPaused
    <3>0. PICK c : c = [proc[p] EXCEPT !.pc = "write", !.copy = paused]
      OBVIOUS
    <3>a. c \in Commands
      BY <1>0, <2>2, <3>0, ZenonT(60) DEF Commands, PcStates
    <3>b. proc' = [proc EXCEPT ![p] = c]
      BY <1>0, <3>0, <3>1 DEF Commands
    <3>2. proc' \in [Procs -> Commands]
      BY <1>0, <3>a, <3>b
    <3>3. TypeOK'
      BY <2>4, <3>2, TypesMove DEF ReadPaused, redis, memory, bounds, history, TypeOK
    <3>4. Shaped'
      BY <1>0, <2>1, <2>4, <3>1 DEF Shaped, ReadPaused, Commands
    <3> QED  BY <3>3, <3>4
  <2>5. CASE WritePaused(p)
    <3>1. proc' = [proc EXCEPT ![p] = [@ EXCEPT !.pc = "next", !.copy = {}, !.q = None]]
      BY <2>5 DEF WritePaused
    <3>2. proc' \in [Procs -> Commands]
      <4>1. PICK c : c = [proc[p] EXCEPT !.pc = "next", !.copy = {}, !.q = None]
        OBVIOUS
      <4>2. c \in Commands
        BY <1>0, <4>1 DEF Commands, PcStates
      <4>3. proc' = [proc EXCEPT ![p] = c]
        BY <3>1, <4>1
      <4> QED  BY <1>0, <4>2, <4>3
    <3>3. paused' \subseteq Names
      BY <2>1, <2>2, <2>5 DEF WritePaused, Updated
    <3>4. held' \subseteq Names
      BY <2>1, <2>5 DEF WritePaused, TypeOK
    <3>5. TypeOK'
      BY <2>5, <3>2, <3>3, <3>4, TypesMove DEF WritePaused, redis, bounds, TypeOK
    <3>6. Shaped'
      <4>1. PICK c : c = [proc[p] EXCEPT !.pc = "next", !.copy = {}, !.q = None]
        OBVIOUS
      <4>2. c.pc = "next" /\ c.op = proc[p].op
        BY <1>0, <4>1 DEF Commands
      <4>3. proc' = [proc EXCEPT ![p] = c]
        BY <3>1, <4>1
      <4>4. up'
        BY <2>5 DEF WritePaused
      <4> QED  BY <1>0, <2>1, <4>2, <4>3, <4>4 DEF Shaped
    <3> QED  BY <3>5, <3>6
  <2> QED  BY <1>3, <2>3, <2>4, <2>5
<1> QED  BY <1>1, <1>2, <1>3

\* The requests of the Web UI's queue page, and FLUSH.
LEMMA CommandPage ==
    ASSUME CommandInv, NEW p \in Operators,
           \/ \E op \in Ops, q \in Names : BeginPage(p, op, q)
           \/ \E q \in Names, T \in SUBSET Jobs : BeginDelete(p, q, T)
           \/ Flush(p)
    PROVE  CommandInv'
<1> USE DEF CommandInv
<1>0. proc \in [Procs -> Commands] /\ p \in Procs /\ ops \in Nat
  BY DEF TypeOK, Commands, Procs
<1>1. ASSUME NEW op \in Ops, NEW q \in Names, BeginPage(p, op, q)
      PROVE  CommandInv'
  <2>1. PICK c : c = [IdleProc EXCEPT !.pc = "get", !.op = op, !.q = q]
    OBVIOUS
  <2>2. c \in Commands /\ c.pc = "get" /\ c.op = op /\ op \in {"clear", "look"} /\ c.q = q
    BY <1>1, <2>1 DEF IdleProc, Commands, PcStates, AllOps, BeginPage
  <2>3. proc' = [proc EXCEPT ![p] = c] /\ up' /\ ops' = ops + 1
    BY <1>1, <2>1 DEF BeginPage, Operate
  <2>4. proc' \in [Procs -> Commands] /\ ops' \in Nat
    BY <1>0, <2>2, <2>3
  <2>5. cleared' \subseteq Names
    BY <1>1 DEF BeginPage, TypeOK
  <2>6. TypeOK'
    BY <1>1, <2>4, <2>5, TypesMove DEF BeginPage, redis, memory, TypeOK
  <2>7. Shaped'
    BY <1>0, <2>2, <2>3 DEF Shaped
  <2> QED  BY <2>6, <2>7
<1>2. ASSUME NEW q \in Names, NEW T \in SUBSET Jobs, BeginDelete(p, q, T)
      PROVE  CommandInv'
  <2>1. PICK c : c = [IdleProc EXCEPT !.pc = "get", !.op = "delete", !.q = q, !.job = T]
    OBVIOUS
  <2>2. c \in Commands /\ c.pc = "get" /\ c.op = "delete" /\ c.q = q
    BY <2>1 DEF IdleProc, Commands, PcStates, AllOps
  <2>3. proc' = [proc EXCEPT ![p] = c] /\ up' /\ ops' = ops + 1
    BY <1>2, <2>1 DEF BeginDelete, Operate
  <2>4. proc' \in [Procs -> Commands] /\ ops' \in Nat
    BY <1>0, <2>2, <2>3
  <2>5. TypeOK'
    BY <1>2, <2>4, TypesMove DEF BeginDelete, redis, memory, history, TypeOK
  <2>6. Shaped'
    BY <1>0, <2>2, <2>3 DEF Shaped
  <2> QED  BY <2>5, <2>6
<1>3. ASSUME Flush(p)
      PROVE  CommandInv'
  <2>1. list' \in [Names -> Seq(Jobs)]
    <3>1. << >> \in Seq(Jobs)
      BY EmptySeq
    <3> QED  BY <1>3, <3>1 DEF Flush
  <2>2. ops' \in Nat
    BY <1>0, <1>3 DEF Flush, Operate
  <2>3. TypeOK'
    BY <1>0, <1>3, <2>1, <2>2, TypesMove DEF Flush, memory, TypeOK
  <2>4. Shaped'
    BY <1>3 DEF Shaped, Flush
  <2> QED  BY <2>3, <2>4
<1> QED  BY <1>1, <1>2, <1>3

\* LREM, and the three commands of Clear.
LEMMA CommandClear ==
    ASSUME CommandInv, NEW p \in Procs, Delete(p) \/ Unlink(p) \/ Srem(p) \/ Unmap(p)
    PROVE  CommandInv'
<1> USE DEF CommandInv
<1>0. /\ proc \in [Procs -> Commands]
      /\ list \in [Names -> Seq(Jobs)]
      /\ names \subseteq Names
      /\ queueSet \subseteq Names
  BY DEF TypeOK, Commands
<1>1. /\ proc[p].pc \in {"delete", "unlink", "srem", "unmap"}
      /\ proc[p].pc = "delete" => proc[p].op = "delete"
      /\ proc[p].pc # "delete" => proc[p].op = "clear"
      /\ proc[p].q \in Names
      /\ up
  BY DEF Delete, Unlink, Srem, Unmap, Shaped
<1>2. CASE Delete(p)
  <2>1. PICK j \in proc[p].job :
           /\ Lrem(proc[p].q, j)
           /\ proc' = [proc EXCEPT ![p] =
                          IF proc[p].job = {j} THEN IdleProc
                          ELSE [proc[p] EXCEPT !.job = proc[p].job \ {j}]]
    BY <1>2 DEF Delete
  <2>2. j \in Jobs
    BY <1>0, <2>1 DEF Commands
  <2>3. PICK c : c = IF proc[p].job = {j} THEN IdleProc ELSE [proc[p] EXCEPT !.job = proc[p].job \ {j}]
    OBVIOUS
  <2>4. c \in Commands
    BY <1>0, <2>3, IdleTyped DEF Commands
  <2>5. c = IdleProc \/ (c.pc = "delete" /\ c.op = "delete" /\ c.q = proc[p].q)
    BY <1>0, <1>1, <1>2, <2>3 DEF Commands, Delete
  <2>6. proc' = [proc EXCEPT ![p] = c]
    BY <2>1, <2>3
  <2>7. proc' \in [Procs -> Commands]
    BY <1>0, <2>4, <2>6
  <2>8. list' \in [Names -> Seq(Jobs)]
    BY <1>1, <2>1, <2>2, LremShrinks
  <2>9. TypeOK'
    BY <1>2, <2>7, <2>8, TypesMove DEF Delete, memory, bounds, history, TypeOK
  <2>10. Shaped'
    BY <1>0, <1>1, <1>2, <2>5, <2>6 DEF Shaped, Delete, IdleProc
  <2> QED  BY <2>9, <2>10
<1>3. CASE Unlink(p)
  <2>1. proc' = [proc EXCEPT ![p].pc = "srem"]
    BY <1>3 DEF Unlink, Goto
  <2>2. proc' \in [Procs -> Commands]
    <3>1. PICK c : c = [proc[p] EXCEPT !.pc = "srem"]
      OBVIOUS
    <3>2. c \in Commands
      BY <1>0, <3>1, ZenonT(60) DEF Commands, PcStates
    <3> QED  BY <1>0, <2>1, <3>1, <3>2
  <2>3. list' \in [Names -> Seq(Jobs)]
    <3>1. << >> \in Seq(Jobs)
      BY EmptySeq
    <3> QED  BY <1>0, <1>1, <1>3, <3>1 DEF Unlink
  <2>4. TypeOK'
    BY <1>3, <2>2, <2>3, TypesMove DEF Unlink, memory, bounds, history, TypeOK
  <2>5. Shaped'
    BY <1>0, <1>1, <1>3, <2>1 DEF Shaped, Unlink, Commands
  <2> QED  BY <2>4, <2>5
<1>4. CASE Srem(p)
  <2>1. proc' = [proc EXCEPT ![p].pc = "unmap"]
    BY <1>4 DEF Srem, Goto
  <2>2. proc' \in [Procs -> Commands]
    <3>1. PICK c : c = [proc[p] EXCEPT !.pc = "unmap"]
      OBVIOUS
    <3>2. c \in Commands
      BY <1>0, <3>1, ZenonT(60) DEF Commands, PcStates
    <3> QED  BY <1>0, <2>1, <3>1, <3>2
  <2>3. names' \subseteq Names
    BY <1>0, <1>4 DEF Srem
  <2>4. TypeOK'
    BY <1>4, <2>2, <2>3, TypesMove DEF Srem, memory, bounds, history, TypeOK
  <2>5. Shaped'
    BY <1>0, <1>1, <1>4, <2>1 DEF Shaped, Srem, Commands
  <2> QED  BY <2>4, <2>5
<1>5. CASE Unmap(p)
  <2>0. proc[p].op = "clear"
    BY <1>1, <1>5 DEF Unmap
  <2>1. proc' = [proc EXCEPT ![p] = IdleProc]
    BY <1>0, <1>5, <2>0 DEF Unmap, Done
  <2>2. proc' \in [Procs -> Commands]
    BY <1>0, <2>1, IdleTyped
  <2>3. queueSet' \subseteq Names
    BY <1>0, <1>5 DEF Unmap
  <2>4. TypeOK'
    BY <1>5, <2>2, <2>3, TypesMove DEF Unmap, redis, bounds, history, TypeOK
  <2>5. Shaped'
    BY <1>0, <1>5, <2>1 DEF Shaped, Unmap, IdleProc
  <2> QED  BY <2>4, <2>5
<1> QED  BY <1>2, <1>3, <1>4, <1>5

\* Where a failed Redis command leaves the command that gave it.
LEMMA ErrorMoves ==
    ASSUME CommandInv, NEW p \in Procs, RedisError(p)
    PROVE  \E c \in Commands :
             /\ proc' = [proc EXCEPT ![p] = c]
             /\ \/ c = IdleProc
                \/ /\ c.op = proc[p].op
                   /\ c.q = proc[p].q
                   /\ \/ c.pc = "next" /\ c.op \in {"pause", "resume"}
                      \/ c.pc = "srem" /\ proc[p].pc = "unlink"
                      \/ c.pc = "unmap" /\ proc[p].pc = "srem"
<1> USE DEF CommandInv
<1>0. proc \in [Procs -> Commands]
  BY DEF TypeOK, Commands
<1>1. CASE Done(p)
  <2>1. PICK c : c = IF proc[p].op \in {"pause", "resume"}
                     THEN [proc[p] EXCEPT !.pc = "next", !.copy = {}] ELSE IdleProc
    OBVIOUS
  <2>2. c \in Commands
    BY <1>0, <2>1, IdleTyped DEF Commands, PcStates
  <2>3. proc' = [proc EXCEPT ![p] = c]
    BY <1>0, <1>1, <2>1 DEF Done
  <2>4. c = IdleProc \/ (c.pc = "next" /\ c.op \in {"pause", "resume"}
                         /\ c.op = proc[p].op /\ c.q = proc[p].q)
    BY <1>0, <2>1 DEF Commands
  <2> QED  BY <2>2, <2>3, <2>4
<1>2. CASE proc' = [proc EXCEPT ![p] = IdleProc]
  BY <1>2, IdleTyped
<1>3. ASSUME NEW s, Goto(p, s), \/ s = "srem" /\ proc[p].pc = "unlink"
                                \/ s = "unmap" /\ proc[p].pc = "srem"
      PROVE  \E c \in Commands :
               /\ proc' = [proc EXCEPT ![p] = c]
               /\ c.op = proc[p].op
               /\ c.q = proc[p].q
               /\ \/ c.pc = "srem" /\ proc[p].pc = "unlink"
                  \/ c.pc = "unmap" /\ proc[p].pc = "srem"
  <2>1. PICK c : c = [proc[p] EXCEPT !.pc = s]
    OBVIOUS
  <2>2. c \in Commands /\ c.op = proc[p].op /\ c.q = proc[p].q /\ c.pc = s
    BY <1>0, <1>3, <2>1 DEF Commands, PcStates
  <2>3. proc' = [proc EXCEPT ![p] = c]
    BY <1>0, <1>3, <2>1 DEF Goto
  <2> QED  BY <1>3, <2>2, <2>3
<1> QED
  <2>1. CASE Done(p)
    BY <1>1, <2>1
  <2>2. CASE proc[p].pc = "unlink" /\ Goto(p, "srem")
    BY <1>3, <2>2
  <2>3. CASE proc[p].pc = "srem" /\ Goto(p, "unmap")
    BY <1>3, <2>3
  <2> QED  BY <1>2, <2>1, <2>2, <2>3 DEF RedisError

\* Redis errors, the crash and the restart.
LEMMA CommandFault ==
    ASSUME CommandInv, (\E p \in Procs : RedisError(p)) \/ Crash \/ Boot
    PROVE  CommandInv'
<1> USE DEF CommandInv
<1>0. proc \in [Procs -> Commands] /\ errs \in Nat /\ crashes \in Nat
  BY DEF TypeOK, Commands
<1>1. ASSUME NEW p \in Procs, RedisError(p)
      PROVE  CommandInv'
  <2>1. PICK c \in Commands :
             /\ proc' = [proc EXCEPT ![p] = c]
             /\ \/ c = IdleProc
                \/ /\ c.op = proc[p].op
                   /\ c.q = proc[p].q
                   /\ \/ c.pc = "next" /\ c.op \in {"pause", "resume"}
                      \/ c.pc = "srem" /\ proc[p].pc = "unlink"
                      \/ c.pc = "unmap" /\ proc[p].pc = "srem"
    BY <1>1, ErrorMoves
  <2>2. proc' \in [Procs -> Commands]
    BY <1>0, <2>1
  <2>3. errs' \in Nat /\ up /\ up'
    BY <1>0, <1>1 DEF RedisError
  <2>4. TypeOK'
    BY <1>1, <2>2, <2>3, TypesMove DEF RedisError, redis, memory, history, TypeOK
  <2>5. proc[p].pc # "idle"
    BY <1>1 DEF RedisError
  <2>6. Shaped'
    BY <1>0, <2>1, <2>3, <2>5 DEF Shaped, IdleProc
  <2> QED  BY <2>4, <2>6
<1>2. ASSUME Crash
      PROVE  CommandInv'
  <2>1. proc' \in [Procs -> Commands]
    BY <1>2, IdleTyped DEF Crash
  <2>2. crashes' \in Nat
    BY <1>0, <1>2 DEF Crash
  <2>3. asks' \in [Workers -> SUBSET (Nat \X Names)]
    BY <1>2 DEF Crash
  <2>4. TypeOK'
    BY <1>2, <2>1, <2>2, <2>3, TypesMove DEF Crash, redis, history, TypeOK
  <2>5. Shaped'
    BY <1>2 DEF Crash, Shaped, IdleProc
  <2> QED  BY <2>4, <2>5
<1>3. ASSUME Boot
      PROVE  CommandInv'
  <2>1. TypeOK'
    BY <1>0, <1>3, TypesMove DEF Boot, redis, bounds, TypeOK, LoadQueues, LoadPaused
  <2>2. Shaped'
    BY <1>3 DEF Boot, Shaped
  <2> QED  BY <2>1, <2>2
<1> QED  BY <1>1, <1>2, <1>3

\* Every step keeps the types and the shape of the commands.
LEMMA CommandStep == CommandInv /\ [Next]_vars => CommandInv'
<1> SUFFICES ASSUME CommandInv, [Next]_vars PROVE CommandInv'
  OBVIOUS
<1>1. CASE UNCHANGED vars
  BY <1>1 DEF vars, CommandInv, TypeOK, Shaped
<1>2. CASE Next
  BY <1>2, CommandGet, CommandPush, CommandFetch, CommandQueue, CommandPage, CommandClear,
     CommandFault DEF Next, Step
<1> QED  BY <1>1, <1>2

-----------------------------------------------------------------------------
(* What a step makes of its command *)

\* GetQueue goes on with the map when the queue is new, else with its command.
LEMMA GetMoves ==
    ASSUME CommandInv, NEW p \in Procs, GetQueue(p) \/ Insert(p)
    PROVE  \E c \in Commands :
             /\ proc' = [proc EXCEPT ![p] = c]
             /\ \/ c = IdleProc
                \/ /\ c.op = proc[p].op
                   /\ c.q = proc[p].q
                   /\ c.pc \in {"insert", "push", "mark", "unlink", "delete"}
             /\ c.pc = "insert" => proc[p].q \in names'
             /\ c.pc = "push" => proc[p].q \in queueSet'
<1> USE DEF CommandInv
<1>0. proc \in [Procs -> Commands] /\ proc[p].op \in AllOps \cup {"push"}
  BY DEF TypeOK, Commands
<1>1. CASE Proceed(p) /\ proc[p].q \in queueSet'
  <2>1. PICK n : n = AfterGet(proc[p].op)
    OBVIOUS
  <2>2. n \in {"push", "mark", "unlink", "delete", "idle"}
    BY <1>0, <2>1 DEF AfterGet, Shaped, AllOps
  <2>3. PICK c : c = IF n = "idle" THEN IdleProc ELSE [proc[p] EXCEPT !.pc = n]
    OBVIOUS
  <2>4. /\ c \in Commands
        /\ c = IdleProc \/ (c.op = proc[p].op /\ c.q = proc[p].q /\ c.pc = n /\ n # "idle")
    BY <1>0, <2>2, <2>3, IdleTyped DEF Commands, PcStates
  <2>5. proc' = [proc EXCEPT ![p] = c]
    BY <1>0, <1>1, <2>1, <2>3 DEF Proceed
  <2>6. c.pc # "insert"
    BY <2>2, <2>4 DEF IdleProc
  <2> QED  BY <1>1, <2>2, <2>4, <2>5, <2>6
<1>2. CASE Goto(p, "insert") /\ proc[p].q \in names'
  <2>1. PICK c : c = [proc[p] EXCEPT !.pc = "insert"]
    OBVIOUS
  <2>2. c \in Commands /\ c.op = proc[p].op /\ c.q = proc[p].q /\ c.pc = "insert"
    BY <1>0, <2>1 DEF Commands, PcStates
  <2>3. proc' = [proc EXCEPT ![p] = c]
    BY <1>0, <1>2, <2>1 DEF Goto
  <2> QED  BY <1>2, <2>2, <2>3
<1>3. GetQueue(p) => \/ Proceed(p) /\ proc[p].q \in queueSet'
                     \/ Goto(p, "insert") /\ proc[p].q \in names'
  BY DEF GetQueue
<1>4. Insert(p) => Proceed(p) /\ proc[p].q \in queueSet'
  BY DEF Insert
<1> QED  BY <1>1, <1>2, <1>3, <1>4

\* QUEUE takes its next queue, or ends.
LEMMA NextMoves ==
    ASSUME CommandInv, NEW p \in Procs, NextQueue(p)
    PROVE  \/ proc' = [proc EXCEPT ![p] = IdleProc] /\ held' = held
           \/ \E c \in Commands :
                /\ proc' = [proc EXCEPT ![p] = c]
                /\ c.pc = "get"
                /\ c.op = proc[p].op
                /\ c.q \in Names
                /\ held' = IF c.op = "resume" THEN held \ {c.q} ELSE held
<1> USE DEF CommandInv
<1>0. proc \in [Procs -> Commands]
  BY DEF TypeOK, Commands
<1>1. ASSUME NEW q \in proc[p].todo,
             proc' = [proc EXCEPT ![p].pc = "get", ![p].q = q, ![p].todo = @ \ {q}],
             held' = IF proc[p].op = "resume" THEN held \ {q} ELSE held
      PROVE  \E c \in Commands :
                /\ proc' = [proc EXCEPT ![p] = c]
                /\ c.pc = "get"
                /\ c.op = proc[p].op
                /\ c.q \in Names
                /\ held' = IF c.op = "resume" THEN held \ {c.q} ELSE held
  <2>1. PICK c : c = [proc[p] EXCEPT !.pc = "get", !.q = q, !.todo = @ \ {q}]
    OBVIOUS
  <2>2. q \in Names
    BY <1>0 DEF Commands
  <2>3. c \in Commands /\ c.pc = "get" /\ c.op = proc[p].op /\ c.q = q
    BY <1>0, <2>1, <2>2 DEF Commands, PcStates
  <2>4. proc' = [proc EXCEPT ![p] = c]
    BY <1>0, <1>1, <2>1 DEF Commands
  <2> QED  BY <1>1, <2>2, <2>3, <2>4
<1> QED  BY <1>1 DEF NextQueue

\* Pause and Resume mark the store, read m.paused and write it.
LEMMA PauseMoves ==
    ASSUME CommandInv, NEW p \in Procs, Mark(p) \/ ReadPaused(p) \/ WritePaused(p)
    PROVE  \E c \in Commands :
             /\ proc' = [proc EXCEPT ![p] = c]
             /\ c.op = proc[p].op
             /\ Mark(p) => c.pc = "read" /\ c.q = proc[p].q
             /\ ReadPaused(p) => c.pc = "write" /\ c.q = proc[p].q /\ c.copy = paused
             /\ WritePaused(p) => c.pc = "next"
             /\ c.pc \in {"read", "write", "next"}
<1> USE DEF CommandInv
<1>0. proc \in [Procs -> Commands] /\ paused \subseteq Names
  BY DEF TypeOK, Commands
<1>a. /\ Mark(p) => proc[p].pc = "mark"
      /\ ReadPaused(p) => proc[p].pc = "read"
      /\ WritePaused(p) => proc[p].pc = "write"
  BY DEF Mark, ReadPaused, WritePaused
<1>1. CASE Mark(p)
  <2>1. PICK c : c = [proc[p] EXCEPT !.pc = "read"]
    OBVIOUS
  <2>2. c \in Commands /\ c.op = proc[p].op /\ c.q = proc[p].q /\ c.pc = "read"
    BY <1>0, <2>1 DEF Commands, PcStates
  <2>3. proc' = [proc EXCEPT ![p] = c]
    BY <1>0, <1>1, <2>1 DEF Mark, Goto
  <2> QED  BY <1>a, <1>1, <2>2, <2>3
<1>2. CASE ReadPaused(p)
  <2>1. PICK c : c = [proc[p] EXCEPT !.pc = "write", !.copy = paused]
    OBVIOUS
  <2>2. c \in Commands /\ c.op = proc[p].op /\ c.q = proc[p].q /\ c.pc = "write" /\ c.copy = paused
    BY <1>0, <2>1 DEF Commands, PcStates
  <2>3. proc' = [proc EXCEPT ![p] = c]
    BY <1>0, <1>2, <2>1 DEF ReadPaused, Commands
  <2> QED  BY <1>a, <1>2, <2>2, <2>3
<1>3. CASE WritePaused(p)
  <2>1. PICK c : c = [proc[p] EXCEPT !.pc = "next", !.copy = {}, !.q = None]
    OBVIOUS
  <2>2. c \in Commands /\ c.op = proc[p].op /\ c.pc = "next"
    BY <1>0, <2>1 DEF Commands, PcStates
  <2>3. proc' = [proc EXCEPT ![p] = c]
    BY <1>3, <2>1 DEF WritePaused
  <2> QED  BY <1>a, <1>3, <2>2, <2>3
<1> QED  BY <1>1, <1>2, <1>3

\* PUSH ends, Delete goes on with its next value, Clear with its next command.
LEMMA OtherMoves ==
    ASSUME CommandInv, NEW p \in Procs,
           Push(p) \/ Delete(p) \/ Unlink(p) \/ Srem(p) \/ Unmap(p)
    PROVE  \E c \in Commands :
             /\ proc' = [proc EXCEPT ![p] = c]
             /\ \/ c = IdleProc
                \/ /\ c.op = proc[p].op
                   /\ c.q = proc[p].q
                   /\ c.pc \in {"delete", "srem", "unmap"}
                   /\ c.op \in {"delete", "clear"}
<1> USE DEF CommandInv
<1>0. proc \in [Procs -> Commands]
  BY DEF TypeOK, Commands
<1>a. /\ proc[p].pc \in {"push", "delete", "unlink", "srem", "unmap"}
      /\ Delete(p) => proc[p].pc = "delete" /\ proc[p].op = "delete"
      /\ Unlink(p) \/ Srem(p) \/ Unmap(p) => proc[p].op = "clear"
      /\ Push(p) => proc[p].op = "push"
  BY DEF Push, Delete, Unlink, Srem, Unmap, Shaped
<1>1. CASE Push(p) \/ Unmap(p)
  <2>1. proc' = [proc EXCEPT ![p] = IdleProc]
    BY <1>0, <1>1, <1>a DEF Push, Unmap, Done
  <2> QED  BY <2>1, IdleTyped
<1>2. CASE Delete(p)
  <2>1. PICK j \in proc[p].job :
           proc' = [proc EXCEPT ![p] = IF proc[p].job = {j} THEN IdleProc
                                       ELSE [proc[p] EXCEPT !.job = proc[p].job \ {j}]]
    BY <1>2 DEF Delete
  <2>2. PICK c : c = IF proc[p].job = {j} THEN IdleProc
                     ELSE [proc[p] EXCEPT !.job = proc[p].job \ {j}]
    OBVIOUS
  <2>3. c \in Commands
    BY <1>0, <2>2, IdleTyped DEF Commands
  <2>4. c = IdleProc \/ (c.pc = "delete" /\ c.op = "delete" /\ c.q = proc[p].q)
    BY <1>0, <1>2, <1>a, <2>2 DEF Commands
  <2>5. proc' = [proc EXCEPT ![p] = c]
    BY <2>1, <2>2
  <2> QED  BY <1>2, <1>a, <2>3, <2>4, <2>5
<1>3. ASSUME NEW s \in {"srem", "unmap"}, Goto(p, s), proc[p].op = "clear"
      PROVE  \E c \in Commands :
               /\ proc' = [proc EXCEPT ![p] = c]
               /\ c.op = proc[p].op
               /\ c.q = proc[p].q
               /\ c.pc \in {"delete", "srem", "unmap"}
               /\ c.op \in {"delete", "clear"}
  <2>1. PICK c : c = [proc[p] EXCEPT !.pc = s]
    OBVIOUS
  <2>2. c \in Commands /\ c.op = proc[p].op /\ c.q = proc[p].q /\ c.pc = s
    BY <1>0, <2>1 DEF Commands, PcStates
  <2>3. proc' = [proc EXCEPT ![p] = c]
    BY <1>0, <1>3, <2>1 DEF Goto
  <2> QED  BY <1>3, <2>2, <2>3
<1>4. Unlink(p) => Goto(p, "srem")
  BY DEF Unlink
<1>5. Srem(p) => Goto(p, "unmap")
  BY DEF Srem
<1> QED  BY <1>a, <1>1, <1>2, <1>3, <1>4, <1>5

\* A connection or a request begins a command.
Begins(p) ==
    \/ \E j \in Jobs, q \in Names : BeginPush(p, j, q)
    \/ \E op \in Ops, T \in SUBSET Names, star \in BOOLEAN : BeginQueue(p, op, T, star)
    \/ \E op \in Ops, q \in Names : BeginPage(p, op, q)
    \/ \E q \in Names, T \in SUBSET Jobs : BeginDelete(p, q, T)

\* A new command: PUSH and the requests of the page are at GetQueue, QUEUE is
\* at its first name.
LEMMA BeginMoves ==
    ASSUME CommandInv, NEW p \in Procs, Begins(p)
    PROVE  \E c \in Commands :
             /\ proc' = [proc EXCEPT ![p] = c]
             /\ c.pc \in {"get", "next"}
             /\ c.op = "resume" => c.pc = "next"
             /\ c.op = "clear" => c.q \in cleared'
<1> DEFINE Moved == \E c \in Commands :
                      /\ proc' = [proc EXCEPT ![p] = c]
                      /\ c.pc \in {"get", "next"}
                      /\ c.op = "resume" => c.pc = "next"
                      /\ c.op = "clear" => c.q \in cleared'
<1>1. ASSUME NEW j \in Jobs, NEW q \in Names, BeginPush(p, j, q)
      PROVE  Moved
  <2>1. PICK c : c = [IdleProc EXCEPT !.pc = "get", !.op = "push", !.q = q, !.job = {j}]
    OBVIOUS
  <2>2. c \in Commands /\ c.pc = "get" /\ c.op = "push"
    BY <2>1 DEF IdleProc, Commands, PcStates, AllOps
  <2>3. proc' = [proc EXCEPT ![p] = c]
    BY <1>1, <2>1 DEF BeginPush
  <2> QED  BY <2>2, <2>3
<1>2. ASSUME NEW op \in Ops, NEW T \in SUBSET Names, NEW star \in BOOLEAN,
             BeginQueue(p, op, T, star)
      PROVE  Moved
  <2>1. PICK c : c = [IdleProc EXCEPT !.pc = "next", !.op = op, !.todo = T, !.star = star]
    OBVIOUS
  <2>2. c \in Commands /\ c.pc = "next" /\ c.op = op /\ op \in {"pause", "resume"}
    BY <1>2, <2>1 DEF IdleProc, Commands, PcStates, AllOps, BeginQueue
  <2>3. proc' = [proc EXCEPT ![p] = c]
    BY <1>2, <2>1 DEF BeginQueue
  <2> QED  BY <2>2, <2>3
<1>3. ASSUME NEW op \in Ops, NEW q \in Names, BeginPage(p, op, q)
      PROVE  Moved
  <2>1. PICK c : c = [IdleProc EXCEPT !.pc = "get", !.op = op, !.q = q]
    OBVIOUS
  <2>2. c \in Commands /\ c.pc = "get" /\ c.op = op /\ op \in {"clear", "look"} /\ c.q = q
    BY <1>3, <2>1 DEF IdleProc, Commands, PcStates, AllOps, BeginPage
  <2>3. proc' = [proc EXCEPT ![p] = c] /\ (op = "clear" => q \in cleared')
    BY <1>3, <2>1 DEF BeginPage
  <2> QED  BY <2>2, <2>3
<1>4. ASSUME NEW q \in Names, NEW U \in SUBSET Jobs, BeginDelete(p, q, U)
      PROVE  Moved
  <2>1. PICK c : c = [IdleProc EXCEPT !.pc = "get", !.op = "delete", !.q = q, !.job = U]
    OBVIOUS
  <2>2. c \in Commands /\ c.pc = "get" /\ c.op = "delete"
    BY <2>1 DEF IdleProc, Commands, PcStates, AllOps
  <2>3. proc' = [proc EXCEPT ![p] = c]
    BY <1>4, <2>1 DEF BeginDelete
  <2> QED  BY <2>2, <2>3
<1> QED  BY <1>1, <1>2, <1>3, <1>4 DEF Begins

-----------------------------------------------------------------------------
(* Queues that hold jobs are registered *)

\* The general case: no list gets a job, no name and no entry of the map of a
\* queue that nobody clears goes away, and a command that reaches the map or the
\* LPUSH has the name stored or the queue known.
LEMMA RegisterKeeps ==
    ASSUME CommandInv, RegisterInv, NEW p \in Procs, NEW c,
           proc' = [proc EXCEPT ![p] = c],
           cleared \subseteq cleared',
           up, up',
           c.pc # "idle" /\ c.op = "clear" => c.q \in cleared',
           c.pc = "insert" => c.q \in names',
           c.pc = "push" => c.q \in queueSet',
           \A r \in Names \ cleared' : list'[r] # << >> => list[r] # << >> \/ r \in queueSet',
           \A r \in Names \ cleared' : r \in names => r \in names',
           \A r \in Names \ cleared' : r \in queueSet => r \in queueSet',
           \A r \in Names \ cleared' : up /\ r \in queueSet' => r \in names'
    PROVE  RegisterInv'
<1>1. proc \in [Procs -> Commands]
  BY DEF CommandInv, TypeOK, Commands
<1>a. \A r \in Procs : proc'[r] = IF r = p THEN c ELSE proc[r]
  BY <1>1
<1>b. \A r \in Procs : proc[r].pc \notin {"idle", "next"} => proc[r].q \in Names /\ up
  BY DEF CommandInv, Shaped
<1>2. Named'
  BY DEF Named
<1>3. Announced'
  BY <1>a, <1>b DEF Announced, RegisterInv
<1>4. Registered'
  <2> SUFFICES ASSUME NEW r \in Names \ cleared', list'[r] # << >>
               PROVE  r \in names' /\ (up' => r \in queueSet')
    BY DEF Registered
  <2>1. r \in Names \ cleared
    OBVIOUS
  <2>2. CASE list[r] # << >>
    BY <2>1, <2>2 DEF RegisterInv, Registered
  <2>3. CASE list[r] = << >>
    BY <2>3
  <2> QED  BY <2>2, <2>3
<1> QED  BY <1>2, <1>3, <1>4 DEF RegisterInv

\* GetQueue: the name is stored before the queue is put into the map.
LEMMA RegisterGet ==
    ASSUME CommandInv, RegisterInv, NEW p \in Procs, GetQueue(p) \/ Insert(p)
    PROVE  RegisterInv'
<1>1. PICK c \in Commands :
             /\ proc' = [proc EXCEPT ![p] = c]
             /\ \/ c = IdleProc
                \/ /\ c.op = proc[p].op
                   /\ c.q = proc[p].q
                   /\ c.pc \in {"insert", "push", "mark", "unlink", "delete"}
             /\ c.pc = "insert" => proc[p].q \in names'
             /\ c.pc = "push" => proc[p].q \in queueSet'
  BY GetMoves
<1>2. UNCHANGED <<list, cleared>> /\ up /\ up'
  BY DEF GetQueue, Insert, redis, history
<1>3. c.pc # "idle" /\ c.op = "clear" => c.q \in cleared'
  <2>1. proc[p].pc # "idle"
    BY DEF GetQueue, Insert
  <2> QED  BY <1>1, <1>2, <2>1 DEF RegisterInv, Announced, IdleProc
<1>4. /\ c.pc = "insert" => c.q \in names'
      /\ c.pc = "push" => c.q \in queueSet'
  BY <1>1 DEF IdleProc
<1>5. names \subseteq names' /\ queueSet \subseteq queueSet'
  BY DEF GetQueue, Insert, redis
<1>6. \A r \in Names \ cleared' : up /\ r \in queueSet' => r \in names'
  <2>1. CASE GetQueue(p)
    BY <1>2, <1>5, <2>1 DEF GetQueue, RegisterInv, Named
  <2>2. CASE Insert(p)
    BY <1>2, <2>2 DEF Insert, redis, RegisterInv, Named, Announced
  <2> QED  BY <2>1, <2>2
<1> QED  BY <1>1, <1>2, <1>3, <1>4, <1>5, <1>6, RegisterKeeps

\* LPUSH goes to a queue that is known.
LEMMA RegisterPush ==
    ASSUME CommandInv, RegisterInv, NEW p \in Procs, Push(p)
    PROVE  RegisterInv'
<1>1. proc[p].pc = "push" /\ proc[p].op = "push" /\ proc[p].q \in Names /\ up
  BY DEF CommandInv, Push, Shaped
<1>0. proc \in [Procs -> Commands] /\ list \in [Names -> Seq(Jobs)]
  BY DEF CommandInv, TypeOK, Commands
<1>2. proc' = [proc EXCEPT ![p] = IdleProc]
  BY <1>0, <1>1 DEF Push, Done
<1>3. UNCHANGED <<names, queueSet, up, cleared>> /\ up'
  BY DEF Push, memory, history
<1>4. \A r \in Names \ cleared' : list'[r] # << >> => list[r] # << >> \/ r \in queueSet'
  BY <1>0, <1>1, <1>3 DEF Push, RegisterInv, Announced
<1>5. \A r \in Names \ cleared' : up /\ r \in queueSet' => r \in names'
  BY <1>3 DEF RegisterInv, Named
<1>6. IdleProc.pc = "idle"
  BY DEF IdleProc
<1> QED  BY <1>1, <1>2, <1>3, <1>4, <1>5, <1>6, RegisterKeeps

\* A new command, a step of QUEUE or of Delete, and an error change no name and
\* no entry of the map.
LEMMA RegisterOther ==
    ASSUME CommandInv, RegisterInv, NEW p \in Procs, NEW c,
           proc' = [proc EXCEPT ![p] = c],
           c.pc \notin {"insert", "push"},
           c.pc # "idle" /\ c.op = "clear" => c.q \in cleared',
           up, up',
           UNCHANGED <<names, queueSet>>,
           cleared \subseteq cleared',
           \A r \in Names : list'[r] # << >> => list[r] # << >>
    PROVE  RegisterInv'
<1>1. \A r \in Names \ cleared' : up /\ r \in queueSet' => r \in names'
  BY DEF RegisterInv, Named
<1> QED  BY <1>1, RegisterKeeps

\* Clear takes its own queue out of the store and out of the map.
LEMMA RegisterClear ==
    ASSUME CommandInv, RegisterInv, NEW p \in Procs,
           Delete(p) \/ Unlink(p) \/ Srem(p) \/ Unmap(p)
    PROVE  RegisterInv'
<1>0. /\ proc \in [Procs -> Commands]
      /\ list \in [Names -> Seq(Jobs)]
  BY DEF CommandInv, TypeOK, Commands
<1>1. PICK c \in Commands :
             /\ proc' = [proc EXCEPT ![p] = c]
             /\ \/ c = IdleProc
                \/ /\ c.op = proc[p].op
                   /\ c.q = proc[p].q
                   /\ c.pc \in {"delete", "srem", "unmap"}
                   /\ c.op \in {"delete", "clear"}
  BY OtherMoves
<1>2. /\ proc[p].pc # "idle"
      /\ proc[p].q \in Names
      /\ ~Delete(p) => proc[p].q \in cleared
  BY DEF CommandInv, Shaped, Delete, Unlink, Srem, Unmap, RegisterInv, Announced
<1>3. UNCHANGED cleared /\ up /\ up'
  BY DEF Delete, Unlink, Srem, Unmap, history
<1>4. /\ c.pc # "idle" /\ c.op = "clear" => c.q \in cleared'
      /\ c.pc \notin {"insert", "push"}
  BY <1>1, <1>2, <1>3 DEF RegisterInv, Announced, IdleProc
<1>5. CASE Delete(p)
  <2>1. PICK j \in proc[p].job : Lrem(proc[p].q, j)
    BY <1>5 DEF Delete
  <2>2. j \in Jobs
    BY <1>0, <2>1 DEF Commands
  <2>3. \A r \in Names : list'[r] # << >> => list[r] # << >>
    BY <1>2, <2>1, <2>2, LremShrinks DEF CommandInv
  <2>4. UNCHANGED <<names, queueSet>>
    BY <1>5 DEF Delete, memory
  <2> QED  BY <1>1, <1>3, <1>4, <2>3, <2>4, RegisterOther
<1>6. CASE Unlink(p)
  <2>1. \A r \in Names : list'[r] # << >> => list[r] # << >>
    BY <1>0, <1>2, <1>6 DEF Unlink
  <2>2. UNCHANGED <<names, queueSet>>
    BY <1>6 DEF Unlink, memory
  <2> QED  BY <1>1, <1>3, <1>4, <2>1, <2>2, RegisterOther
<1>7. CASE Srem(p) \/ Unmap(p)
  <2>0. proc[p].q \in cleared
    BY <1>2, <1>7 DEF Srem, Unmap, Delete
  <2>1. /\ list' = list
        /\ names' \subseteq names /\ \A r \in Names \ cleared' : r \in names => r \in names'
        /\ queueSet' \subseteq queueSet
        /\ \A r \in Names \ cleared' : r \in queueSet => r \in queueSet'
    BY <1>3, <1>7, <2>0 DEF Srem, Unmap, redis, memory
  <2>2. \A r \in Names \ cleared' : up /\ r \in queueSet' => r \in names'
    BY <1>3, <2>1 DEF RegisterInv, Named
  <2> QED  BY <1>1, <1>3, <1>4, <2>1, <2>2, RegisterKeeps
<1> QED  BY <1>5, <1>6, <1>7

\* Every step keeps the queues registered.
LEMMA RegisterStep == CommandInv /\ RegisterInv /\ [Next]_vars => RegisterInv'
<1> SUFFICES ASSUME CommandInv, RegisterInv, [Next]_vars PROVE RegisterInv'
  OBVIOUS
<1>0. /\ proc \in [Procs -> Commands]
      /\ list \in [Names -> Seq(Jobs)]
      /\ Producers \subseteq Procs /\ Operators \subseteq Procs
  BY DEF CommandInv, TypeOK, Commands, Procs
<1>1. CASE UNCHANGED vars
  BY <1>1 DEF vars, RegisterInv, Named, Announced, Registered
<1>2. ASSUME NEW p \in Procs, Begins(p)
      PROVE  RegisterInv'
  <2>1. PICK c \in Commands : /\ proc' = [proc EXCEPT ![p] = c]
                              /\ c.pc \in {"get", "next"}
                              /\ c.op = "clear" => c.q \in cleared'
    BY <1>2, BeginMoves
  <2>2. /\ UNCHANGED <<list, names, queueSet>> /\ up /\ up'
        /\ cleared \subseteq cleared'
    <3>1. ASSUME NEW op \in Ops, NEW q \in Names, BeginPage(p, op, q)
          PROVE  UNCHANGED <<list, names, queueSet>> /\ up /\ up' /\ cleared \subseteq cleared'
      BY <3>1 DEF BeginPage, Operate, redis, memory
    <3>2. ASSUME NEW j \in Jobs, NEW q \in Names, BeginPush(p, j, q)
          PROVE  UNCHANGED <<list, names, queueSet, cleared>> /\ up /\ up'
      BY <3>2 DEF BeginPush, redis, memory
    <3>3. ASSUME NEW op \in Ops, NEW T \in SUBSET Names, NEW star \in BOOLEAN,
                 BeginQueue(p, op, T, star)
          PROVE  UNCHANGED <<list, names, queueSet, cleared>> /\ up /\ up'
      BY <3>3 DEF BeginQueue, Operate, redis, memory, history
    <3>4. ASSUME NEW q \in Names, NEW T \in SUBSET Jobs, BeginDelete(p, q, T)
          PROVE  UNCHANGED <<list, names, queueSet, cleared>> /\ up /\ up'
      BY <3>4 DEF BeginDelete, Operate, redis, memory, history
    <3> QED  BY <1>2, <3>1, <3>2, <3>3, <3>4 DEF Begins
  <2> QED  BY <2>1, <2>2, RegisterOther
<1>3. ASSUME NEW w \in Workers, brpop(w) \/ brpopTimeout(w) \/ \E qs \in Orders : Fetch(w, qs)
      PROVE  RegisterInv'
  <2>1. UNCHANGED <<names, queueSet, proc, up, cleared>>
    BY <1>3 DEF brpop, brpopTimeout, Fetch, redis, memory, history
  <2>2. \A r \in Names : list'[r] # << >> => list[r] # << >>
    <3>1. CASE brpop(w)
      BY <1>0, <3>1 DEF brpop
    <3>2. CASE ~brpop(w)
      BY <1>3, <3>2 DEF brpopTimeout, Fetch, redis
    <3> QED  BY <3>1, <3>2
  <2> QED  BY <2>1, <2>2 DEF RegisterInv, Named, Announced, Registered
<1>4. ASSUME NEW p \in Procs, NextQueue(p)
      PROVE  RegisterInv'
  <2>1. UNCHANGED <<list, names, queueSet, cleared>> /\ up /\ up'
    BY <1>4 DEF NextQueue, redis, memory
  <2>2. proc[p].op \in {"pause", "resume"}
    BY <1>4 DEF CommandInv, Shaped, NextQueue
  <2>3. PICK c : /\ proc' = [proc EXCEPT ![p] = c]
                 /\ c.pc \notin {"insert", "push"}
                 /\ c.pc # "idle" => c.op \in {"pause", "resume"}
    BY <1>4, <2>2, NextMoves, IdleTyped DEF IdleProc
  <2>4. c.pc # "idle" /\ c.op = "clear" => c.q \in cleared'
    BY <2>3
  <2> QED  BY <2>1, <2>3, <2>4, RegisterOther
<1>5. ASSUME NEW p \in Procs, Mark(p) \/ ReadPaused(p) \/ WritePaused(p)
      PROVE  RegisterInv'
  <2>1. UNCHANGED <<list, names, queueSet, cleared>> /\ up /\ up'
    BY <1>5 DEF Mark, ReadPaused, WritePaused, redis, memory, history
  <2>2. proc[p].op \in {"pause", "resume"}
    BY <1>5 DEF CommandInv, Shaped, Mark, ReadPaused, WritePaused
  <2>3. PICK c \in Commands : /\ proc' = [proc EXCEPT ![p] = c]
                              /\ c.op = proc[p].op
                              /\ c.pc \in {"read", "write", "next"}
    BY <1>5, PauseMoves
  <2>4. c.op # "clear" /\ c.pc \notin {"insert", "push"}
    BY <2>2, <2>3
  <2> QED  BY <2>1, <2>3, <2>4, RegisterOther
<1>6. ASSUME NEW p \in Procs, RedisError(p)
      PROVE  RegisterInv'
  <2>1. UNCHANGED <<list, names, queueSet, cleared>> /\ up /\ up'
    BY <1>6 DEF RedisError, redis, memory, history
  <2>2. PICK c \in Commands :
             /\ proc' = [proc EXCEPT ![p] = c]
             /\ \/ c = IdleProc
                \/ /\ c.op = proc[p].op
                   /\ c.q = proc[p].q
                   /\ \/ c.pc = "next" /\ c.op \in {"pause", "resume"}
                      \/ c.pc = "srem" /\ proc[p].pc = "unlink"
                      \/ c.pc = "unmap" /\ proc[p].pc = "srem"
    BY <1>6, ErrorMoves
  <2>3. /\ c.pc \notin {"insert", "push"}
        /\ c.pc # "idle" /\ c.op = "clear" => c.q \in cleared'
    BY <2>1, <2>2 DEF IdleProc, RegisterInv, Announced
  <2> QED  BY <2>1, <2>2, <2>3, RegisterOther
<1>7. ASSUME NEW p \in Operators, Flush(p)
      PROVE  RegisterInv'
  <2>1. cleared' = Names /\ UNCHANGED proc
    BY <1>7 DEF Flush
  <2>2. Announced'
    <3>1. \A r \in Procs : proc[r].pc \notin {"idle", "next"} => proc[r].q \in Names
      BY DEF CommandInv, Shaped
    <3>2. \A r \in Procs : proc[r].pc = "next" => proc[r].op \in {"pause", "resume"}
      BY DEF CommandInv, Shaped
    <3> QED  BY <2>1, <3>1, <3>2 DEF Announced
  <2> QED  BY <2>1, <2>2 DEF RegisterInv, Named, Registered
<1>8. CASE Crash
  <2>1. ~up' /\ UNCHANGED <<list, names, cleared>> /\ proc' = [r \in Procs |-> IdleProc]
    BY <1>8 DEF Crash, redis, history
  <2> QED  BY <2>1 DEF RegisterInv, Named, Announced, Registered, IdleProc
<1>9. CASE Boot
  <2>1. queueSet' = names /\ UNCHANGED <<list, names, cleared, proc>>
    BY <1>9 DEF Boot, LoadQueues, redis
  <2>2. \A r \in Procs : proc[r].pc = "idle"
    BY <1>9 DEF Boot, CommandInv, Shaped
  <2> QED  BY <2>1, <2>2 DEF RegisterInv, Named, Announced, Registered
<1>10. ASSUME NEW p \in Procs, Step(p)
       PROVE  RegisterInv'
  BY <1>4, <1>5, <1>10, RegisterGet, RegisterPush, RegisterClear DEF Step
<1>11. CASE Next
  BY <1>0, <1>2, <1>3, <1>6, <1>7, <1>8, <1>9, <1>10, <1>11 DEF Next, Begins
<1> QED  BY <1>1, <1>11

\* At the start there are no queues.
LEMMA RegisterInit == Init => RegisterInv
BY DEF Init, RegisterInv, Named, Announced, Registered, IdleProc

(***************************************************************************)
(* A queue that holds jobs is in the store's set of names and in the       *)
(* process's map (GetQueue, Push, Clear and NewRedisStore of package       *)
(* storage): for any number of producers, workers and operators, and       *)
(* through any errors and restarts, unless Clear or FLUSH touches it.      *)
(***************************************************************************)
THEOREM QueuesStayRegistered == Spec => []Registered
<1>1. Init => CommandInv /\ RegisterInv
  BY CommandInit, RegisterInit
<1>2. CommandInv /\ RegisterInv /\ [Next]_vars => CommandInv' /\ RegisterInv'
  BY CommandStep, RegisterStep
<1>3. RegisterInv => Registered
  BY DEF RegisterInv
<1> QED  BY <1>1, <1>2, <1>3, PTL DEF Spec

-----------------------------------------------------------------------------
(* One operator at a time: the process and the store agree *)

\* At most one connection or request administers queues.
OneOperator == \A o, p \in Operators : o = p

\* The general case: a step that leaves both sets of paused queues alone and is
\* not between the two halves of their update.
LEMMA PauseKeeps ==
    ASSUME CommandInv, PauseInv, NEW p \in Procs, NEW c,
           proc' = [proc EXCEPT ![p] = c],
           UNCHANGED <<pausedSet, paused, flushed>>,
           up, up', held' \subseteq held,
           proc[p].pc \notin {"read", "write"},
           c.pc \notin {"read", "write"},
           c.op = "resume" /\ c.pc \in {"get", "insert", "mark"} => c.q \notin held'
    PROVE  PauseInv'
<1>0. proc \in [Procs -> Commands] /\ Operators \subseteq Procs
  BY DEF CommandInv, TypeOK, Commands, Procs
<1>1. \A o \in Operators : proc'[o] = IF o = p THEN c ELSE proc[o]
  BY <1>0
<1>2. Synced'
  BY <1>1 DEF PauseInv, Synced, Marked
<1>3. Current'
  BY <1>1 DEF PauseInv, Current
<1>4. Kept'
  BY <1>1 DEF PauseInv, Kept
<1> QED  BY <1>2, <1>3, <1>4 DEF PauseInv

\* A new command, GetQueue, the steps of PUSH, Delete and Clear, and errors.
LEMMA PauseOther ==
    ASSUME CommandInv, PauseInv, NEW p \in Procs,
           \/ Begins(p) \/ GetQueue(p) \/ Insert(p) \/ Push(p) \/ Delete(p)
           \/ Unlink(p) \/ Srem(p) \/ Unmap(p) \/ RedisError(p)
    PROVE  PauseInv'
<1>0. proc \in [Procs -> Commands]
  BY DEF CommandInv, TypeOK, Commands
<1>1. CASE Begins(p)
  <2>1. PICK c \in Commands : /\ proc' = [proc EXCEPT ![p] = c]
                              /\ c.pc \in {"get", "next"}
                              /\ c.op = "resume" => c.pc = "next"
    BY <1>1, BeginMoves
  <2>2. /\ UNCHANGED <<pausedSet, paused, flushed, held>>
        /\ up /\ up' /\ proc[p].pc = "idle"
    <3>1. ASSUME NEW j \in Jobs, NEW q \in Names, BeginPush(p, j, q)
          PROVE  <2>2!1 /\ <2>2!2
      BY <3>1 DEF BeginPush, redis, memory
    <3>2. ASSUME NEW op \in Ops, NEW T \in SUBSET Names, NEW star \in BOOLEAN,
                 BeginQueue(p, op, T, star)
          PROVE  <2>2!1 /\ <2>2!2
      BY <3>2 DEF BeginQueue, Operate, redis, memory, history
    <3>3. ASSUME NEW op \in Ops, NEW q \in Names, BeginPage(p, op, q)
          PROVE  <2>2!1 /\ <2>2!2
      BY <3>3 DEF BeginPage, Operate, redis, memory
    <3>4. ASSUME NEW q \in Names, NEW T \in SUBSET Jobs, BeginDelete(p, q, T)
          PROVE  <2>2!1 /\ <2>2!2
      BY <3>4 DEF BeginDelete, Operate, redis, memory, history
    <3> QED  BY <1>1, <3>1, <3>2, <3>3, <3>4 DEF Begins
  <2> QED  BY <2>1, <2>2, PauseKeeps
<1>2. CASE GetQueue(p) \/ Insert(p)
  <2>1. PICK c \in Commands :
             /\ proc' = [proc EXCEPT ![p] = c]
             /\ \/ c = IdleProc
                \/ /\ c.op = proc[p].op
                   /\ c.q = proc[p].q
                   /\ c.pc \in {"insert", "push", "mark", "unlink", "delete"}
    BY <1>2, GetMoves
  <2>2. /\ UNCHANGED <<pausedSet, paused, flushed, held>>
        /\ up /\ up' /\ proc[p].pc \in {"get", "insert"}
    BY <1>2 DEF GetQueue, Insert, redis, history
  <2>3. c.op = "resume" /\ c.pc \in {"get", "insert", "mark"} => c.q \notin held'
    <3>1. c # IdleProc /\ c.op = "resume" => p \in Operators
      BY <2>1, <2>2 DEF CommandInv, Shaped
    <3> QED  BY <2>1, <2>2, <3>1 DEF PauseInv, Kept, IdleProc
  <2>4. c.pc \notin {"read", "write"}
    BY <2>1 DEF IdleProc
  <2> QED  BY <2>1, <2>2, <2>3, <2>4, PauseKeeps
<1>3. CASE Push(p) \/ Delete(p) \/ Unlink(p) \/ Srem(p) \/ Unmap(p)
  <2>1. PICK c \in Commands :
             /\ proc' = [proc EXCEPT ![p] = c]
             /\ \/ c = IdleProc
                \/ /\ c.pc \in {"delete", "srem", "unmap"}
                   /\ c.op \in {"delete", "clear"}
    BY <1>3, OtherMoves
  <2>2. /\ UNCHANGED <<pausedSet, paused, flushed, held>>
        /\ up /\ up' /\ proc[p].pc \notin {"read", "write"}
    <3>1. CASE Push(p)
      BY <3>1 DEF Push, redis, memory, history
    <3>2. CASE Delete(p)
      BY <3>2 DEF Delete, redis, memory, history
    <3>3. CASE Unlink(p)
      BY <3>3 DEF Unlink, redis, memory, history
    <3>4. CASE Srem(p)
      BY <3>4 DEF Srem, redis, memory, history
    <3>5. CASE Unmap(p)
      BY <3>5 DEF Unmap, redis, memory, history
    <3> QED  BY <1>3, <3>1, <3>2, <3>3, <3>4, <3>5
  <2>3. /\ c.op = "resume" /\ c.pc \in {"get", "insert", "mark"} => c.q \notin held'
        /\ c.pc \notin {"read", "write"}
    BY <2>1 DEF IdleProc
  <2> QED  BY <2>1, <2>2, <2>3, PauseKeeps
<1>4. CASE RedisError(p)
  <2>1. PICK c \in Commands :
             /\ proc' = [proc EXCEPT ![p] = c]
             /\ \/ c = IdleProc
                \/ c.pc \in {"next", "srem", "unmap"}
    BY <1>4, ErrorMoves
  <2>2. /\ UNCHANGED <<pausedSet, paused, flushed, held>>
        /\ up /\ up' /\ proc[p].pc \notin {"read", "write"}
    BY <1>4 DEF RedisError, redis, memory, history
  <2>3. c.pc \notin {"read", "write", "get", "insert", "mark"}
    BY <2>1 DEF IdleProc
  <2> QED  BY <2>1, <2>2, <2>3, PauseKeeps
<1> QED  BY <1>1, <1>2, <1>3, <1>4

\* QUEUE goes on to its next name: a queue that it resumes is not to stay paused.
LEMMA PauseNext ==
    ASSUME CommandInv, PauseInv, NEW p \in Procs, NextQueue(p)
    PROVE  PauseInv'
<1>1. UNCHANGED <<pausedSet, paused, flushed>> /\ up /\ up' /\ proc[p].pc = "next"
  BY DEF NextQueue, redis, memory
<1>2. CASE proc' = [proc EXCEPT ![p] = IdleProc] /\ held' = held
  <2>1. IdleProc.pc = "idle"
    BY DEF IdleProc
  <2> QED  BY <1>1, <1>2, <2>1, PauseKeeps
<1>3. ASSUME NEW c \in Commands,
             proc' = [proc EXCEPT ![p] = c],
             c.pc = "get",
             held' = IF c.op = "resume" THEN held \ {c.q} ELSE held
      PROVE  PauseInv'
  <2>1. held' \subseteq held /\ (c.op = "resume" => c.q \notin held')
    BY <1>3
  <2> QED  BY <1>1, <1>3, <2>1, PauseKeeps
<1> QED  BY <1>2, <1>3, NextMoves

\* Pause and Resume: the store first, then m.paused from the copy that is still
\* current.
LEMMA PauseUpdate ==
    ASSUME OneOperator, CommandInv, PauseInv, NEW p \in Procs,
           Mark(p) \/ ReadPaused(p) \/ WritePaused(p)
    PROVE  PauseInv'
<1>0. proc \in [Procs -> Commands] /\ Operators \subseteq Procs
  BY DEF CommandInv, TypeOK, Commands, Procs
<1>1. PICK c \in Commands :
             /\ proc' = [proc EXCEPT ![p] = c]
             /\ c.op = proc[p].op
             /\ Mark(p) => c.pc = "read" /\ c.q = proc[p].q
             /\ ReadPaused(p) => c.pc = "write" /\ c.q = proc[p].q /\ c.copy = paused
             /\ WritePaused(p) => c.pc = "next"
             /\ c.pc \in {"read", "write", "next"}
  BY PauseMoves
<1>2. /\ p \in Operators
      /\ proc[p].op \in {"pause", "resume"}
  BY DEF CommandInv, Shaped, Mark, ReadPaused, WritePaused
<1>3. \A o \in Operators : o = p /\ proc'[o] = c
  BY <1>0, <1>1, <1>2 DEF OneOperator
<1>4. UNCHANGED <<up, flushed>> /\ up
  BY DEF Mark, ReadPaused, WritePaused, history
<1>5. CASE Mark(p)
  <2>1. /\ proc[p].pc = "mark"
        /\ pausedSet' = IF proc[p].op = "pause" THEN pausedSet \cup {proc[p].q}
                        ELSE pausedSet \ {proc[p].q}
        /\ UNCHANGED <<paused, held>>
    BY <1>5 DEF Mark, memory, history
  <2>2. c.pc = "read" /\ c.q = proc[p].q /\ c.op = proc[p].op
    BY <1>1, <1>5
  <2>3. ~flushed => paused = pausedSet
    BY <1>2, <1>3, <1>4, <2>1 DEF PauseInv, Synced
  <2>4. Synced'
    BY <1>2, <1>3, <1>4, <2>1, <2>2, <2>3 DEF Synced, Marked
  <2>5. Current'
    BY <1>3, <2>2 DEF Current
  <2>6. proc[p].op = "resume" => proc[p].q \notin held
    BY <1>2, <2>1 DEF PauseInv, Kept
  <2>7. Kept'
    BY <1>2, <1>3, <1>4, <2>1, <2>2, <2>6 DEF PauseInv, Kept
  <2> QED  BY <2>4, <2>5, <2>7 DEF PauseInv
<1>6. CASE ReadPaused(p)
  <2>1. proc[p].pc = "read" /\ UNCHANGED <<paused, pausedSet, held>>
    BY <1>6 DEF ReadPaused, redis, memory, history
  <2>2. c.pc = "write" /\ c.q = proc[p].q /\ c.op = proc[p].op /\ c.copy = paused
    BY <1>1, <1>6
  <2>3. Synced'
    BY <1>2, <1>3, <1>4, <2>1, <2>2 DEF PauseInv, Synced, Marked
  <2>4. Current'
    BY <1>3, <2>1, <2>2 DEF Current
  <2>5. Kept'
    BY <1>2, <1>3, <1>4, <2>1, <2>2 DEF PauseInv, Kept
  <2> QED  BY <2>3, <2>4, <2>5 DEF PauseInv
<1>7. CASE WritePaused(p)
  <2>1. /\ proc[p].pc = "write"
        /\ paused' = IF proc[p].op = "pause" THEN proc[p].copy \cup {proc[p].q}
                     ELSE proc[p].copy \ {proc[p].q}
        /\ pausedSet' = pausedSet
        /\ \/ held' = held
           \/ proc[p].op = "pause" /\ held' = held \cup {proc[p].q}
    BY <1>7 DEF WritePaused, Updated, redis
  <2>2. c.pc = "next"
    BY <1>1, <1>7
  <2>3. proc[p].copy = paused
    BY <1>2, <2>1 DEF PauseInv, Current
  <2>4. Synced'
    <3>1. ~flushed => pausedSet = Marked(proc[p], paused)
      BY <1>2, <1>4, <2>1 DEF PauseInv, Synced
    <3> QED  BY <1>2, <1>3, <1>4, <2>1, <2>2, <2>3, <3>1 DEF Synced, Marked
  <2>5. Current'
    BY <1>3, <2>2 DEF Current
  <2>6. /\ proc[p].op = "pause" => proc[p].q \in pausedSet
        /\ proc[p].op = "resume" => proc[p].q \notin held
        /\ held \subseteq pausedSet /\ held \subseteq paused
    BY <1>2, <1>4, <2>1 DEF PauseInv, Kept
  <2>7. Kept'
    BY <1>2, <1>3, <1>4, <2>1, <2>2, <2>3, <2>6 DEF Kept
  <2> QED  BY <2>4, <2>5, <2>7 DEF PauseInv
<1> QED  BY <1>5, <1>6, <1>7

\* Every step of a server with one operator keeps the agreement.
LEMMA PauseStep ==
    ASSUME OneOperator
    PROVE  CommandInv /\ PauseInv /\ [Next]_vars => PauseInv'
<1> SUFFICES ASSUME CommandInv, PauseInv, [Next]_vars PROVE PauseInv'
  OBVIOUS
<1>0. Producers \subseteq Procs /\ Operators \subseteq Procs
  BY DEF Procs
<1>1. CASE UNCHANGED vars
  BY <1>1 DEF vars, PauseInv, Synced, Current, Kept, Marked
<1>2. ASSUME NEW w \in Workers, brpop(w) \/ brpopTimeout(w) \/ \E qs \in Orders : Fetch(w, qs)
      PROVE  PauseInv'
  <2>1. UNCHANGED <<pausedSet, paused, proc, up, held, flushed>>
    BY <1>2 DEF brpop, brpopTimeout, Fetch, redis, memory, history
  <2> QED  BY <2>1 DEF PauseInv, Synced, Current, Kept, Marked
<1>3. ASSUME NEW p \in Operators, Flush(p)
      PROVE  PauseInv'
  <2>1. /\ proc[p].pc = "idle" /\ up' = up
        /\ flushed' /\ held' = {} /\ UNCHANGED <<proc, paused>>
    BY <1>3 DEF Flush, Operate, memory
  <2>2. \A o \in Operators : proc[o].pc = "idle"
    BY <2>1 DEF OneOperator
  <2> QED  BY <2>1, <2>2 DEF PauseInv, Synced, Current, Kept
<1>4. CASE Crash
  <2>1. /\ ~up' /\ UNCHANGED <<pausedSet, held>>
        /\ \A o \in Operators : proc'[o].pc = "idle"
    BY <1>0, <1>4 DEF Crash, redis, history, IdleProc
  <2> QED  BY <2>1 DEF PauseInv, Synced, Current, Kept
<1>5. CASE Boot
  <2>1. /\ paused' = pausedSet /\ UNCHANGED <<pausedSet, held, proc>>
        /\ \A o \in Operators : proc[o].pc = "idle"
    BY <1>0, <1>5 DEF Boot, LoadPaused, redis, CommandInv, Shaped
  <2> QED  BY <2>1 DEF PauseInv, Synced, Current, Kept
<1>6. CASE Next
  BY <1>0, <1>2, <1>3, <1>4, <1>5, <1>6, PauseOther, PauseNext, PauseUpdate DEF Next, Step, Begins
<1> QED  BY <1>1, <1>6

\* At the start no queue is paused.
LEMMA PauseInit == Init => PauseInv
<1> SUFFICES ASSUME Init PROVE PauseInv
  OBVIOUS
<1>1. /\ paused = {} /\ pausedSet = {} /\ held = {}
      /\ \A o \in Operators : proc[o].pc = "idle"
  BY DEF Init, IdleProc, Procs
<1> QED  BY <1>1 DEF PauseInv, Synced, Current, Kept

(***************************************************************************)
(* Pause and Resume of package manager update the set in the store and the *)
(* copy in the process one after the other, the copy without a lock.  As   *)
(* long as operators do not overlap, the two agree between commands,       *)
(* whatever names, errors and restarts there are (FLUSH excepted).         *)
(***************************************************************************)
THEOREM StoreAndMemoryAgree == ASSUME OneOperator PROVE Spec => []MemoryAgrees
<1>1. Init => CommandInv /\ PauseInv
  BY CommandInit, PauseInit
<1>2. CommandInv /\ PauseInv /\ [Next]_vars => CommandInv' /\ PauseInv'
  BY CommandStep, PauseStep
<1>3. CommandInv /\ PauseInv => MemoryAgrees
  BY DEF CommandInv, PauseInv, Synced, MemoryAgrees, Quiet
<1> QED  BY <1>1, <1>2, <1>3, PTL DEF Spec

(***************************************************************************)
(* Fetch of package manager leaves out a queue from the end of its Pause   *)
(* until a Resume begins, also when other queues are paused and resumed,   *)
(* when Redis commands fail and when the server is started again: for any  *)
(* number of queues and workers, with operators that do not overlap.       *)
(***************************************************************************)
THEOREM PausedQueuesAreLeftOut == ASSUME OneOperator PROVE Spec => PausedIsNotAsked
<1>1. Init => CommandInv /\ PauseInv
  BY CommandInit, PauseInit
<1>2. CommandInv /\ PauseInv /\ [Next]_vars => CommandInv' /\ PauseInv'
  BY CommandStep, PauseStep
<1>3. CommandInv /\ PauseInv /\ [Next]_vars =>
        [\A w \in Workers, qs \in Orders : Fetch(w, qs) =>
            \A a \in asks'[w] : a[2] \notin held]_vars
  <2> SUFFICES ASSUME CommandInv, PauseInv, NEW w \in Workers, NEW qs \in Orders, Fetch(w, qs),
                      NEW a \in asks'[w]
               PROVE  a[2] \notin held
    OBVIOUS
  <2>1. asks \in [Workers -> SUBSET (Nat \X Names)]
    BY DEF CommandInv, TypeOK
  <2>2. asks'[w] = filter(qs) /\ up
    BY <2>1 DEF Fetch
  <2>3. a[2] \notin paused
    BY <2>2 DEF filter
  <2> QED  BY <2>2, <2>3 DEF PauseInv, Kept
<1> QED  BY <1>1, <1>2, <1>3, PTL DEF Spec, PausedIsNotAsked

=============================================================================
