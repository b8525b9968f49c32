-------------------------------- MODULE Admin --------------------------------
(***************************************************************************)
(* Operators change the scheduled, retries and dead sets by hand: with the *)
(* MUTATE command (server/mutate.go) and on the pages of the Web UI        *)
(* (webui/helpers.go, actOn), while the scheduler moves due jobs to their  *)
(* queue and workers run them.                                             *)
(*                                                                         *)
(* One step is one Redis command, except that Remove's look-up of a score  *)
(* and its ZREM of the member it found are one (see rem in SortedSet).  An *)
(* entry can join a score in between in the dead set only, when several    *)
(* keys are killed at once: the model has it there before both.  Any       *)
(* command may fail.  Whether a job is due does not matter here: the clock *)
(* may have reached any entry.                                             *)
(* A worker's FETCH and its ACK or FAIL are one step; Manager has them in  *)
(* detail.                                                                 *)
(***************************************************************************)
EXTENDS Naturals, Sequences, FiniteSets, SortedSet

CONSTANTS
    Jobs,        \* jids; their order is the order of the members' bytes
    Admins,      \* requests that run at the same time
    Requests,    \* what they may ask for: a subset of AllRequests
    Place,       \* Place[j] is where job j is at first
    Score,       \* Score[j] is its score there
    Type,        \* Type[j] is its jobtype
    Filters,     \* the filters of MUTATE commands: a subset of AllFilters
    MaxKeys,     \* keys an operator selects on a page of the Web UI
    PageSize,    \* entries that Each reads at a time (50)
    MaxTries,    \* MaxTries[j] bounds the failures of job j
    MaxRequests, \* bound on the requests
    MaxFaults    \* bound on the crashes of the process and the Redis errors

SetNames == {"scheduled", "retries", "dead"}

\* On selected keys, on "all", and as a MUTATE command.
KeyRequests == {"delete", "retry", "kill"}
AllPages == {"retryall", "killall"}
Mutations == {"mkill", "mrequeue", "mdiscard"}
AllRequests == KeyRequests \cup AllPages \cup Mutations \cup {"clear"}

(***************************************************************************)
(* A JobFilter: each criterion may be missing.  regexp is the set of the   *)
(* jobs whose JSON matches the pattern; it and jobtype are 1-tuples.       *)
(***************************************************************************)
None == << >>
AllFilters == [regexp : {None} \cup {<<R>> : R \in SUBSET Jobs},
               jobtype : {None} \cup {<<Type[j]>> : j \in Jobs},
               jids : SUBSET Jobs]

ASSUME AdminAssumption ==
    /\ Jobs \subseteq Nat /\ IsFiniteSet(Jobs)
    /\ IsFiniteSet(Admins)
    /\ Requests \subseteq AllRequests
    /\ Place \in [Jobs -> SetNames]
    /\ Score \in [Jobs -> Nat]
    /\ \E j \in Jobs : \A i \in Jobs : Score[i] <= Score[j]
    /\ Filters \subseteq AllFilters
    /\ MaxKeys \in Nat
    /\ PageSize \in Nat \ {0}
    /\ MaxTries \in [Jobs -> Nat]
    /\ MaxRequests \in Nat
    /\ MaxFaults \in Nat

VARIABLES
    queue,    \* the jobs in their queue
    zset,     \* the three sorted sets
    clock,    \* the highest score so far: a new one is higher
    requests, \* requests so far
    admin,    \* per request: its progress
    sweep,    \* what the scheduler has removed and not yet enqueued
    faults,   \* crashes and errors so far
    requeued, \* history: how often MUTATE requeue has pushed a job
    settled,  \* history: the jobs that are done, purged or were to be deleted
    lost,     \* history: the jobs that a crash found between two structures, or that
              \*   were removed from one while the write to the next failed
    mixed     \* history: the jobs that Remove took in place of another, and these others

vars == <<queue, zset, clock, requests, admin, sweep, faults, requeued, settled, lost,
          mixed>>

history == <<requeued, settled, lost, mixed>>

\* A member is the JSON of a job at one attempt: a failure makes another one, with
\* the time of the retry in it (NextAt).
Attempt == [jid : Jobs, try : Nat, nextAt : Nat]
Entry == [jid : Jobs, try : Nat, nextAt : Nat, score : Nat]
AttemptOf(e) == [jid |-> e.jid, try |-> e.try, nextAt |-> e.nextAt]

EntryOf(v, s) == [jid |-> v.jid, try |-> v.try, nextAt |-> v.nextAt, score |-> s]
New(j) == [jid |-> j, try |-> 0, nextAt |-> 0]
Nothing == EntryOf(New(0), 0)

(***************************************************************************)
(* A request: what it does (op) to which set, where it is (pc), the keys   *)
(* or entries it still has to act on (todo), the one it is acting on (key) *)
(* and the entry it read or removed for it (hand), the score for the dead  *)
(* set (new), the position of Each and whether its page was full.          *)
(***************************************************************************)
IdleAdmin == [op |-> "clear", set |-> "dead", pc |-> "idle", todo |-> {},
              key |-> Nothing, hand |-> Nothing, new |-> 0,
              pos |-> 0, full |-> FALSE]
PcStates == {"idle", "page", "next", "rem", "zrem", "drop", "enqueue", "bury"}

Init ==
    /\ queue = << >>
    /\ zset = [s \in SetNames |->
                 {EntryOf(New(j), Score[j]) : j \in {i \in Jobs : Place[i] = s}}]
    /\ clock = CHOOSE n \in {Score[j] : j \in Jobs} : \A j \in Jobs : Score[j] <= n
    /\ requests = 0
    /\ admin = [a \in Admins |-> IdleAdmin]
    /\ sweep = {}
    /\ faults = 0
    /\ requeued = [j \in Jobs |-> 0]
    /\ settled = {}
    /\ lost = {}
    /\ mixed = {}

-----------------------------------------------------------------------------
(* The scheduler and the workers *)

\* A due job leaves its set ...
SweepRemove(s, e) ==
    /\ sweep = {}
    /\ s \in {"scheduled", "retries"}
    /\ e \in zset[s]
    /\ zset' = [zset EXCEPT ![s] = @ \ {e}]
    /\ sweep' = {AttemptOf(e)}
    /\ UNCHANGED <<queue, clock, requests, admin, faults, history>>

\* ... and enters its queue.
SweepEnqueue ==
    /\ \E v \in sweep : queue' = Append(queue, v)
    /\ sweep' = {}
    /\ UNCHANGED <<zset, clock, requests, admin, faults, history>>

\* A dead job that is old enough is purged.
Purge(e) ==
    /\ e \in zset["dead"]
    /\ zset' = [zset EXCEPT !["dead"] = @ \ {e}]
    /\ settled' = settled \cup {e.jid}
    /\ UNCHANGED <<queue, clock, requests, admin, sweep, faults, requeued, lost, mixed>>

\* A worker runs the oldest job: it is done, or is to be retried later.
Work ==
    LET v == Head(queue) IN
    /\ queue # << >>
    /\ queue' = Tail(queue)
    /\ \/ /\ settled' = settled \cup {v.jid}
          /\ UNCHANGED <<zset, clock>>
       \/ /\ v.try < MaxTries[v.jid]
          /\ clock' = clock + 1
          /\ zset' = [zset EXCEPT !["retries"] =
                        AddElement(@, [jid |-> v.jid, try |-> v.try + 1,
                                       nextAt |-> clock + 1, score |-> clock + 1])]
          /\ UNCHANGED settled
    /\ UNCHANGED <<requests, admin, sweep, faults, requeued, lost, mixed>>

-----------------------------------------------------------------------------
(* Requests *)

\* Requests that throw the jobs they name away.
Deletes == {"delete", "mdiscard", "clear"}

OfRegexp(f) == {j \in Jobs : f.regexp # None => j \in f.regexp[1]}
OfType(f) == {j \in Jobs : f.jobtype # None => Type[j] = f.jobtype[1]}
OfJids(f) == {j \in Jobs : f.jids # {} => j \in f.jids}

\* The jobs a filter stands for in matchForFilter: the jids count only when
\* there is neither a pattern nor a jobtype.
matchForFilter(f) ==
    CASE f.regexp # None -> OfRegexp(f) \cap OfType(f)
      [] f.regexp = None /\ f.jobtype # None -> OfType(f)
      [] OTHER -> OfJids(f)

\* A request on some of a set's entries begins.  A kill on the Web UI takes the
\* time of death once for all its keys.
Begin(a, op, s, T) ==
    /\ admin[a].pc = "idle"
    /\ requests < MaxRequests
    /\ requests' = requests + 1
    /\ T # {}
    /\ admin' = [admin EXCEPT ![a] =
                   [IdleAdmin EXCEPT !.op = op, !.set = s, !.todo = T,
                                     !.new = IF op = "kill" THEN clock + 1 ELSE 0,
                                     !.pc = IF op \in AllPages THEN "page" ELSE "next"]]
    /\ clock' = IF op = "kill" THEN clock + 1 ELSE clock
    /\ settled' = IF op \in Deletes THEN settled \cup {e.jid : e \in T} ELSE settled
    /\ UNCHANGED <<queue, zset, sweep, faults, requeued, lost, mixed>>

\* Keys that an operator has selected on a page, or all of it.
AskUi(a, op, s) ==
    \E T \in SUBSET zset[s] :
        /\ op \in KeyRequests => Cardinality(T) <= MaxKeys
        /\ op \in AllPages => T = zset[s]
        /\ Begin(a, op, s, T)

\* What Find returns of the set; the sets are smaller than a page of ZSCAN.
AskMutate(a, op, s, f) ==
    Begin(a, op, s, {e \in zset[s] : e.jid \in matchForFilter(f)})

\* MUTATE clear, discard without a filter and "delete all": UNLINK.
Clear(s) ==
    /\ "clear" \in Requests
    /\ requests < MaxRequests
    /\ requests' = requests + 1
    /\ settled' = settled \cup {e.jid : e \in zset[s]}
    /\ zset' = [zset EXCEPT ![s] = {}]
    /\ UNCHANGED <<queue, clock, admin, sweep, faults, requeued, lost, mixed>>

-----------------------------------------------------------------------------
(* The steps of a request *)

\* Request a is done with e, or goes on with it at p.
Done(a, e) == admin' = [admin EXCEPT ![a].todo = @ \ {e}, ![a].pc = "next",
                                     ![a].key = Nothing, ![a].hand = Nothing]
Goto(a, p, e, h) == admin' = [admin EXCEPT ![a].todo = @ \ {e}, ![a].pc = p,
                                           ![a].key = e, ![a].hand = h]

\* Request a takes up e.
Acts(a, ops, e) == /\ admin[a].pc = "next"
                   /\ admin[a].op \in ops
                   /\ e \in admin[a].todo

\* Fault: everything at the key's score is removed.
NamedAtScore(S, k) == getScore(S, k.score)

\* Redis finds a member by its score (Get and Remove of a key) or by its bytes.
Named(S, k) == rem(S, k.score, k.jid, TRUE)
Same(S, v) == {x \in S : AttemptOf(x) = AttemptOf(v)}

\* The jobs that are mistaken for each other when Remove finds F for h.
Mistaken(F, h) ==
    UNION {{f.jid, h.jid} : f \in {x \in F : AttemptOf(x) # AttemptOf(h)}}

\* Fault: SET instead of ZADD.
ZaddReplaces(S, e) == {e}

\* ZADD of a member that is in the set changes its score.
Zadd(S, e) == (S \ Same(S, e)) \cup {e}

\* Each reads the entries pos .. pos + PageSize - 1 in the order of the set.
Before(e, f) == \/ e.score < f.score
                \/ e.score = f.score /\ e.jid < f.jid
Rank(S, e) == Cardinality({f \in S : Before(f, e)})
PageAt(S, pos) == {e \in S : Rank(S, e) \in pos .. (pos + PageSize - 1)}

Page(a) ==
    LET B == PageAt(zset[admin[a].set], admin[a].pos) IN
    /\ admin[a].pc = "page"
    /\ admin' = [admin EXCEPT ![a].pc = "next", ![a].todo = B,
                              ![a].full = Cardinality(B) = PageSize]
    /\ UNCHANGED <<queue, zset, clock, requests, sweep, faults, history>>

\* The end of a page, and of a request.
Finish(a) ==
    /\ admin[a].pc = "next"
    /\ admin[a].todo = {}
    /\ admin' = [admin EXCEPT ![a] =
                   IF admin[a].op \in AllPages /\ admin[a].full
                   THEN [admin[a] EXCEPT !.pc = "page", !.pos = admin[a].pos + PageSize]
                   ELSE IdleAdmin]
    /\ UNCHANGED <<queue, zset, clock, requests, sweep, faults, history>>

\* "delete": Remove; MUTATE discard: RemoveEntry.
Delete(a, e) ==
    LET s == admin[a].set
        found == IF admin[a].op = "delete" THEN Named(zset[s], e) ELSE Same(zset[s], e)
    IN
    /\ Acts(a, {"delete", "mdiscard"}, e)
    /\ zset' = [zset EXCEPT ![s] = @ \ found]
    /\ mixed' = mixed \cup Mistaken(found, e)
    /\ Done(a, e)
    /\ UNCHANGED <<queue, clock, requests, sweep, faults, requeued, settled, lost>>

\* "retry" and "kill" of a key: Get; a key that is gone is skipped.
Get(a, e) ==
    LET found == Named(zset[admin[a].set], e) IN
    /\ Acts(a, {"retry", "kill"}, e)
    /\ \/ \E h \in found : Goto(a, IF admin[a].op = "retry" THEN "rem" ELSE "zrem", e, h)
       \/ found = {} /\ Done(a, e)
    /\ UNCHANGED <<queue, zset, clock, requests, sweep, faults, history>>

\* Fault: the job is enqueued whether or not it was still there to remove.
EnqueueFromBlind(a) ==
    LET k == admin[a].key
        s == admin[a].set
    IN
    /\ admin[a].pc = "rem"
    /\ zset' = [zset EXCEPT ![s] = @ \ Named(@, k)]
    /\ Goto(a, "enqueue", k, admin[a].hand)
    /\ UNCHANGED <<queue, clock, requests, sweep, faults, history>>

\* EnqueueFrom goes on with Remove(key), and stops when nothing was removed.
EnqueueFrom(a) ==
    LET k == admin[a].key
        s == admin[a].set
        found == Named(zset[s], k)
    IN
    /\ admin[a].pc = "rem"
    /\ zset' = [zset EXCEPT ![s] = @ \ found]
    /\ mixed' = mixed \cup Mistaken(found, admin[a].hand)
    /\ IF found # {} THEN Goto(a, "enqueue", k, admin[a].hand) ELSE Done(a, k)
    /\ UNCHANGED <<queue, clock, requests, sweep, faults, requeued, settled, lost>>

\* EnqueueAll removes each entry that Each gives it by its key.  actOn calls it
\* for "retry all", and for "kill all" as well.
EnqueueAll(a, e) ==
    LET s == admin[a].set
        found == Named(zset[s], e)
    IN
    /\ Acts(a, AllPages, e)
    /\ zset' = [zset EXCEPT ![s] = @ \ found]
    /\ mixed' = mixed \cup Mistaken(found, e)
    /\ IF found # {} THEN Goto(a, "enqueue", e, e) ELSE Done(a, e)
    /\ UNCHANGED <<queue, clock, requests, sweep, faults, requeued, settled, lost>>

\* q.Add(job)
Add(a) ==
    /\ admin[a].pc = "enqueue"
    /\ queue' = Append(queue, AttemptOf(admin[a].hand))
    /\ Done(a, admin[a].key)
    /\ UNCHANGED <<zset, clock, requests, sweep, faults, history>>

\* MoveTo: ZREM of the member, which may have gone in the meantime ...
MoveTo(a, e, h) ==
    LET s == admin[a].set
        found == Same(zset[s], h)
    IN
    /\ \/ Acts(a, {"mkill"}, e) /\ h = e
       \/ admin[a].pc = "zrem" /\ admin[a].op = "kill" /\ e = admin[a].key /\ h = admin[a].hand
    /\ zset' = [zset EXCEPT ![s] = @ \ found]
    /\ IF found # {} THEN Goto(a, "bury", e, h) ELSE Done(a, e)
    /\ UNCHANGED <<queue, clock, requests, sweep, faults, history>>

\* ... and ZADD to the dead set, for MUTATE at a time of its own.
Bury(a) ==
    LET fresh == admin[a].op = "mkill"
        new == IF fresh THEN clock + 1 ELSE admin[a].new
    IN
    /\ admin[a].pc = "bury"
    /\ zset' = [zset EXCEPT !["dead"] = Zadd(@, EntryOf(admin[a].hand, new))]
    /\ clock' = IF fresh THEN new ELSE clock
    /\ Done(a, admin[a].key)
    /\ UNCHANGED <<queue, requests, sweep, faults, history>>

\* MUTATE requeue: LPUSH of what Find returned ...
Requeue(a, e) ==
    /\ Acts(a, {"mrequeue"}, e)
    /\ queue' = Append(queue, AttemptOf(e))
    /\ requeued' = [requeued EXCEPT ![e.jid] = @ + 1]
    /\ Goto(a, "zrem", e, e)
    /\ UNCHANGED <<zset, clock, requests, sweep, faults, settled, lost, mixed>>

\* ... and then RemoveEntry.
RequeueRemove(a) ==
    LET s == admin[a].set
        found == Same(zset[s], admin[a].hand)
    IN
    /\ admin[a].pc \in {"zrem", "drop"}
    /\ admin[a].op = "mrequeue"
    /\ zset' = [zset EXCEPT ![s] = @ \ found]
    /\ lost' = IF admin[a].pc = "drop" /\ found # {}
               THEN lost \cup {admin[a].hand.jid} ELSE lost
    /\ Done(a, admin[a].key)
    /\ UNCHANGED <<queue, clock, requests, sweep, faults, requeued, settled, mixed>>

-----------------------------------------------------------------------------
(* A Redis command fails, and has not been executed *)

Fault == faults < MaxFaults /\ faults' = faults + 1

\* Push ignores the error of LPUSH: the request goes on as if the job were in its
\* queue.  The scheduler's Push is the same one.
AddFails(a) ==
    /\ Fault
    /\ admin[a].pc = "enqueue"
    /\ lost' = lost \cup {admin[a].hand.jid}
    /\ Done(a, admin[a].key)
    /\ UNCHANGED <<queue, zset, clock, requests, sweep, requeued, settled, mixed>>

SweepFails ==
    /\ Fault
    /\ sweep # {}
    /\ lost' = lost \cup {v.jid : v \in sweep}
    /\ sweep' = {}
    /\ UNCHANGED <<queue, zset, clock, requests, admin, requeued, settled, mixed>>

\* MUTATE requeue removes the entry that it has not pushed.
RequeueFails(a, e) ==
    /\ Fault
    /\ Acts(a, {"mrequeue"}, e)
    /\ Goto(a, "drop", e, e)
    /\ UNCHANGED <<queue, zset, clock, requests, sweep, history>>

\* Every other error is returned: it ends the request, for the rest of its keys
\* too.  When it is the ZADD of MoveTo that failed, the job is in no set any more.
Stop(a) ==
    /\ Fault
    /\ admin[a].pc \in PcStates \ {"idle", "enqueue"}
    /\ admin[a].pc = "next" => admin[a].todo # {}
    /\ lost' = IF admin[a].pc = "bury" THEN lost \cup {admin[a].hand.jid} ELSE lost
    /\ admin' = [admin EXCEPT ![a] = IdleAdmin]
    /\ UNCHANGED <<queue, zset, clock, requests, sweep, requeued, settled, mixed>>

-----------------------------------------------------------------------------
\* A job that was removed from a set and is not yet in the next.
Carries(a, j) == admin[a].pc \in {"enqueue", "bury"} /\ admin[a].hand.jid = j
Swept(j) == \E v \in sweep : v.jid = j

\* The process dies with what it carries.
Crash ==
    /\ Fault
    /\ admin' = [a \in Admins |-> IdleAdmin]
    /\ sweep' = {}
    /\ lost' = lost \cup {j \in Jobs : Swept(j) \/ \E a \in Admins : Carries(a, j)}
    /\ UNCHANGED <<queue, zset, clock, requests, requeued, settled, mixed>>

AdminStep(a) ==
    \/ Page(a)
    \/ Finish(a)
    \/ \E e \in admin[a].todo : Delete(a, e) \/ Get(a, e) \/ EnqueueAll(a, e)
                                  \/ MoveTo(a, e, e) \/ Requeue(a, e) \/ RequeueFails(a, e)
    \/ EnqueueFrom(a)
    \/ Add(a)
    \/ MoveTo(a, admin[a].key, admin[a].hand)
    \/ Bury(a)
    \/ RequeueRemove(a)
    \/ AddFails(a)
    \/ Stop(a)

Next ==
    \/ \E s \in SetNames : \E e \in zset[s] : SweepRemove(s, e)
    \/ SweepEnqueue
    \/ SweepFails
    \/ \E e \in zset["dead"] : Purge(e)
    \/ Work
    \/ \E a \in Admins, s \in SetNames :
         \/ \E op \in Requests \cap (KeyRequests \cup AllPages) : AskUi(a, op, s)
         \/ \E op \in Requests \cap Mutations, f \in Filters : AskMutate(a, op, s, f)
    \/ \E a \in Admins : AdminStep(a)
    \/ \E s \in SetNames : Clear(s)
    \/ Crash

Spec == Init /\ [][Next]_vars

-----------------------------------------------------------------------------
(* Properties *)

Request == [op : AllRequests, set : SetNames, pc : PcStates, todo : SUBSET Entry,
            key : Entry \cup {Nothing}, hand : Entry \cup {Nothing}, new : Nat,
            pos : Nat, full : BOOLEAN]

TypeOK ==
    /\ queue \in Seq(Attempt)
    /\ zset \in [SetNames -> SUBSET Entry]
    /\ clock \in Nat
    /\ requests \in Nat
    /\ admin \in [Admins -> Request]
    /\ sweep \in SUBSET Attempt
    /\ faults \in Nat
    /\ requeued \in [Jobs -> Nat]
    /\ settled \subseteq Jobs
    /\ lost \subseteq Jobs
    /\ mixed \subseteq Jobs

\* How often a job is in the system.
Of(S, j) == {e \in S : e.jid = j}
Waiting(j) == {i \in 1..Len(queue) : queue[i].jid = j}
Carrying(j) == {a \in Admins : Carries(a, j)}
Copies(j) ==
    Cardinality(Waiting(j)) + Cardinality(Of(zset["scheduled"], j))
    + Cardinality(Of(zset["retries"], j)) + Cardinality(Of(zset["dead"], j))
    + Cardinality(Carrying(j)) + (IF Swept(j) THEN 1 ELSE 0)

(***************************************************************************)
(* Operators, the scheduler and the workers may reach for the same job at  *)
(* the same time, with pages that are out of date, and any Redis command   *)
(* may fail: a job is still moved by one of them only, and never doubled,  *)
(* except in two cases.  MUTATE requeue pushes a job before it removes it, *)
(* and each push may add one copy.  And when Remove finds another job at   *)
(* the score of a key that has gone, EnqueueFrom and EnqueueAll push the   *)
(* job of the key, which has been moved already.  (With the types of the   *)
(* state.)                                                                 *)
(***************************************************************************)
NoCopies == TypeOK /\ \A j \in Jobs \ mixed : Copies(j) <= 1 + requeued[j]

(***************************************************************************)
(* A job that did not run to its end and that nobody asked to delete is    *)
(* somewhere, whatever fails in whatever order, unless it was lost between *)
(* two structures (by a crash, or by an LPUSH or ZADD that failed after    *)
(* the job was removed) or removed in place of another one of its score.   *)
(***************************************************************************)
NoLoss == \A j \in Jobs \ (settled \cup lost \cup mixed) : Copies(j) >= 1

\* e is the only entry at the score of key k, whose own entry has gone.
StandsFor(S, e, k) == getScore(S, k.score) = {e}

(***************************************************************************)
(* What a request takes out of a set is named by its keys, also when the   *)
(* page they were selected on is out of date: it is the job of a key, or   *)
(* the only one left at the score of a key whose job has gone - now, or    *)
(* when Get looked the key up.                                             *)
(***************************************************************************)
OnlyNamed ==
    [][\A a \in Admins : admin[a].pc # "idle" /\ AdminStep(a) =>
          \A s \in SetNames : \A e \in zset[s] \ zset'[s] :
             \E k \in admin[a].todo \cup {admin[a].key} :
                \/ e.jid = k.jid
                \/ StandsFor(zset[s], e, k)
                \/ AttemptOf(e) = AttemptOf(admin[a].hand) /\ admin[a].hand.score = k.score]_vars

=============================================================================
