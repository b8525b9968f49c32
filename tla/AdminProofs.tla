----------------------------- MODULE AdminProofs -----------------------------
(***************************************************************************)
(* Proofs about Admin, for every number of jobs, of requests at the same   *)
(* time, of failures, errors and crashes, every page size, all filters and *)
(* any scores, shared or not.                                              *)
(***************************************************************************)
EXTENDS Admin, FiniteSetTheorems, TLAPS

-----------------------------------------------------------------------------
(* The inductive invariant *)

\* A request that is in the middle of acting on a key.
BusyStates == {"rem", "zrem", "drop", "enqueue", "bury"}
Busy(a) == admin[a].pc \in BusyStates

\* A request acts on an entry at the score of its key, and the jobs of a request
\* that deletes were to be deleted.
RequestInv ==
    \A a \in Admins :
        /\ Busy(a) => /\ admin[a].key \in Entry /\ admin[a].hand \in Entry
                      /\ admin[a].hand.score = admin[a].key.score
        /\ admin[a].op \in {"delete", "mdiscard"} => \A e \in admin[a].todo : e.jid \in settled
        /\ admin[a].pc = "page" => admin[a].op \in AllPages

\* The scheduler has one job in hand at most.
SweepInv == sweep = {} \/ \E v \in Attempt : sweep = {v}

FiniteInv == \A s \in SetNames : IsFiniteSet(zset[s])

\* The attempt a request has taken out of a set, if any.
HandOf(a) == IF admin[a].pc \in {"enqueue", "bury"} THEN {AttemptOf(admin[a].hand)} ELSE {}

\* An attempt is in the queue, in a set or in somebody's hands.
InQueue(w) == \E i \in 1..Len(queue) : queue[i] = w
InSets(w) == \E s \in SetNames : \E e \in zset[s] : AttemptOf(e) = w
InHands(w) == w \in sweep \/ \E a \in Admins : w \in HandOf(a)
Somewhere(w) == InQueue(w) \/ InSets(w) \/ InHands(w)

\* The jobs that may be gone.
Gone == settled \cup lost \cup mixed

\* Job j may be gone, or is there at its attempt t or a later one.
Safe(j, t) == \/ j \in Gone
              \/ \E w \in Attempt : w.jid = j /\ w.try >= t /\ Somewhere(w)

(***************************************************************************)
(* MUTATE requeue has pushed what it is about to remove: this attempt is   *)
(* in the queue still, or a worker has run it since and there is a later   *)
(* one.                                                                    *)
(***************************************************************************)
Requeueing(a) == admin[a].pc = "zrem" /\ admin[a].op = "mrequeue"
PushedInv ==
    \A a \in Admins : Requeueing(a) =>
        LET v == AttemptOf(admin[a].hand) IN InQueue(v) \/ Safe(v.jid, v.try + 1)

KeptInv == \A j \in Jobs : Safe(j, 0)
CopiesInv == \A j \in Jobs \ mixed : Copies(j) <= 1 + requeued[j]

\* Everything but what happens to the copies of a job.
BaseInv == TypeOK /\ RequestInv /\ SweepInv /\ FiniteInv

AdminInv == BaseInv /\ PushedInv /\ KeptInv /\ CopiesInv

-----------------------------------------------------------------------------
(* Requests *)

\* The record of a request, and attempts and entries of one another.
LEMMA Types ==
    /\ IdleAdmin \in Request
    /\ \A e \in Entry : AttemptOf(e) \in Attempt /\ AttemptOf(e).jid = e.jid
                        /\ AttemptOf(e).try = e.try /\ e.jid \in Jobs /\ e.score \in Nat
    /\ \A e \in Entry, n \in Nat : /\ EntryOf(e, n) \in Entry
                                   /\ EntryOf(e, n).jid = e.jid /\ EntryOf(e, n).score = n
                                   /\ AttemptOf(EntryOf(e, n)) = AttemptOf(e)
<1>1. IdleAdmin \in Request
  BY DEF IdleAdmin, Request, AllRequests, SetNames, PcStates
<1> QED
  BY <1>1 DEF Attempt, Entry, AttemptOf, EntryOf

\* Request a is now at p with T to do, the key k and h in hand.
Moved(a, p, T, k, h) ==
    /\ admin' \in [Admins -> Request]
    /\ admin'[a].op = admin[a].op /\ admin'[a].set = admin[a].set
    /\ admin'[a].pc = p /\ admin'[a].todo = T
    /\ admin'[a].key = k /\ admin'[a].hand = h
    /\ \A b \in Admins : b # a => admin'[b] = admin[b]

\* What Goto and Done do.
LEMMA GotoMoves ==
    ASSUME admin \in [Admins -> Request], NEW a \in Admins, NEW p \in PcStates,
           NEW e, NEW h \in Entry, e \in Entry, Goto(a, p, e, h)
    PROVE  Moved(a, p, admin[a].todo \ {e}, e, h)
<1>1. PICK r : r = [admin[a] EXCEPT !.todo = admin[a].todo \ {e}, !.pc = p, !.key = e, !.hand = h]
  OBVIOUS
<1>2. admin[a] \in Request
  OBVIOUS
<1>3. /\ r \in Request
      /\ r.op = admin[a].op /\ r.set = admin[a].set
      /\ r.pc = p /\ r.todo = admin[a].todo \ {e} /\ r.key = e /\ r.hand = h
  BY <1>1, <1>2 DEF Request
<1>4. admin' = [admin EXCEPT ![a] = r]
  BY <1>1 DEF Goto
<1> QED
  BY <1>3, <1>4 DEF Moved

\* Done moves the request on, with nothing in hand.
LEMMA DoneMoves ==
    ASSUME admin \in [Admins -> Request], NEW a \in Admins, NEW e, Done(a, e)
    PROVE  Moved(a, "next", admin[a].todo \ {e}, Nothing, Nothing)
<1>1. PICK r : r = [admin[a] EXCEPT !.todo = admin[a].todo \ {e}, !.pc = "next",
                                    !.key = Nothing, !.hand = Nothing]
  OBVIOUS
<1>2. admin[a] \in Request
  OBVIOUS
<1>3. /\ r \in Request
      /\ r.op = admin[a].op /\ r.set = admin[a].set
      /\ r.pc = "next" /\ r.todo = admin[a].todo \ {e} /\ r.key = Nothing /\ r.hand = Nothing
  BY <1>1, <1>2 DEF Request, PcStates
<1>4. admin' = [admin EXCEPT ![a] = r]
  BY <1>1 DEF Done
<1> QED
  BY <1>3, <1>4 DEF Moved

\* No request begins to requeue an entry.
NoneRequeues == \A b \in Admins : Requeueing(b)' => Requeueing(b) /\ admin'[b].hand = admin[b].hand

\* The entries in F leave set s, and no other set changes.
Taken(s, F) == /\ zset' \in [SetNames -> SUBSET Entry]
               /\ zset'[s] = zset[s] \ F
               /\ \A t \in SetNames : t # s => zset'[t] = zset[t]

\* An update of one set.
LEMMA SetChanges ==
    ASSUME zset \in [SetNames -> SUBSET Entry], NEW s \in SetNames, NEW S \in SUBSET Entry,
           zset' = [zset EXCEPT ![s] = S]
    PROVE  /\ zset' \in [SetNames -> SUBSET Entry]
           /\ zset'[s] = S
           /\ \A t \in SetNames : t # s => zset'[t] = zset[t]
OBVIOUS

\* Taking entries out of one set leaves the others.
LEMMA TakenIs ==
    ASSUME zset \in [SetNames -> SUBSET Entry], NEW s \in SetNames, NEW F,
           zset' = [zset EXCEPT ![s] = zset[s] \ F]
    PROVE  Taken(s, F)
<1>1. zset[s] \ F \in SUBSET Entry
  OBVIOUS
<1> QED
  BY <1>1, SetChanges DEF Taken

\* An entry that Named finds in S for key k is at its score, and is an entry of the
\* key's job or the only one there.
Finds(S, x, k) == /\ x \in S /\ x.score = k.score
                  /\ x.jid = k.jid \/ StandsFor(S, x, k)

\* What Redis finds for a key.
LEMMA NamedFinds ==
    ASSUME NEW S, IsFiniteSet(S), NEW k
    PROVE  \A x \in Named(S, k) : Finds(S, x, k)
<1> DEFINE at == getScore(S, k.score)
<1>1. \A x \in at : x \in S /\ x.score = k.score
  BY DEF getScore
<1>2. CASE Cardinality(at) = 1
  <2>1. IsFiniteSet(at)
    BY FS_Subset DEF getScore
  <2>2. PICK x : at = {x}
    BY <2>1, <1>2, FS_Singleton
  <2>3. Named(S, k) = {x}
    BY <2>2, <1>2 DEF Named, rem
  <2> QED
    BY <2>2, <2>3, <1>1 DEF Finds, StandsFor
<1>3. CASE Cardinality(at) # 1
  <2>1. Named(S, k) = {e \in at : e.jid = k.jid}
    BY <1>3 DEF Named, rem
  <2> QED
    BY <2>1, <1>1 DEF Finds
<1> QED
  BY <1>2, <1>3

\* What Remove takes in place of h is counted as mixed.
LEMMA MistakenAre ==
    ASSUME NEW F, NEW h
    PROVE  /\ \A x \in F : AttemptOf(x) = AttemptOf(h) \/ {x.jid, h.jid} \subseteq Mistaken(F, h)
           /\ F \subseteq Entry /\ h \in Entry => Mistaken(F, h) \subseteq Jobs
<1>1. \A x \in F : AttemptOf(x) = AttemptOf(h) \/ {x.jid, h.jid} \subseteq Mistaken(F, h)
  BY DEF Mistaken
<1>2. ASSUME F \subseteq Entry, h \in Entry PROVE Mistaken(F, h) \subseteq Jobs
  BY <1>2, Types DEF Mistaken
<1> QED
  BY <1>1, <1>2

\* A request that goes on as Moved says keeps what is known of requests.
LEMMA MovedRequests ==
    ASSUME RequestInv, NEW a \in Admins, NEW p, NEW T, NEW k, NEW h, Moved(a, p, T, k, h),
           T \subseteq admin[a].todo, settled \subseteq settled',
           p \in BusyStates => k \in Entry /\ h \in Entry /\ h.score = k.score, p # "page"
    PROVE  RequestInv'
<1> SUFFICES ASSUME NEW b \in Admins
             PROVE  /\ Busy(b)' => /\ admin'[b].key \in Entry /\ admin'[b].hand \in Entry
                                   /\ admin'[b].hand.score = admin'[b].key.score
                    /\ admin'[b].op \in {"delete", "mdiscard"} =>
                          \A e \in admin'[b].todo : e.jid \in settled'
                    /\ admin'[b].pc = "page" => admin'[b].op \in AllPages
  BY DEF RequestInv
<1>1. CASE b # a
  BY <1>1 DEF Moved, RequestInv, Busy
<1>2. CASE b = a
  BY <1>2 DEF Moved, RequestInv, Busy
<1> QED
  BY <1>1, <1>2

-----------------------------------------------------------------------------
(* The steps of a request *)

\* A set that loses entries stays finite.
LEMMA TakenFinite ==
    ASSUME FiniteInv, NEW s \in SetNames, NEW F, Taken(s, F)
    PROVE  FiniteInv'
<1> SUFFICES ASSUME NEW t \in SetNames PROVE IsFiniteSet(zset'[t])
  BY DEF FiniteInv
<1>1. zset'[t] \subseteq zset[t]
  BY DEF Taken
<1> QED
  BY <1>1, FS_Subset DEF FiniteInv

\* Taking nothing changes nothing.
LEMMA NothingTaken ==
    ASSUME TypeOK, UNCHANGED zset, NEW s \in SetNames
    PROVE  Taken(s, {})
BY DEF Taken, TypeOK

\* A request takes entries out of one set at most, and goes on with a key.
LEMMA StepBase ==
    ASSUME BaseInv, NEW a \in Admins, NEW p, NEW T, NEW k, NEW h, Moved(a, p, T, k, h),
           T \subseteq admin[a].todo,
           p \in BusyStates => k \in Entry /\ h \in Entry /\ h.score = k.score, p # "page",
           NEW s \in SetNames, NEW F, Taken(s, F),
           queue' \in Seq(Attempt), requeued' \in [Jobs -> Nat], faults' \in Nat,
           lost' \subseteq Jobs, mixed' \subseteq Jobs,
           UNCHANGED <<clock, requests, sweep, settled>>
    PROVE  BaseInv'
<1>1. TypeOK /\ RequestInv /\ SweepInv /\ FiniteInv
  BY DEF BaseInv
<1>2. TypeOK'
  BY <1>1 DEF TypeOK, Moved, Taken
<1>4. RequestInv'
  BY <1>1, MovedRequests
<1>5. FiniteInv'
  BY <1>1, TakenFinite
<1>7. SweepInv'
  BY <1>1 DEF SweepInv
<1> QED
  BY <1>2, <1>4, <1>5, <1>7 DEF BaseInv

\* Where a request's hand is after a move.
LEMMA MovedHands ==
    ASSUME NEW a \in Admins, NEW p, NEW T, NEW k, NEW h, Moved(a, p, T, k, h)
    PROVE  /\ \A b \in Admins : b # a => HandOf(b)' = HandOf(b)
           /\ HandOf(a)' = IF p \in {"enqueue", "bury"} THEN {AttemptOf(h)} ELSE {}
           /\ (p # "zrem" \/ admin[a].op # "mrequeue") => NoneRequeues
<1>1. /\ \A b \in Admins : b # a => HandOf(b)' = HandOf(b)
      /\ HandOf(a)' = IF p \in {"enqueue", "bury"} THEN {AttemptOf(h)} ELSE {}
  BY DEF Moved, HandOf, AttemptOf
<1>2. (p # "zrem" \/ admin[a].op # "mrequeue") => NoneRequeues
  BY DEF Moved, NoneRequeues, Requeueing
<1> QED
  BY <1>1, <1>2

\* What the steps do to the places a job can be at.  Nothing is put anywhere:
Leaves(s, F) ==
    /\ Taken(s, F)
    /\ UNCHANGED <<queue, sweep>>
    /\ Gone \subseteq Gone' /\ mixed \subseteq mixed'
    /\ \A b \in Admins : HandOf(b)' = HandOf(b)

\* request a takes w out of a set, or another attempt in its place,
Lifts(s, F, a, w) ==
    /\ Taken(s, F)
    /\ F # {}
    /\ \A e \in F : e \in zset[s] /\ (AttemptOf(e) = w \/ {e.jid, w.jid} \subseteq mixed')
    /\ UNCHANGED <<queue, sweep, lost, settled, requeued>>
    /\ mixed \subseteq mixed'
    /\ HandOf(a) = {} /\ HandOf(a)' = {w}
    /\ \A b \in Admins : b # a => HandOf(b)' = HandOf(b)

\* and puts it into its queue,
Pushes(a, w) ==
    /\ UNCHANGED <<zset, sweep, lost, settled, requeued, mixed>>
    /\ queue' = Append(queue, w)
    /\ HandOf(a) = {w} /\ HandOf(a)' = {}
    /\ \A b \in Admins : b # a => HandOf(b)' = HandOf(b)

\* or into the dead set, where it may be already.
Buries(a, w) ==
    /\ UNCHANGED <<queue, sweep, lost, settled, requeued, mixed>>
    /\ zset' \in [SetNames -> SUBSET Entry]
    /\ \A t \in SetNames : t # "dead" => zset'[t] = zset[t]
    /\ \E x \in Entry : /\ AttemptOf(x) = w
                        /\ zset'["dead"] = (zset["dead"] \ Same(zset["dead"], x)) \cup {x}
    /\ HandOf(a) = {w} /\ HandOf(a)' = {}
    /\ \A b \in Admins : b # a => HandOf(b)' = HandOf(b)

\* What a crash or an error finds in somebody's hands is lost.
Drops ==
    /\ UNCHANGED <<queue, zset, settled, requeued, mixed>>
    /\ sweep' \subseteq sweep /\ \A b \in Admins : HandOf(b)' \subseteq HandOf(b)
    /\ lost \subseteq lost'
    /\ \A w \in sweep \ sweep' : w.jid \in lost'
    /\ \A b \in Admins : \A w \in HandOf(b) \ HandOf(b)' : w.jid \in lost'

\* The state of a request, for the steps below.
LEMMA RequestFacts ==
    ASSUME BaseInv, NEW a \in Admins
    PROVE  /\ admin \in [Admins -> Request] /\ zset \in [SetNames -> SUBSET Entry]
           /\ queue \in Seq(Attempt) /\ requeued \in [Jobs -> Nat]
           /\ lost \subseteq Jobs /\ mixed \subseteq Jobs /\ settled \subseteq Jobs /\ faults \in Nat
           /\ admin[a] \in Request
           /\ admin[a].set \in SetNames /\ admin[a].todo \subseteq Entry /\ admin[a].new \in Nat
           /\ Busy(a) => /\ admin[a].key \in Entry /\ admin[a].hand \in Entry
                         /\ admin[a].hand.score = admin[a].key.score
           /\ \A s \in SetNames : IsFiniteSet(zset[s]) /\ zset[s] \subseteq Entry
           /\ TypeOK /\ RequestInv
<1>1. admin[a] \in Request
  BY DEF BaseInv, TypeOK
<1> QED
  BY <1>1 DEF BaseInv, TypeOK, Request, RequestInv, FiniteInv

\* A request takes only what a key of it names out of the sets.
TakesNamed(a) ==
    \A s \in SetNames : \A e \in zset[s] \ zset'[s] :
       \E k \in admin[a].todo \cup {admin[a].key} :
          \/ e.jid = k.jid
          \/ StandsFor(zset[s], e, k)
          \/ AttemptOf(e) = AttemptOf(admin[a].hand) /\ admin[a].hand.score = k.score

\* Namely what Redis finds for a key,
LEMMA FoundIsNamed ==
    ASSUME NEW a \in Admins, NEW s \in SetNames, NEW F, Taken(s, F),
           NEW k \in admin[a].todo \cup {admin[a].key}, \A x \in F : Finds(zset[s], x, k)
    PROVE  TakesNamed(a)
<1> SUFFICES ASSUME NEW t \in SetNames, NEW e \in zset[t] \ zset'[t]
             PROVE  e.jid = k.jid \/ StandsFor(zset[t], e, k)
  BY DEF TakesNamed
<1>1. t = s /\ e \in F
  BY DEF Taken
<1> QED
  BY <1>1 DEF Finds

\* an entry of its own,
LEMMA SameIsNamed ==
    ASSUME NEW a \in Admins, NEW s \in SetNames, NEW F, Taken(s, F),
           NEW k \in admin[a].todo \cup {admin[a].key}, \A x \in F : x.jid = k.jid
    PROVE  TakesNamed(a)
<1> SUFFICES ASSUME NEW t \in SetNames, NEW e \in zset[t] \ zset'[t] PROVE e.jid = k.jid
  BY DEF TakesNamed
<1>1. t = s /\ e \in F
  BY DEF Taken
<1> QED
  BY <1>1

\* or what it has looked up and holds.
LEMMA HeldIsNamed ==
    ASSUME BaseInv, NEW a \in Admins, Busy(a),
           \A s \in SetNames : \A e \in zset[s] \ zset'[s] : AttemptOf(e) = AttemptOf(admin[a].hand)
    PROVE  TakesNamed(a)
<1>1. admin[a].hand.score = admin[a].key.score
  BY RequestFacts
<1> QED
  BY <1>1 DEF TakesNamed

\* "delete" and MUTATE discard take out jobs that were to be deleted, or that stand
\* at the score of one.
LEMMA DeleteFacts ==
    ASSUME BaseInv, NEW a \in Admins, NEW e \in admin[a].todo, Delete(a, e)
    PROVE  /\ BaseInv' /\ NoneRequeues /\ UNCHANGED requeued /\ TakesNamed(a)
           /\ \E s \in SetNames : \E F : Leaves(s, F) /\ \A x \in F : x.jid \in Gone'
<1>1. PICK s : s = admin[a].set
  OBVIOUS
<1>2. PICK F : F = IF admin[a].op = "delete" THEN Named(zset[s], e) ELSE Same(zset[s], e)
  OBVIOUS
<1>3. /\ admin[a].pc = "next" /\ admin[a].op \in {"delete", "mdiscard"}
      /\ zset' = [zset EXCEPT ![s] = zset[s] \ F]
      /\ mixed' = mixed \cup Mistaken(F, e)
      /\ Done(a, e)
      /\ UNCHANGED <<queue, clock, requests, sweep, faults, requeued, settled, lost>>
  BY <1>1, <1>2 DEF Delete, Acts
<1>4. s \in SetNames /\ e \in Entry /\ IsFiniteSet(zset[s]) /\ zset[s] \subseteq Entry
  BY <1>1, RequestFacts
<1>5. Taken(s, F)
  BY <1>3, <1>4, RequestFacts, TakenIs
<1>6. Moved(a, "next", admin[a].todo \ {e}, Nothing, Nothing)
  BY <1>3, RequestFacts, DoneMoves
<1>7. (\A x \in F : Finds(zset[s], x, e)) \/ (\A x \in F : x \in zset[s] /\ x.jid = e.jid)
  <2>1. CASE admin[a].op = "delete"
    BY <2>1, <1>2, <1>4, NamedFinds
  <2>2. CASE admin[a].op # "delete"
    BY <2>2, <1>2 DEF Same, AttemptOf
  <2> QED
    BY <2>1, <2>2
<1>8. F \subseteq Entry
  BY <1>4, <1>7 DEF Finds
<1>9. mixed' \subseteq Jobs /\ mixed \subseteq mixed'
  <2>1. Mistaken(F, e) \subseteq Jobs
    BY <1>4, <1>8, MistakenAre
  <2> QED
    BY <2>1, <1>3, RequestFacts
<1>10. BaseInv'
  <2>1. queue' \in Seq(Attempt) /\ requeued' \in [Jobs -> Nat] /\ faults' \in Nat /\ lost' \subseteq Jobs
    BY <1>3, RequestFacts
  <2>2. "next" \notin BusyStates
    BY DEF BusyStates
  <2> QED
    BY <2>1, <2>2, <1>3, <1>4, <1>5, <1>6, <1>9, StepBase
<1>11. e.jid \in settled
  BY <1>3 DEF BaseInv, RequestInv
<1>12. \A x \in F : x.jid \in Gone'
  <2> SUFFICES ASSUME NEW x \in F PROVE x.jid \in Gone'
    OBVIOUS
  <2>1. AttemptOf(x) = AttemptOf(e) \/ x.jid \in Mistaken(F, e)
    BY MistakenAre
  <2>2. CASE AttemptOf(x) = AttemptOf(e)
    <3>1. x.jid = e.jid
      BY <2>2 DEF AttemptOf
    <3> QED
      BY <3>1, <1>3, <1>11 DEF Gone
  <2>3. CASE x.jid \in Mistaken(F, e)
    BY <2>3, <1>3 DEF Gone
  <2> QED
    BY <2>1, <2>2, <2>3
<1>13. Leaves(s, F) /\ NoneRequeues
  <2>1. HandOf(a) = {}
    BY <1>3 DEF HandOf
  <2>2. Gone \subseteq Gone'
    BY <1>3, <1>9 DEF Gone
  <2> QED
    BY <2>1, <2>2, <1>3, <1>5, <1>6, <1>9, MovedHands DEF Leaves
<1>14. TakesNamed(a)
  BY <1>4, <1>5, <1>7, FoundIsNamed, SameIsNamed
<1> QED
  BY <1>3, <1>4, <1>10, <1>12, <1>13, <1>14

\* A step of a request that only looks: nothing leaves its place.
Looks == /\ UNCHANGED <<queue, zset, sweep, lost, mixed>>
         /\ \A b \in Admins : HandOf(b)' = HandOf(b)

\* Get finds an entry at the score of the key, or none.
LEMMA GetFacts ==
    ASSUME BaseInv, NEW a \in Admins, NEW e \in admin[a].todo, Get(a, e)
    PROVE  BaseInv' /\ NoneRequeues /\ UNCHANGED <<settled, requeued>> /\ Looks
<1>1. PICK s : s = admin[a].set
  OBVIOUS
<1>2. PICK F : F = Named(zset[s], e)
  OBVIOUS
<1>3. /\ admin[a].pc = "next" /\ admin[a].op \in {"retry", "kill"}
      /\ \/ \E h \in F : Goto(a, IF admin[a].op = "retry" THEN "rem" ELSE "zrem", e, h)
         \/ Done(a, e)
      /\ UNCHANGED <<queue, zset, clock, requests, sweep, faults, requeued, settled, lost, mixed>>
  BY <1>1, <1>2 DEF Get, Acts, history
<1>4. s \in SetNames /\ e \in Entry /\ IsFiniteSet(zset[s]) /\ zset[s] \subseteq Entry
  BY <1>1, RequestFacts
<1>5. \A h \in F : h \in Entry /\ h.score = e.score
  BY <1>2, <1>4, NamedFinds DEF Finds
<1>6. /\ Taken(s, {}) /\ queue' \in Seq(Attempt) /\ requeued' \in [Jobs -> Nat] /\ faults' \in Nat
      /\ lost' \subseteq Jobs /\ mixed' \subseteq Jobs
  BY <1>3, <1>4, RequestFacts, NothingTaken
<1>7. HandOf(a) = {}
  BY <1>3 DEF HandOf
<1>8. CASE Done(a, e)
  <2>1. Moved(a, "next", admin[a].todo \ {e}, Nothing, Nothing) /\ "next" \notin BusyStates
    BY <1>8, RequestFacts, DoneMoves DEF BusyStates
  <2>2. BaseInv'
    BY <2>1, <1>3, <1>4, <1>6, StepBase
  <2> QED
    BY <2>1, <2>2, <1>3, <1>7, MovedHands DEF Looks
<1>9. ASSUME NEW p \in {"rem", "zrem"}, NEW h \in F, Goto(a, p, e, h)
      PROVE  BaseInv' /\ NoneRequeues /\ Looks
  <2>1. p \in PcStates /\ p # "page" /\ p \notin {"enqueue", "bury"} /\ h \in Entry /\ h.score = e.score
    BY <1>5 DEF PcStates
  <2>2. Moved(a, p, admin[a].todo \ {e}, e, h)
    BY <2>1, <1>4, <1>9, RequestFacts, GotoMoves
  <2>4. BaseInv'
    BY <2>1, <2>2, <1>3, <1>4, <1>6, StepBase
  <2>5. admin[a].op # "mrequeue"
    BY <1>3
  <2> QED
    BY <2>1, <2>2, <2>4, <2>5, <1>3, <1>7, MovedHands DEF Looks
<1> QED
  BY <1>3, <1>8, <1>9

\* A request goes on with h if it has taken it out of its set, or something else in
\* its place.
LEMMA TakeFacts ==
    ASSUME BaseInv, NEW a \in Admins, NEW k \in Entry, NEW h \in Entry, h.score = k.score,
           NEW p \in {"enqueue", "bury"}, NEW s \in SetNames, NEW F,
           \A e \in F : /\ e \in zset[s]
                        /\ AttemptOf(e) = AttemptOf(h) \/ {e.jid, h.jid} \subseteq mixed',
           HandOf(a) = {}, mixed \subseteq mixed', mixed' \subseteq Jobs, F = {} => mixed' = mixed,
           zset' = [zset EXCEPT ![s] = zset[s] \ F],
           IF F # {} THEN Goto(a, p, k, h) ELSE Done(a, k),
           UNCHANGED <<queue, clock, requests, sweep, faults, requeued, settled, lost>>
    PROVE  /\ BaseInv' /\ NoneRequeues /\ Taken(s, F)
           /\ Lifts(s, F, a, AttemptOf(h)) \/ (Looks /\ UNCHANGED <<settled, requeued>>)
<1>1. Taken(s, F)
  BY RequestFacts, TakenIs
<1>2. /\ p \in PcStates /\ p # "page" /\ p # "zrem" /\ "next" \notin BusyStates
      /\ AttemptOf(h).jid = h.jid
  BY Types DEF PcStates, BusyStates
<1>3. queue' \in Seq(Attempt) /\ requeued' \in [Jobs -> Nat] /\ faults' \in Nat /\ lost' \subseteq Jobs
  BY RequestFacts
<1>5. CASE F # {}
  <2>1. Moved(a, p, admin[a].todo \ {k}, k, h)
    BY <1>2, <1>5, RequestFacts, GotoMoves
  <2>2. BaseInv'
    BY <2>1, <1>1, <1>2, <1>3, StepBase
  <2>3. NoneRequeues /\ HandOf(a)' = {AttemptOf(h)} /\ \A b \in Admins : b # a => HandOf(b)' = HandOf(b)
    BY <2>1, <1>2, MovedHands
  <2>4. Lifts(s, F, a, AttemptOf(h))
    BY <2>3, <1>1, <1>2, <1>5 DEF Lifts
  <2> QED
    BY <2>2, <2>3, <2>4, <1>1
<1>6. CASE F = {}
  <2>1. Moved(a, "next", admin[a].todo \ {k}, Nothing, Nothing)
    BY <1>6, RequestFacts, DoneMoves
  <2>2. BaseInv'
    BY <2>1, <1>1, <1>2, <1>3, StepBase
  <2>3. zset' = zset
    BY <1>1, <1>6, RequestFacts DEF Taken
  <2>4. Looks /\ NoneRequeues
    BY <2>1, <2>3, <1>6, MovedHands DEF Looks
  <2> QED
    BY <2>2, <2>4, <1>1
<1> QED
  BY <1>5, <1>6

\* Remove of key k finds entries of h, or what is mixed up with it.
LEMMA RemoveFacts ==
    ASSUME BaseInv, NEW s \in SetNames, NEW k \in Entry, NEW h \in Entry,
           NEW F, F = Named(zset[s], k), mixed' = mixed \cup Mistaken(F, h)
    PROVE  /\ \A e \in F : /\ e \in zset[s]
                           /\ AttemptOf(e) = AttemptOf(h) \/ {e.jid, h.jid} \subseteq mixed'
           /\ \A e \in F : Finds(zset[s], e, k)
           /\ mixed \subseteq mixed' /\ mixed' \subseteq Jobs /\ (F = {} => mixed' = mixed)
<1>1. IsFiniteSet(zset[s]) /\ zset[s] \subseteq Entry /\ mixed \subseteq Jobs
  BY DEF BaseInv, FiniteInv, TypeOK
<1>2. \A e \in F : Finds(zset[s], e, k)
  BY <1>1, NamedFinds
<1>3. F \subseteq Entry /\ F \subseteq zset[s]
  BY <1>1, <1>2 DEF Finds
<1>4. Mistaken(F, h) \subseteq Jobs
  BY <1>3, MistakenAre
<1>5. F = {} => Mistaken(F, h) = {}
  BY DEF Mistaken
<1>6. \A e \in F : AttemptOf(e) = AttemptOf(h) \/ {e.jid, h.jid} \subseteq mixed'
  BY MistakenAre
<1> QED
  BY <1>1, <1>2, <1>3, <1>4, <1>5, <1>6

\* EnqueueFrom removes what it finds for its key, and goes on with what it has read.
LEMMA EnqueueFromFacts ==
    ASSUME BaseInv, NEW a \in Admins, EnqueueFrom(a)
    PROVE  /\ BaseInv' /\ NoneRequeues /\ TakesNamed(a)
           /\ \/ \E s \in SetNames : \E F, w : w \in Attempt /\ Lifts(s, F, a, w)
              \/ Looks /\ UNCHANGED <<settled, requeued>>
<1>1. PICK k, h, s, F : /\ k = admin[a].key /\ h = admin[a].hand /\ s = admin[a].set
                        /\ F = Named(zset[s], k)
  OBVIOUS
<1>2. admin[a].pc = "rem" /\ Busy(a) /\ HandOf(a) = {}
  BY DEF EnqueueFrom, Busy, BusyStates, HandOf
<1>3. k \in Entry /\ h \in Entry /\ h.score = k.score /\ s \in SetNames
  BY <1>1, <1>2, RequestFacts
<1>4. /\ mixed' = mixed \cup Mistaken(F, h)
      /\ zset' = [zset EXCEPT ![s] = zset[s] \ F]
      /\ IF F # {} THEN Goto(a, "enqueue", k, h) ELSE Done(a, k)
      /\ UNCHANGED <<queue, clock, requests, sweep, faults, requeued, settled, lost>>
  BY <1>1 DEF EnqueueFrom
<1>5. /\ \A e \in F : /\ e \in zset[s]
                      /\ AttemptOf(e) = AttemptOf(h) \/ {e.jid, h.jid} \subseteq mixed'
      /\ \A e \in F : Finds(zset[s], e, k)
      /\ mixed \subseteq mixed' /\ mixed' \subseteq Jobs /\ (F = {} => mixed' = mixed)
  BY <1>1, <1>3, <1>4, RemoveFacts
<1>6. /\ BaseInv' /\ NoneRequeues /\ Taken(s, F)
      /\ Lifts(s, F, a, AttemptOf(h)) \/ (Looks /\ UNCHANGED <<settled, requeued>>)
  <2>1. "enqueue" \in {"enqueue", "bury"}
    OBVIOUS
  <2> QED
    BY <2>1, <1>2, <1>3, <1>4, <1>5, TakeFacts
<1>7. AttemptOf(h) \in Attempt /\ k \in admin[a].todo \cup {admin[a].key}
  BY <1>1, <1>3, Types
<1>8. TakesNamed(a)
  BY <1>3, <1>5, <1>6, <1>7, FoundIsNamed
<1> QED
  BY <1>3, <1>6, <1>7, <1>8

\* EnqueueAll removes what it finds for the entry Each gave it.
LEMMA EnqueueAllFacts ==
    ASSUME BaseInv, NEW a \in Admins, NEW k \in admin[a].todo, EnqueueAll(a, k)
    PROVE  /\ BaseInv' /\ NoneRequeues /\ TakesNamed(a)
           /\ \/ \E s \in SetNames : \E F, w : w \in Attempt /\ Lifts(s, F, a, w)
              \/ Looks /\ UNCHANGED <<settled, requeued>>
<1>1. PICK s, F : s = admin[a].set /\ F = Named(zset[s], k)
  OBVIOUS
<1>2. admin[a].pc = "next" /\ HandOf(a) = {}
  BY DEF EnqueueAll, Acts, HandOf
<1>3. k \in Entry /\ k.score = k.score /\ s \in SetNames
  BY <1>1, RequestFacts
<1>4. /\ mixed' = mixed \cup Mistaken(F, k)
      /\ zset' = [zset EXCEPT ![s] = zset[s] \ F]
      /\ IF F # {} THEN Goto(a, "enqueue", k, k) ELSE Done(a, k)
      /\ UNCHANGED <<queue, clock, requests, sweep, faults, requeued, settled, lost>>
  BY <1>1 DEF EnqueueAll
<1>5. /\ \A e \in F : /\ e \in zset[s]
                      /\ AttemptOf(e) = AttemptOf(k) \/ {e.jid, k.jid} \subseteq mixed'
      /\ \A e \in F : Finds(zset[s], e, k)
      /\ mixed \subseteq mixed' /\ mixed' \subseteq Jobs /\ (F = {} => mixed' = mixed)
  BY <1>1, <1>3, <1>4, RemoveFacts
<1>6. /\ BaseInv' /\ NoneRequeues /\ Taken(s, F)
      /\ Lifts(s, F, a, AttemptOf(k)) \/ (Looks /\ UNCHANGED <<settled, requeued>>)
  <2>1. "enqueue" \in {"enqueue", "bury"}
    OBVIOUS
  <2> QED
    BY <2>1, <1>2, <1>3, <1>4, <1>5, TakeFacts
<1>7. AttemptOf(k) \in Attempt /\ k \in admin[a].todo \cup {admin[a].key}
  BY <1>3, Types
<1>8. TakesNamed(a)
  BY <1>3, <1>5, <1>6, <1>7, FoundIsNamed
<1> QED
  BY <1>3, <1>6, <1>7, <1>8

\* MoveTo removes the member it was given, whatever its score has become.
LEMMA MoveToFacts ==
    ASSUME BaseInv, NEW a \in Admins, NEW e, NEW h, MoveTo(a, e, h)
    PROVE  /\ BaseInv' /\ NoneRequeues /\ TakesNamed(a)
           /\ \/ \E s \in SetNames : \E F, w : w \in Attempt /\ Lifts(s, F, a, w)
              \/ Looks /\ UNCHANGED <<settled, requeued>>
<1>1. PICK s, F : s = admin[a].set /\ F = Same(zset[s], h)
  OBVIOUS
<1>2. /\ \/ admin[a].pc = "next" /\ admin[a].op = "mkill" /\ e \in admin[a].todo /\ h = e
         \/ admin[a].pc = "zrem" /\ admin[a].op = "kill" /\ e = admin[a].key /\ h = admin[a].hand
      /\ zset' = [zset EXCEPT ![s] = zset[s] \ F]
      /\ IF F # {} THEN Goto(a, "bury", e, h) ELSE Done(a, e)
      /\ UNCHANGED <<queue, clock, requests, sweep, faults, requeued, settled, lost, mixed>>
  BY <1>1 DEF MoveTo, Acts, history
<1>3. e \in Entry /\ h \in Entry /\ h.score = e.score /\ s \in SetNames /\ HandOf(a) = {}
  <2>1. CASE admin[a].pc = "next" /\ admin[a].op = "mkill" /\ e \in admin[a].todo /\ h = e
    BY <1>1, <2>1, RequestFacts DEF HandOf
  <2>2. CASE admin[a].pc = "zrem" /\ admin[a].op = "kill" /\ e = admin[a].key /\ h = admin[a].hand
    <3>1. Busy(a) /\ HandOf(a) = {}
      BY <2>2 DEF Busy, BusyStates, HandOf
    <3> QED
      BY <1>1, <2>2, <3>1, RequestFacts
  <2> QED
    BY <1>2, <2>1, <2>2
<1>4. /\ \A x \in F : /\ x \in zset[s]
                      /\ AttemptOf(x) = AttemptOf(h) \/ {x.jid, h.jid} \subseteq mixed'
      /\ \A x \in F : AttemptOf(x) = AttemptOf(h)
      /\ mixed \subseteq mixed' /\ mixed' \subseteq Jobs /\ (F = {} => mixed' = mixed)
  BY <1>1, <1>2, RequestFacts DEF Same
<1>6. /\ BaseInv' /\ NoneRequeues /\ Taken(s, F)
      /\ Lifts(s, F, a, AttemptOf(h)) \/ (Looks /\ UNCHANGED <<settled, requeued>>)
  <2>1. "bury" \in {"enqueue", "bury"}
    OBVIOUS
  <2> QED
    BY <2>1, <1>2, <1>3, <1>4, TakeFacts
<1>7. AttemptOf(h) \in Attempt
  BY <1>3, Types
<1>8. TakesNamed(a)
  <2>1. CASE e \in admin[a].todo /\ h = e
    <3>1. \A x \in F : x.jid = e.jid
      BY <2>1, <1>4 DEF AttemptOf
    <3> QED
      BY <2>1, <3>1, <1>3, <1>6, SameIsNamed
  <2>2. CASE admin[a].pc = "zrem" /\ h = admin[a].hand
    <3>1. Busy(a)
      BY <2>2 DEF Busy, BusyStates
    <3>2. \A t \in SetNames : \A x \in zset[t] \ zset'[t] : AttemptOf(x) = AttemptOf(admin[a].hand)
      BY <2>2, <1>4, <1>6 DEF Taken
    <3> QED
      BY <3>1, <3>2, HeldIsNamed
  <2> QED
    BY <2>1, <2>2, <1>2
<1> QED
  BY <1>3, <1>6, <1>7, <1>8

\* Add puts the attempt in hand into its queue.
LEMMA AddFacts ==
    ASSUME BaseInv, NEW a \in Admins, Add(a)
    PROVE  /\ BaseInv' /\ NoneRequeues
           /\ \E w \in Attempt : Pushes(a, w)
<1>1. admin[a].pc = "enqueue" /\ Busy(a)
  BY DEF Add, Busy, BusyStates
<1>2. PICK k, w : k = admin[a].key /\ w = AttemptOf(admin[a].hand)
  OBVIOUS
<1>3. HandOf(a) = {w} /\ w \in Attempt
  BY <1>1, <1>2, RequestFacts, Types DEF HandOf
<1>5. /\ queue' = Append(queue, w) /\ Done(a, k)
      /\ UNCHANGED <<zset, clock, requests, sweep, faults, requeued, settled, lost, mixed>>
  BY <1>2 DEF Add, history
<1>6. Moved(a, "next", admin[a].todo \ {k}, Nothing, Nothing) /\ "next" \notin BusyStates
  BY <1>5, RequestFacts, DoneMoves DEF BusyStates
<1>7. Taken("dead", {}) /\ "dead" \in SetNames
  BY <1>5, RequestFacts, NothingTaken DEF SetNames
<1>8. /\ queue' \in Seq(Attempt) /\ requeued' \in [Jobs -> Nat] /\ faults' \in Nat
      /\ lost' \subseteq Jobs /\ mixed' \subseteq Jobs
  BY <1>3, <1>5, RequestFacts
<1>9. BaseInv'
  BY <1>5, <1>6, <1>7, <1>8, StepBase
<1>10. Pushes(a, w) /\ NoneRequeues
  BY <1>3, <1>5, <1>6, MovedHands DEF Pushes
<1> QED
  BY <1>3, <1>9, <1>10

\* MUTATE requeue pushes what Find returned, and keeps it in mind.
Requeues(a, w) ==
    /\ UNCHANGED <<zset, sweep, lost, settled, mixed>>
    /\ queue' = Append(queue, w)
    /\ requeued' = [requeued EXCEPT ![w.jid] = requeued[w.jid] + 1]
    /\ \A b \in Admins : HandOf(b)' = HandOf(b)
    /\ AttemptOf(admin'[a].hand) = w
    /\ \A b \in Admins : b # a => admin'[b] = admin[b]

\* Requeue: the entry's attempt is pushed, the entry stays for now.
LEMMA RequeueFacts ==
    ASSUME BaseInv, NEW a \in Admins, NEW e \in admin[a].todo, Requeue(a, e)
    PROVE  BaseInv' /\ \E w \in Attempt : Requeues(a, w)
<1>1. PICK w : w = AttemptOf(e)
  OBVIOUS
<1>2. e \in Entry
  BY RequestFacts
<1>3. w \in Attempt /\ w.jid = e.jid /\ e.jid \in Jobs
  BY <1>1, <1>2, Types
<1>4. /\ admin[a].pc = "next"
      /\ queue' = Append(queue, w) /\ Goto(a, "zrem", e, e)
      /\ requeued' = [requeued EXCEPT ![e.jid] = requeued[e.jid] + 1]
      /\ UNCHANGED <<zset, clock, requests, sweep, faults, settled, lost, mixed>>
  BY <1>1 DEF Requeue, Acts
<1>5. "zrem" \in PcStates /\ "dead" \in SetNames /\ "zrem" # "page"
  BY DEF PcStates, SetNames
<1>6. Moved(a, "zrem", admin[a].todo \ {e}, e, e)
  BY <1>2, <1>4, <1>5, RequestFacts, GotoMoves
<1>7. Taken("dead", {})
  BY <1>4, <1>5, RequestFacts, NothingTaken
<1>8. /\ queue' \in Seq(Attempt) /\ requeued' \in [Jobs -> Nat] /\ faults' \in Nat
      /\ lost' \subseteq Jobs /\ mixed' \subseteq Jobs
  BY <1>3, <1>4, RequestFacts
<1>9. BaseInv'
  BY <1>2, <1>4, <1>5, <1>6, <1>7, <1>8, StepBase
<1>10. HandOf(a) = {}
  BY <1>4 DEF HandOf
<1>11. \A b \in Admins : HandOf(b)' = HandOf(b)
  BY <1>6, <1>10, MovedHands
<1>12. AttemptOf(admin'[a].hand) = w /\ \A b \in Admins : b # a => admin'[b] = admin[b]
  BY <1>1, <1>6 DEF Moved
<1> QED
  BY <1>3, <1>4, <1>9, <1>11, <1>12 DEF Requeues

\* Then RemoveEntry removes that attempt and no other: it was pushed before, or the
\* push failed and its job is lost.
LEMMA RequeueRemoveFacts ==
    ASSUME BaseInv, NEW a \in Admins, RequeueRemove(a)
    PROVE  /\ BaseInv' /\ NoneRequeues /\ UNCHANGED requeued /\ TakesNamed(a)
           /\ \E s \in SetNames : \E F :
                 /\ Leaves(s, F)
                 /\ \A x \in F : AttemptOf(x) = AttemptOf(admin[a].hand)
                 /\ Requeueing(a) \/ \A x \in F : x.jid \in Gone'
<1>1. /\ admin[a].pc \in {"zrem", "drop"} /\ admin[a].op = "mrequeue" /\ Busy(a) /\ HandOf(a) = {}
      /\ admin[a].pc = "zrem" => Requeueing(a)
  BY DEF RequeueRemove, Busy, BusyStates, Requeueing, HandOf
<1>2. PICK k, h, s, F : /\ k = admin[a].key /\ h = admin[a].hand /\ s = admin[a].set
                        /\ F = Same(zset[s], h)
  OBVIOUS
<1>3. k \in Entry /\ h \in Entry /\ s \in SetNames /\ h.jid \in Jobs
  BY <1>1, <1>2, RequestFacts, Types
<1>4. /\ zset' = [zset EXCEPT ![s] = zset[s] \ F] /\ Done(a, k)
      /\ lost' = IF admin[a].pc = "drop" /\ F # {} THEN lost \cup {h.jid} ELSE lost
      /\ UNCHANGED <<queue, clock, requests, sweep, faults, requeued, settled, mixed>>
  BY <1>2 DEF RequeueRemove
<1>5. Moved(a, "next", admin[a].todo \ {k}, Nothing, Nothing) /\ "next" \notin BusyStates
  BY <1>4, RequestFacts, DoneMoves DEF BusyStates
<1>6. Taken(s, F)
  BY <1>3, <1>4, RequestFacts, TakenIs
<1>7. /\ queue' \in Seq(Attempt) /\ requeued' \in [Jobs -> Nat] /\ faults' \in Nat
      /\ lost' \subseteq Jobs /\ mixed' \subseteq Jobs /\ lost \subseteq lost'
  BY <1>3, <1>4, RequestFacts
<1>8. BaseInv'
  BY <1>3, <1>4, <1>5, <1>6, <1>7, StepBase
<1>9. \A x \in F : AttemptOf(x) = AttemptOf(h) /\ x.jid = h.jid
  BY <1>2 DEF Same, AttemptOf
<1>10. Leaves(s, F) /\ NoneRequeues
  <2>1. Gone \subseteq Gone' /\ mixed \subseteq mixed'
    BY <1>4, <1>7 DEF Gone
  <2> QED
    BY <2>1, <1>1, <1>4, <1>5, <1>6, MovedHands DEF Leaves
<1>11. Requeueing(a) \/ \A x \in F : x.jid \in Gone'
  <2>1. CASE admin[a].pc = "drop"
    BY <2>1, <1>4, <1>9 DEF Gone
  <2> QED
    BY <2>1, <1>1
<1>12. TakesNamed(a)
  <2>1. \A t \in SetNames : \A x \in zset[t] \ zset'[t] : AttemptOf(x) = AttemptOf(admin[a].hand)
    BY <1>2, <1>6, <1>9 DEF Taken
  <2> QED
    BY <2>1, <1>1, HeldIsNamed
<1> QED
  BY <1>2, <1>3, <1>4, <1>8, <1>9, <1>10, <1>11, <1>12

\* The attempt in hand gets into the dead set.
LEMMA BuryFacts ==
    ASSUME BaseInv, NEW a \in Admins, Bury(a)
    PROVE  /\ BaseInv' /\ NoneRequeues /\ TakesNamed(a)
           /\ \E w \in Attempt : Buries(a, w)
<1>1. admin[a].pc = "bury" /\ Busy(a)
  BY DEF Bury, Busy, BusyStates
<1>2. PICK k, h, w : k = admin[a].key /\ h = admin[a].hand /\ w = AttemptOf(h)
  OBVIOUS
<1>3. /\ h \in Entry /\ HandOf(a) = {w} /\ clock \in Nat /\ "dead" \in SetNames
  BY <1>1, <1>2, RequestFacts DEF HandOf, TypeOK, SetNames
<1>4. PICK n : n = IF admin[a].op = "mkill" THEN clock + 1 ELSE admin[a].new
  OBVIOUS
<1>5. n \in Nat
  BY <1>3, <1>4, RequestFacts
<1>6. PICK x : x = EntryOf(h, n)
  OBVIOUS
<1>7. x \in Entry /\ AttemptOf(x) = w /\ w \in Attempt
  BY <1>2, <1>3, <1>5, <1>6, Types
<1>8. PICK S : S = (zset["dead"] \ Same(zset["dead"], x)) \cup {x}
  OBVIOUS
<1>9. /\ zset' = [zset EXCEPT !["dead"] = S] /\ Done(a, k)
      /\ clock' = IF admin[a].op = "mkill" THEN n ELSE clock
      /\ UNCHANGED <<queue, requests, sweep, faults, requeued, settled, lost, mixed>>
  BY <1>2, <1>4, <1>6, <1>8 DEF Bury, Zadd, history
<1>10. S \in SUBSET Entry
  BY <1>3, <1>7, <1>8, RequestFacts
<1>11. /\ zset' \in [SetNames -> SUBSET Entry] /\ zset'["dead"] = S
       /\ \A t \in SetNames : t # "dead" => zset'[t] = zset[t]
  BY <1>3, <1>9, <1>10, RequestFacts, SetChanges
<1>12. Moved(a, "next", admin[a].todo \ {k}, Nothing, Nothing) /\ "next" \notin BusyStates
  BY <1>9, RequestFacts, DoneMoves DEF BusyStates
<1>13. TypeOK' /\ RequestInv' /\ SweepInv'
  <2>1. RequestInv'
    BY <1>9, <1>12, RequestFacts, MovedRequests
  <2>2. TypeOK'
    BY <1>3, <1>5, <1>9, <1>11, <1>12, RequestFacts DEF TypeOK, Moved
  <2> QED
    BY <2>1, <2>2, <1>9 DEF BaseInv, SweepInv
<1>14. FiniteInv'
  <2>1. IsFiniteSet(zset["dead"] \ Same(zset["dead"], x))
    BY <1>3, FS_Subset DEF BaseInv, FiniteInv
  <2>2. IsFiniteSet(S)
    BY <2>1, <1>8, FS_AddElement
  <2> QED
    BY <2>2, <1>11 DEF BaseInv, FiniteInv
<1>17. Buries(a, w) /\ NoneRequeues
  BY <1>3, <1>7, <1>8, <1>9, <1>11, <1>12, MovedHands DEF Buries
<1>18. TakesNamed(a)
  <2>1. \A y \in Same(zset["dead"], x) : AttemptOf(y) = AttemptOf(h)
    BY <1>2, <1>7 DEF Same
  <2>2. \A t \in SetNames : \A y \in zset[t] \ zset'[t] : AttemptOf(y) = AttemptOf(admin[a].hand)
    BY <2>1, <1>2, <1>8, <1>11
  <2> QED
    BY <2>2, <1>1, HeldIsNamed
<1> QED
  BY <1>7, <1>13, <1>14, <1>17, <1>18 DEF BaseInv

\* A request is replaced by another one, which holds nothing.
LEMMA RequestReplaced ==
    ASSUME BaseInv, NEW a \in Admins, NEW r \in Request,
           admin' = [admin EXCEPT ![a] = r], r.pc \in {"idle", "page", "next"},
           r.op \in {"delete", "mdiscard"} => \A e \in r.todo : e.jid \in settled',
           r.pc = "page" => r.op \in AllPages,
           settled \subseteq settled', settled' \subseteq Jobs, requests' \in Nat, clock' \in Nat,
           faults' \in Nat, lost' \subseteq Jobs,
           UNCHANGED <<queue, zset, sweep, requeued, mixed>>
    PROVE  /\ BaseInv' /\ NoneRequeues /\ HandOf(a)' = {}
           /\ \A b \in Admins : b # a => HandOf(b)' = HandOf(b)
           /\ HandOf(a) = {} /\ UNCHANGED lost => Looks
<1>1. /\ admin' \in [Admins -> Request] /\ admin'[a] = r
      /\ \A b \in Admins : b # a => admin'[b] = admin[b]
  BY RequestFacts
<1>2. TypeOK' /\ SweepInv' /\ FiniteInv'
  BY <1>1 DEF BaseInv, TypeOK, SweepInv, FiniteInv
<1>3. RequestInv'
  <2> SUFFICES ASSUME NEW b \in Admins
               PROVE  /\ Busy(b)' => /\ admin'[b].key \in Entry /\ admin'[b].hand \in Entry
                                     /\ admin'[b].hand.score = admin'[b].key.score
                      /\ admin'[b].op \in {"delete", "mdiscard"} =>
                            \A e \in admin'[b].todo : e.jid \in settled'
                      /\ admin'[b].pc = "page" => admin'[b].op \in AllPages
    BY DEF RequestInv
  <2>1. CASE b = a
    BY <2>1, <1>1 DEF Busy, BusyStates
  <2>2. CASE b # a
    BY <2>2, <1>1 DEF BaseInv, RequestInv, Busy
  <2> QED
    BY <2>1, <2>2
<1>4. HandOf(a)' = {}
  BY <1>1 DEF HandOf
<1>5. \A b \in Admins : b # a => HandOf(b)' = HandOf(b)
  BY <1>1 DEF HandOf
<1>6. NoneRequeues
  BY <1>1 DEF NoneRequeues, Requeueing
<1>7. HandOf(a) = {} /\ UNCHANGED lost => Looks
  BY <1>4, <1>5 DEF Looks
<1> QED
  BY <1>2, <1>3, <1>4, <1>5, <1>6, <1>7 DEF BaseInv

\* Each reads a page: entries that are in the set now.
LEMMA PageFacts ==
    ASSUME BaseInv, NEW a \in Admins, Page(a)
    PROVE  BaseInv' /\ NoneRequeues /\ Looks /\ UNCHANGED <<settled, requeued>>
<1>1. PICK s, B : s = admin[a].set /\ B = PageAt(zset[s], admin[a].pos)
  OBVIOUS
<1>2. PICK r : r = [admin[a] EXCEPT !.pc = "next", !.todo = B, !.full = (Cardinality(B) = PageSize)]
  OBVIOUS
<1>3. /\ admin[a].pc = "page"
      /\ admin' = [admin EXCEPT ![a] = r]
      /\ UNCHANGED <<queue, zset, clock, requests, sweep, faults, requeued, settled, lost, mixed>>
  BY <1>1, <1>2 DEF Page, history
<1>4. s \in SetNames /\ B \subseteq zset[s] /\ zset[s] \subseteq Entry
  BY <1>1, RequestFacts DEF PageAt
<1>5. admin[a].op \in AllPages
  BY <1>3 DEF BaseInv, RequestInv
<1>6. /\ r \in Request /\ r.op = admin[a].op /\ r.pc = "next" /\ r.todo = B
  BY <1>2, <1>4, RequestFacts DEF Request, PcStates
<1>7. /\ HandOf(a) = {} /\ requests \in Nat /\ clock \in Nat /\ settled \subseteq Jobs
      /\ faults \in Nat /\ lost \subseteq Jobs /\ r.op \notin {"delete", "mdiscard"}
  BY <1>3, <1>5, <1>6, RequestFacts DEF HandOf, TypeOK, AllPages
<1>8. BaseInv' /\ NoneRequeues /\ Looks
  BY <1>3, <1>6, <1>7, RequestReplaced
<1> QED
  BY <1>3, <1>8

\* The end of a page or of a request.
LEMMA FinishFacts ==
    ASSUME BaseInv, NEW a \in Admins, Finish(a)
    PROVE  BaseInv' /\ NoneRequeues /\ Looks /\ UNCHANGED <<settled, requeued>>
<1>1. PICK r : r = IF admin[a].op \in AllPages /\ admin[a].full
                   THEN [admin[a] EXCEPT !.pc = "page", !.pos = admin[a].pos + PageSize]
                   ELSE IdleAdmin
  OBVIOUS
<1>2. /\ admin[a].pc = "next" /\ admin[a].todo = {}
      /\ admin' = [admin EXCEPT ![a] = r]
      /\ UNCHANGED <<queue, zset, clock, requests, sweep, faults, requeued, settled, lost, mixed>>
  BY <1>1 DEF Finish, history
<1>3. /\ r \in Request /\ r.pc \in {"idle", "page"} /\ r.todo = {}
      /\ r.pc = "page" => r.op \in AllPages
  <2>1. CASE admin[a].op \in AllPages /\ admin[a].full
    <3>1. admin[a].pos + PageSize \in Nat
      BY RequestFacts, AdminAssumption DEF Request
    <3>2. PICK n \in Nat : n = admin[a].pos + PageSize
      BY <3>1
    <3>3. r = [admin[a] EXCEPT !.pc = "page", !.pos = n]
      BY <2>1, <3>2, <1>1
    <3>4. admin[a] \in Request /\ "page" \in PcStates
      BY RequestFacts DEF PcStates
    <3>5. r \in Request /\ r.pc = "page" /\ r.todo = admin[a].todo /\ r.op = admin[a].op
      BY <3>2, <3>3, <3>4 DEF Request
    <3> QED
      BY <2>1, <3>5, <1>2
  <2>2. CASE ~ (admin[a].op \in AllPages /\ admin[a].full)
    BY <2>2, <1>1, Types DEF IdleAdmin
  <2> QED
    BY <2>1, <2>2
<1>4. /\ HandOf(a) = {} /\ requests \in Nat /\ clock \in Nat /\ settled \subseteq Jobs
      /\ faults \in Nat /\ lost \subseteq Jobs
  BY <1>2, RequestFacts DEF HandOf, TypeOK
<1>5. BaseInv' /\ NoneRequeues /\ Looks
  BY <1>2, <1>3, <1>4, RequestReplaced
<1> QED
  BY <1>2, <1>5

\* A request begins, with entries of a set.
LEMMA BeginFacts ==
    ASSUME BaseInv, NEW a \in Admins, NEW op \in AllRequests, NEW s \in SetNames,
           NEW T \in SUBSET zset[s], Begin(a, op, s, T)
    PROVE  /\ BaseInv' /\ NoneRequeues /\ Looks /\ UNCHANGED requeued
           /\ settled \subseteq settled'
<1>1. PICK n, p : /\ n = (IF op = "kill" THEN clock + 1 ELSE 0)
                  /\ p = (IF op \in AllPages THEN "page" ELSE "next")
  OBVIOUS
<1>2. PICK r : r = [IdleAdmin EXCEPT !.op = op, !.set = s, !.todo = T, !.new = n, !.pc = p]
  OBVIOUS
<1>3. /\ admin[a].pc = "idle"
      /\ requests' = requests + 1
      /\ admin' = [admin EXCEPT ![a] = r]
      /\ clock' = IF op = "kill" THEN clock + 1 ELSE clock
      /\ settled' = IF op \in Deletes THEN settled \cup {e.jid : e \in T} ELSE settled
      /\ UNCHANGED <<queue, zset, sweep, faults, requeued, lost, mixed>>
  BY <1>1, <1>2 DEF Begin
<1>4. /\ clock \in Nat /\ requests \in Nat /\ settled \subseteq Jobs
      /\ T \subseteq Entry /\ HandOf(a) = {} /\ faults \in Nat /\ lost \subseteq Jobs
  BY <1>3, RequestFacts DEF TypeOK, HandOf
<1>5. n \in Nat /\ p \in PcStates /\ p \in {"page", "next"}
  BY <1>1, <1>4 DEF PcStates
<1>6. /\ r \in Request /\ r.op = op /\ r.todo = T /\ r.new = n /\ r.pc = p
  BY <1>2, <1>4, <1>5, Types DEF Request, IdleAdmin
<1>7. /\ settled \subseteq settled' /\ settled' \subseteq Jobs /\ requests' \in Nat
      /\ clock' \in Nat /\ clock' >= clock
  <2>1. \A e \in T : e.jid \in Jobs
    BY <1>4, Types
  <2>2. settled \subseteq settled' /\ settled' \subseteq Jobs
    BY <2>1, <1>3, <1>4
  <2> QED
    BY <2>2, <1>3, <1>4
<1>8. op \in {"delete", "mdiscard"} => \A e \in T : e.jid \in settled'
  BY <1>3 DEF Deletes
<1>9. p = "page" => op \in AllPages
  BY <1>1
<1>10. BaseInv' /\ NoneRequeues /\ Looks
  BY <1>3, <1>4, <1>5, <1>6, <1>7, <1>8, <1>9, RequestReplaced
<1> QED
  BY <1>3, <1>7, <1>10

\* The requests of the Web UI.
LEMMA AskUiFacts ==
    ASSUME BaseInv, NEW a \in Admins, NEW s \in SetNames,
           NEW op \in Requests \cap (KeyRequests \cup AllPages), AskUi(a, op, s)
    PROVE  /\ BaseInv' /\ NoneRequeues /\ Looks /\ UNCHANGED requeued
           /\ settled \subseteq settled'
<1>1. PICK T \in SUBSET zset[s] : Begin(a, op, s, T)
  BY DEF AskUi
<1>2. op \in AllRequests
  BY DEF AllRequests
<1> QED
  BY <1>1, <1>2, BeginFacts

\* MUTATE commands.
LEMMA AskMutateFacts ==
    ASSUME BaseInv, NEW a \in Admins, NEW s \in SetNames,
           NEW op \in Requests \cap Mutations, NEW f \in Filters, AskMutate(a, op, s, f)
    PROVE  /\ BaseInv' /\ NoneRequeues /\ Looks /\ UNCHANGED requeued
           /\ settled \subseteq settled'
<1>1. PICK T : T = {e \in zset[s] : e.jid \in matchForFilter(f)}
  OBVIOUS
<1>2. Begin(a, op, s, T) /\ T \in SUBSET zset[s]
  BY <1>1 DEF AskMutate
<1>3. op \in AllRequests
  BY DEF AllRequests, Mutations
<1> QED
  BY <1>2, <1>3, BeginFacts

-----------------------------------------------------------------------------
(* The scheduler, the workers, clear, errors and crashes *)

\* The requests go on as they were.
LEMMA EnvBase ==
    ASSUME BaseInv, UNCHANGED admin, NEW s \in SetNames, NEW F, Taken(s, F),
           queue' \in Seq(Attempt), sweep' \in SUBSET Attempt, SweepInv',
           UNCHANGED <<clock, requeued, mixed>>, faults' \in Nat, lost' \subseteq Jobs,
           requests' \in Nat, settled \subseteq settled', settled' \subseteq Jobs
    PROVE  BaseInv' /\ NoneRequeues /\ \A b \in Admins : HandOf(b)' = HandOf(b)
<1>1. TypeOK /\ RequestInv /\ SweepInv /\ FiniteInv
  BY DEF BaseInv
<1>2. TypeOK'
  BY <1>1 DEF TypeOK, Taken
<1>3. RequestInv'
  BY <1>1 DEF RequestInv, Busy
<1>4. FiniteInv'
  BY <1>1, TakenFinite
<1> QED
  BY <1>2, <1>3, <1>4 DEF BaseInv, NoneRequeues, Requeueing, HandOf

\* Clear and Purge: what leaves its set is settled.
LEMMA ClearFacts ==
    ASSUME BaseInv, NEW s \in SetNames, Clear(s)
    PROVE  /\ BaseInv' /\ NoneRequeues /\ UNCHANGED requeued
           /\ Leaves(s, zset[s]) /\ \A x \in zset[s] : x.jid \in Gone'
<1>1. /\ requests' = requests + 1
      /\ settled' = settled \cup {e.jid : e \in zset[s]}
      /\ zset' = [zset EXCEPT ![s] = {}]
      /\ UNCHANGED <<queue, clock, admin, sweep, faults, requeued, lost, mixed>>
  BY DEF Clear
<1>2. TypeOK /\ SweepInv /\ zset \in [SetNames -> SUBSET Entry] /\ zset[s] \subseteq Entry
  BY DEF BaseInv, TypeOK
<1>3. Taken(s, zset[s])
  <2>1. zset[s] \ zset[s] = {}
    OBVIOUS
  <2>2. zset' = [zset EXCEPT ![s] = zset[s] \ zset[s]]
    BY <2>1, <1>1
  <2> QED
    BY <2>2, <1>2, TakenIs
<1>4. {e.jid : e \in zset[s]} \subseteq Jobs
  BY <1>2, Types
<1>5. /\ settled \subseteq settled' /\ settled' \subseteq Jobs
      /\ \A x \in zset[s] : x.jid \in settled'
  BY <1>1, <1>2, <1>4 DEF TypeOK
<1>6. /\ requests' \in Nat /\ queue' \in Seq(Attempt) /\ sweep' \in SUBSET Attempt /\ SweepInv'
      /\ faults' \in Nat /\ lost' \subseteq Jobs
  BY <1>1, <1>2 DEF TypeOK, SweepInv
<1>7. BaseInv' /\ NoneRequeues /\ \A b \in Admins : HandOf(b)' = HandOf(b)
  BY <1>1, <1>3, <1>5, <1>6, EnvBase
<1> QED
  BY <1>1, <1>3, <1>5, <1>7 DEF Leaves, Gone

\* Purge takes one dead entry, of a job that counts as settled.
LEMMA PurgeFacts ==
    ASSUME BaseInv, NEW e \in zset["dead"], Purge(e)
    PROVE  /\ BaseInv' /\ NoneRequeues /\ UNCHANGED requeued
           /\ Leaves("dead", {e}) /\ \A x \in {e} : x.jid \in Gone'
<1>1. /\ zset' = [zset EXCEPT !["dead"] = zset["dead"] \ {e}]
      /\ settled' = settled \cup {e.jid}
      /\ UNCHANGED <<queue, clock, requests, admin, sweep, faults, requeued, lost, mixed>>
  BY DEF Purge
<1>2. "dead" \in SetNames
  BY DEF SetNames
<1>3. TypeOK /\ SweepInv /\ zset \in [SetNames -> SUBSET Entry] /\ e \in Entry
  BY <1>2 DEF BaseInv, TypeOK
<1>4. Taken("dead", {e})
  BY <1>1, <1>2, <1>3, TakenIs
<1>5. e.jid \in Jobs
  BY <1>3, Types
<1>6. settled \subseteq settled' /\ settled' \subseteq Jobs
  BY <1>1, <1>3, <1>5 DEF TypeOK
<1>7. /\ requests' \in Nat /\ queue' \in Seq(Attempt) /\ sweep' \in SUBSET Attempt /\ SweepInv'
      /\ faults' \in Nat /\ lost' \subseteq Jobs
  BY <1>1, <1>3 DEF TypeOK, SweepInv
<1>8. BaseInv' /\ NoneRequeues /\ \A b \in Admins : HandOf(b)' = HandOf(b)
  BY <1>1, <1>2, <1>4, <1>6, <1>7, EnvBase
<1> QED
  BY <1>1, <1>4, <1>6, <1>8 DEF Leaves, Gone

\* The scheduler takes a due job out of its set,
SweepLifts(s, e) ==
    /\ Taken(s, {e}) /\ e \in zset[s]
    /\ UNCHANGED <<queue, lost, settled, requeued, mixed>>
    /\ sweep = {} /\ sweep' = {AttemptOf(e)}
    /\ \A b \in Admins : HandOf(b)' = HandOf(b)

\* SweepRemove: the entry goes from its set into the scheduler's hands.
LEMMA SweepRemoveFacts ==
    ASSUME BaseInv, NEW s \in SetNames, NEW e \in zset[s], SweepRemove(s, e)
    PROVE  BaseInv' /\ NoneRequeues /\ SweepLifts(s, e)
<1>1. /\ zset' = [zset EXCEPT ![s] = zset[s] \ {e}]
      /\ sweep = {} /\ sweep' = {AttemptOf(e)}
      /\ UNCHANGED <<queue, clock, requests, admin, faults, requeued, settled, lost, mixed>>
  BY DEF SweepRemove, history
<1>2. TypeOK /\ zset \in [SetNames -> SUBSET Entry] /\ e \in Entry
  BY DEF BaseInv, TypeOK
<1>3. Taken(s, {e}) /\ AttemptOf(e) \in Attempt
  BY <1>1, <1>2, TakenIs, Types
<1>4. /\ requests' \in Nat /\ queue' \in Seq(Attempt) /\ sweep' \in SUBSET Attempt /\ SweepInv'
      /\ settled \subseteq settled' /\ settled' \subseteq Jobs
      /\ faults' \in Nat /\ lost' \subseteq Jobs
  BY <1>1, <1>2, <1>3 DEF TypeOK, SweepInv
<1>5. BaseInv' /\ NoneRequeues /\ \A b \in Admins : HandOf(b)' = HandOf(b)
  BY <1>1, <1>3, <1>4, EnvBase
<1> QED
  BY <1>1, <1>3, <1>5 DEF SweepLifts

\* and puts it into its queue.
SweepPushes(w) ==
    /\ UNCHANGED <<zset, lost, settled, requeued, mixed>>
    /\ sweep = {w} /\ sweep' = {} /\ queue' = Append(queue, w)
    /\ \A b \in Admins : HandOf(b)' = HandOf(b)

\* SweepEnqueue: what the scheduler holds is pushed.
LEMMA SweepEnqueueFacts ==
    ASSUME BaseInv, SweepEnqueue
    PROVE  BaseInv' /\ NoneRequeues /\ \E w \in Attempt : SweepPushes(w)
<1>1. PICK w \in sweep : queue' = Append(queue, w)
  BY DEF SweepEnqueue
<1>2. /\ sweep' = {}
      /\ UNCHANGED <<zset, clock, requests, admin, faults, requeued, settled, lost, mixed>>
  BY DEF SweepEnqueue, history
<1>3. TypeOK /\ SweepInv
  BY DEF BaseInv
<1>4. w \in Attempt /\ sweep = {w}
  BY <1>1, <1>3 DEF TypeOK, SweepInv
<1>5. "dead" \in SetNames
  BY DEF SetNames
<1>6. Taken("dead", {})
  BY <1>2, <1>3, <1>5, NothingTaken
<1>7. /\ requests' \in Nat /\ queue' \in Seq(Attempt) /\ sweep' \in SUBSET Attempt /\ SweepInv'
      /\ settled \subseteq settled' /\ settled' \subseteq Jobs
      /\ faults' \in Nat /\ lost' \subseteq Jobs
  BY <1>1, <1>2, <1>3, <1>4 DEF TypeOK, SweepInv
<1>8. BaseInv' /\ NoneRequeues /\ \A b \in Admins : HandOf(b)' = HandOf(b)
  BY <1>2, <1>5, <1>6, <1>7, EnvBase
<1> QED
  BY <1>1, <1>2, <1>4, <1>8 DEF SweepPushes

\* A worker takes the oldest attempt from the queue, and is done with it,
Works(v) ==
    /\ v \in Attempt /\ queue # << >> /\ v = Head(queue) /\ queue' = Tail(queue)
    /\ UNCHANGED <<sweep, lost, requeued, mixed>>
    /\ \A b \in Admins : HandOf(b)' = HandOf(b)
    /\ settled \subseteq settled'

\* or makes the next attempt of the job.
Fails(v, z) ==
    /\ z \in Entry /\ z.jid = v.jid /\ z.try = v.try + 1
    /\ zset' \in [SetNames -> SUBSET Entry]
    /\ zset'["retries"] = zset["retries"] \cup {z}
    /\ \A t \in SetNames : t # "retries" => zset'[t] = zset[t]

\* Work: the oldest job leaves the queue, done or stored for a retry.
LEMMA WorkFacts ==
    ASSUME BaseInv, Work
    PROVE  /\ BaseInv' /\ NoneRequeues
           /\ \E v : /\ Works(v)
                     /\ \/ UNCHANGED zset /\ v.jid \in settled'
                        \/ \E z : Fails(v, z)
<1>1. PICK v : v = Head(queue)
  OBVIOUS
<1>2. /\ queue # << >> /\ queue' = Tail(queue)
      /\ \/ settled' = settled \cup {v.jid} /\ UNCHANGED <<zset, clock>>
         \/ /\ clock' = clock + 1
            /\ zset' = [zset EXCEPT !["retries"] = zset["retries"] \cup
                          {[jid |-> v.jid, try |-> v.try + 1, nextAt |-> clock + 1, score |-> clock + 1]}]
            /\ UNCHANGED settled
      /\ UNCHANGED <<requests, admin, sweep, faults, requeued, lost, mixed>>
  BY <1>1 DEF Work, AddElement
<1>3. TypeOK /\ SweepInv /\ queue \in Seq(Attempt) /\ clock \in Nat /\ "retries" \in SetNames
  BY DEF BaseInv, TypeOK, SetNames
<1>4. v \in Attempt /\ v.jid \in Jobs /\ v.try \in Nat /\ queue' \in Seq(Attempt)
  <2>1. v \in Attempt /\ queue' \in Seq(Attempt)
    BY <1>1, <1>2, <1>3
  <2> QED
    BY <2>1 DEF Attempt
<1>5. CASE settled' = settled \cup {v.jid} /\ UNCHANGED <<zset, clock>>
  <2>1. Taken("retries", {})
    BY <1>3, <1>5, NothingTaken
  <2>2. /\ requests' \in Nat /\ sweep' \in SUBSET Attempt /\ SweepInv'
        /\ settled \subseteq settled' /\ settled' \subseteq Jobs
        /\ faults' \in Nat /\ lost' \subseteq Jobs
    BY <1>2, <1>3, <1>4, <1>5 DEF TypeOK, SweepInv
  <2>3. BaseInv' /\ NoneRequeues /\ \A b \in Admins : HandOf(b)' = HandOf(b)
    BY <1>2, <1>3, <1>4, <1>5, <2>1, <2>2, EnvBase
  <2>4. Works(v)
    BY <2>2, <2>3, <1>1, <1>2, <1>4 DEF Works
  <2> QED
    BY <2>3, <2>4, <1>5
<1>6. ASSUME clock' = clock + 1, UNCHANGED settled,
             NEW z, z = [jid |-> v.jid, try |-> v.try + 1, nextAt |-> clock + 1, score |-> clock + 1],
             zset' = [zset EXCEPT !["retries"] = zset["retries"] \cup {z}]
      PROVE  BaseInv' /\ NoneRequeues /\ Works(v) /\ Fails(v, z)
  <2>1. /\ z \in Entry /\ z.jid = v.jid /\ z.try = v.try + 1 /\ z.score = clock + 1
    <3>1. v.try + 1 \in Nat /\ clock + 1 \in Nat
      BY <1>3, <1>4
    <3> QED
      BY <3>1, <1>4, <1>6 DEF Entry
  <2>2. zset["retries"] \cup {z} \in SUBSET Entry /\ zset \in [SetNames -> SUBSET Entry]
    BY <2>1, <1>3 DEF TypeOK
  <2>3. /\ zset' \in [SetNames -> SUBSET Entry]
        /\ zset'["retries"] = zset["retries"] \cup {z}
        /\ \A t \in SetNames : t # "retries" => zset'[t] = zset[t]
    BY <2>2, <1>3, <1>6, SetChanges
  <2>4. TypeOK' /\ SweepInv'
    BY <2>3, <1>2, <1>3, <1>4, <1>6 DEF TypeOK, SweepInv
  <2>5. RequestInv'
    BY <1>2, <1>6 DEF BaseInv, RequestInv, Busy
  <2>6. FiniteInv'
    <3>1. IsFiniteSet(zset["retries"] \cup {z})
      BY <1>3, FS_AddElement DEF BaseInv, FiniteInv
    <3> QED
      BY <3>1, <2>3 DEF BaseInv, FiniteInv
  <2>8. NoneRequeues /\ \A b \in Admins : HandOf(b)' = HandOf(b)
    BY <1>2 DEF NoneRequeues, Requeueing, HandOf
  <2> QED
    BY <2>1, <2>3, <2>4, <2>5, <2>6, <2>8, <1>1, <1>2, <1>4, <1>6 DEF BaseInv, Works, Fails
<1> QED
  BY <1>2, <1>5, <1>6

\* Crash: the requests and the scheduler are gone with what they held.
LEMMA CrashFacts ==
    ASSUME BaseInv, Crash
    PROVE  BaseInv' /\ NoneRequeues /\ Drops
<1>1. /\ faults' = faults + 1
      /\ admin' = [a \in Admins |-> IdleAdmin]
      /\ sweep' = {}
      /\ lost' = lost \cup {j \in Jobs : Swept(j) \/ \E a \in Admins : Carries(a, j)}
      /\ UNCHANGED <<queue, zset, clock, requests, requeued, settled, mixed>>
  BY DEF Crash, Fault
<1>2. TypeOK'
  BY <1>1, Types DEF BaseInv, TypeOK
<1>3. \A a \in Admins : admin'[a] = IdleAdmin
  BY <1>1
<1>4. RequestInv'
  BY <1>3 DEF RequestInv, Busy, BusyStates, IdleAdmin, AllPages
<1>5. SweepInv' /\ FiniteInv'
  BY <1>1 DEF BaseInv, SweepInv, FiniteInv
<1>7. NoneRequeues /\ \A b \in Admins : HandOf(b)' = {}
  BY <1>3 DEF NoneRequeues, Requeueing, HandOf, IdleAdmin
<1>8. ASSUME NEW w \in sweep PROVE w.jid \in lost'
  <2>1. w.jid \in Jobs
    BY DEF BaseInv, TypeOK, Attempt
  <2> QED
    BY <2>1, <1>1 DEF Swept
<1>9. ASSUME NEW a \in Admins, NEW w \in HandOf(a) PROVE w.jid \in lost'
  <2>1. admin[a].pc \in {"enqueue", "bury"} /\ w = AttemptOf(admin[a].hand) /\ Busy(a)
    BY DEF HandOf, Busy, BusyStates
  <2>2. w.jid = admin[a].hand.jid /\ w.jid \in Jobs
    BY <2>1, RequestFacts, Types
  <2>3. Carries(a, w.jid)
    BY <2>1, <2>2 DEF Carries
  <2> QED
    BY <2>2, <2>3, <1>1
<1>10. Drops
  BY <1>1, <1>7, <1>8, <1>9 DEF Drops
<1> QED
  BY <1>2, <1>4, <1>5, <1>7, <1>10 DEF BaseInv

\* AddFails: the request goes on without what it held.
LEMMA AddFailsFacts ==
    ASSUME BaseInv, NEW a \in Admins, AddFails(a)
    PROVE  BaseInv' /\ NoneRequeues /\ Drops
<1>1. PICK k, h, w : k = admin[a].key /\ h = admin[a].hand /\ w = AttemptOf(h)
  OBVIOUS
<1>2. /\ faults' = faults + 1 /\ admin[a].pc = "enqueue" /\ Busy(a)
      /\ lost' = lost \cup {h.jid} /\ Done(a, k)
      /\ UNCHANGED <<queue, zset, clock, requests, sweep, requeued, settled, mixed>>
  BY <1>1 DEF AddFails, Fault, Busy, BusyStates
<1>3. h \in Entry /\ h.jid \in Jobs /\ w.jid = h.jid /\ HandOf(a) = {w}
  BY <1>1, <1>2, RequestFacts, Types DEF HandOf
<1>4. Moved(a, "next", admin[a].todo \ {k}, Nothing, Nothing) /\ "next" \notin BusyStates
  BY <1>2, RequestFacts, DoneMoves DEF BusyStates
<1>5. Taken("dead", {}) /\ "dead" \in SetNames
  BY <1>2, RequestFacts, NothingTaken DEF SetNames
<1>6. /\ queue' \in Seq(Attempt) /\ requeued' \in [Jobs -> Nat] /\ faults' \in Nat
      /\ lost' \subseteq Jobs /\ mixed' \subseteq Jobs
  BY <1>2, <1>3, RequestFacts
<1>7. BaseInv'
  BY <1>2, <1>4, <1>5, <1>6, StepBase
<1>8. NoneRequeues /\ HandOf(a)' = {} /\ \A b \in Admins : b # a => HandOf(b)' = HandOf(b)
  BY <1>4, MovedHands
<1>9. Drops
  BY <1>2, <1>3, <1>8 DEF Drops
<1> QED
  BY <1>7, <1>8, <1>9

\* SweepFails: the scheduler goes on without what it held.
LEMMA SweepFailsFacts ==
    ASSUME BaseInv, SweepFails
    PROVE  BaseInv' /\ NoneRequeues /\ Drops
<1>1. /\ faults' = faults + 1 /\ lost' = lost \cup {v.jid : v \in sweep} /\ sweep' = {}
      /\ UNCHANGED <<queue, zset, clock, requests, admin, requeued, settled, mixed>>
  BY DEF SweepFails, Fault
<1>2. TypeOK /\ sweep \subseteq Attempt /\ "dead" \in SetNames
  BY DEF BaseInv, TypeOK, SetNames
<1>3. {v.jid : v \in sweep} \subseteq Jobs
  BY <1>2 DEF Attempt
<1>4. Taken("dead", {})
  BY <1>1, <1>2, NothingTaken
<1>5. /\ queue' \in Seq(Attempt) /\ sweep' \in SUBSET Attempt /\ SweepInv' /\ faults' \in Nat
      /\ lost' \subseteq Jobs /\ requests' \in Nat /\ settled \subseteq settled' /\ settled' \subseteq Jobs
  BY <1>1, <1>2, <1>3 DEF TypeOK, SweepInv
<1>6. BaseInv' /\ NoneRequeues /\ \A b \in Admins : HandOf(b)' = HandOf(b)
  BY <1>1, <1>2, <1>4, <1>5, EnvBase
<1>7. Drops
  BY <1>1, <1>6 DEF Drops
<1> QED
  BY <1>6, <1>7

\* Stop: the request is over; what MoveTo held is lost.
LEMMA StopFacts ==
    ASSUME BaseInv, NEW a \in Admins, Stop(a)
    PROVE  BaseInv' /\ NoneRequeues /\ Drops
<1>1. PICK h : h = admin[a].hand
  OBVIOUS
<1>2. /\ faults' = faults + 1 /\ admin[a].pc # "enqueue"
      /\ lost' = IF admin[a].pc = "bury" THEN lost \cup {h.jid} ELSE lost
      /\ admin' = [admin EXCEPT ![a] = IdleAdmin]
      /\ UNCHANGED <<queue, zset, clock, requests, sweep, requeued, settled, mixed>>
  BY <1>1 DEF Stop, Fault
<1>3. /\ IdleAdmin \in Request /\ IdleAdmin.pc = "idle" /\ IdleAdmin.op = "clear"
  BY Types DEF IdleAdmin
<1>4. \A w \in HandOf(a) : w.jid \in lost'
  <2>1. SUFFICES ASSUME NEW w \in HandOf(a) PROVE w.jid \in lost'
    OBVIOUS
  <2>2. admin[a].pc = "bury" /\ w = AttemptOf(h) /\ Busy(a)
    BY <1>1, <1>2 DEF HandOf, Busy, BusyStates
  <2>3. w.jid = h.jid
    BY <2>2, <1>1, RequestFacts, Types
  <2> QED
    BY <2>2, <2>3, <1>2
<1>5. lost' \subseteq Jobs /\ lost \subseteq lost'
  <2>1. CASE admin[a].pc = "bury"
    <3>1. Busy(a)
      BY <2>1 DEF Busy, BusyStates
    <3>2. h.jid \in Jobs
      BY <3>1, <1>1, RequestFacts, Types
    <3> QED
      BY <3>2, <2>1, <1>2, RequestFacts
  <2>2. CASE admin[a].pc # "bury"
    BY <2>2, <1>2, RequestFacts
  <2> QED
    BY <2>1, <2>2
<1>6. /\ requests' \in Nat /\ clock' \in Nat /\ faults' \in Nat
      /\ settled \subseteq settled' /\ settled' \subseteq Jobs
  BY <1>2, RequestFacts DEF TypeOK
<1>7. /\ BaseInv' /\ NoneRequeues /\ HandOf(a)' = {}
      /\ \A b \in Admins : b # a => HandOf(b)' = HandOf(b)
  BY <1>2, <1>3, <1>5, <1>6, RequestReplaced
<1>8. Drops
  BY <1>2, <1>4, <1>5, <1>7 DEF Drops
<1> QED
  BY <1>7, <1>8

\* RequeueFails: nothing is pushed, and the entry is still there.
LEMMA RequeueFailsFacts ==
    ASSUME BaseInv, NEW a \in Admins, NEW e \in admin[a].todo, RequeueFails(a, e)
    PROVE  BaseInv' /\ NoneRequeues /\ Looks /\ UNCHANGED <<settled, requeued>>
<1>1. /\ faults' = faults + 1 /\ admin[a].pc = "next" /\ Goto(a, "drop", e, e)
      /\ UNCHANGED <<queue, zset, clock, requests, sweep, requeued, settled, lost, mixed>>
  BY DEF RequeueFails, Fault, Acts, history
<1>2. e \in Entry /\ "drop" \in PcStates /\ "dead" \in SetNames
  BY RequestFacts DEF PcStates, SetNames
<1>3. Moved(a, "drop", admin[a].todo \ {e}, e, e)
  BY <1>1, <1>2, RequestFacts, GotoMoves
<1>4. Taken("dead", {}) /\ HandOf(a) = {}
  BY <1>1, <1>2, RequestFacts, NothingTaken DEF HandOf
<1>5. /\ queue' \in Seq(Attempt) /\ requeued' \in [Jobs -> Nat] /\ faults' \in Nat
      /\ lost' \subseteq Jobs /\ mixed' \subseteq Jobs
  BY <1>1, RequestFacts
<1>6. BaseInv'
  BY <1>1, <1>2, <1>3, <1>4, <1>5, StepBase
<1>7. NoneRequeues /\ \A b \in Admins : HandOf(b)' = HandOf(b)
  BY <1>3, <1>4, MovedHands
<1> QED
  BY <1>1, <1>6, <1>7 DEF Looks

\* At first each job is in one set.
LEMMA BaseInit ==
    ASSUME Init
    PROVE  BaseInv
<1>1. /\ queue = << >> /\ requests = 0 /\ sweep = {} /\ faults = 0
      /\ zset = [s \in SetNames |->
                   {EntryOf(New(j), Score[j]) : j \in {i \in Jobs : Place[i] = s}}]
      /\ admin = [a \in Admins |-> IdleAdmin]
      /\ requeued = [j \in Jobs |-> 0] /\ settled = {} /\ lost = {} /\ mixed = {}
  BY DEF Init
<1>2. /\ \A j \in Jobs : Score[j] \in Nat
      /\ clock \in Nat /\ \A j \in Jobs : Score[j] <= clock
  <2>1. \A j \in Jobs : Score[j] \in Nat
    BY AdminAssumption
  <2>2. \E n \in {Score[j] : j \in Jobs} : \A j \in Jobs : Score[j] <= n
    BY AdminAssumption
  <2>3. clock \in {Score[j] : j \in Jobs} /\ \A j \in Jobs : Score[j] <= clock
    BY <2>2 DEF Init
  <2> QED
    BY <2>1, <2>3
<1>3. \A j \in Jobs : /\ EntryOf(New(j), Score[j]) \in Entry
                      /\ EntryOf(New(j), Score[j]).score = Score[j]
  BY <1>2 DEF EntryOf, New, Entry
<1>4. TypeOK
  <2>1. zset \in [SetNames -> SUBSET Entry]
    BY <1>1, <1>3
  <2>2. admin \in [Admins -> Request] /\ requeued \in [Jobs -> Nat]
    BY <1>1, Types
  <2> QED
    BY <2>1, <2>2, <1>1, <1>2 DEF TypeOK
<1>5. RequestInv /\ SweepInv
  BY <1>1 DEF RequestInv, Busy, BusyStates, IdleAdmin, AllPages, SweepInv
<1>6. FiniteInv
  <2> SUFFICES ASSUME NEW s \in SetNames PROVE IsFiniteSet(zset[s])
    BY DEF FiniteInv
  <2> DEFINE J == {i \in Jobs : Place[i] = s}
             f == [j \in J |-> EntryOf(New(j), Score[j])]
  <2>1. IsFiniteSet(J)
    BY AdminAssumption, FS_Subset
  <2>2. zset[s] = {f[j] : j \in J}
    BY <1>1
  <2>3. f \in Surjection(J, zset[s])
    BY <2>2 DEF Surjection
  <2> QED
    BY <2>1, <2>3, FS_Surjection
<1> QED
  BY <1>4, <1>5, <1>6 DEF BaseInv

-----------------------------------------------------------------------------
(* No job is lost *)

\* A job stays safe when each of its attempts stays, or gives way to a later one.
LEMMA SafeStep ==
    ASSUME \A w \in Attempt : Somewhere(w) => Safe(w.jid, w.try)',
           Gone \subseteq Gone'
    PROVE  \A j \in Jobs, t \in Nat : Safe(j, t) => Safe(j, t)'
<1> SUFFICES ASSUME NEW j \in Jobs, NEW t \in Nat, Safe(j, t) PROVE Safe(j, t)'
  OBVIOUS
<1>1. CASE j \in Gone
  BY <1>1 DEF Safe
<1>2. ASSUME NEW w \in Attempt, w.jid = j, w.try >= t, Somewhere(w) PROVE Safe(j, t)'
  <2>1. Safe(j, w.try)'
    BY <1>2
  <2>2. CASE j \in Gone'
    BY <2>2 DEF Safe
  <2>3. ASSUME NEW u \in Attempt, u.jid = j, u.try >= w.try, Somewhere(u)' PROVE Safe(j, t)'
    <3>1. u.try \in Nat /\ w.try \in Nat
      BY DEF Attempt
    <3>2. u.try >= t
      BY <3>1, <1>2, <2>3
    <3> QED
      BY <3>2, <2>3 DEF Safe
  <2> QED
    BY <2>1, <2>2, <2>3 DEF Safe
<1> QED
  BY <1>1, <1>2 DEF Safe

\* Then the two invariants about lost jobs are kept, if an attempt in the queue
\* stays there or gives way to a later one.
LEMMA KeptStep ==
    ASSUME BaseInv, PushedInv, KeptInv, NoneRequeues,
           \A w \in Attempt : Somewhere(w) => Safe(w.jid, w.try)',
           \A w \in Attempt : InQueue(w) => InQueue(w)' \/ Safe(w.jid, w.try + 1)',
           Gone \subseteq Gone'
    PROVE  KeptInv' /\ PushedInv'
<1>1. \A j \in Jobs, t \in Nat : Safe(j, t) => Safe(j, t)'
  BY SafeStep
<1>2. KeptInv'
  BY <1>1 DEF KeptInv
<1>3. ASSUME NEW a \in Admins, Requeueing(a)', NEW v, v = AttemptOf(admin'[a].hand)
      PROVE  InQueue(v)' \/ Safe(v.jid, v.try + 1)'
  <2>1. Requeueing(a) /\ v = AttemptOf(admin[a].hand)
    BY <1>3 DEF NoneRequeues
  <2>2. v \in Attempt
    <3>1. Busy(a)
      BY <2>1 DEF Requeueing, Busy, BusyStates
    <3>2. admin[a].hand \in Entry
      BY <3>1, RequestFacts
    <3> QED
      BY <2>1, <3>2, Types
  <2>3. InQueue(v) \/ Safe(v.jid, v.try + 1)
    BY <2>1 DEF PushedInv
  <2>4. v.jid \in Jobs /\ v.try + 1 \in Nat
    BY <2>2 DEF Attempt
  <2> QED
    BY <2>2, <2>3, <2>4, <1>1
<1> QED
  BY <1>2, <1>3 DEF PushedInv

\* An attempt that is somewhere is safe.
LEMMA SomewhereIsSafeNext ==
    ASSUME NEW w \in Attempt, Somewhere(w)' \/ w.jid \in Gone'
    PROVE  Safe(w.jid, w.try)'
<1>1. w.try \in Nat /\ w.try >= w.try
  BY DEF Attempt
<1> QED
  BY <1>1 DEF Safe

\* The kinds of steps.
LEMMA LooksKeeps ==
    ASSUME AdminInv, NoneRequeues, Looks, settled \subseteq settled'
    PROVE  KeptInv' /\ PushedInv'
<1>1. \A w : (Somewhere(w) => Somewhere(w)') /\ (InQueue(w) => InQueue(w)')
  BY DEF Looks, Somewhere, InQueue, InSets, InHands
<1>2. Gone \subseteq Gone'
  BY DEF Looks, Gone
<1> QED
  BY <1>1, <1>2, SomewhereIsSafeNext, KeptStep DEF AdminInv

\* Entries of jobs that may be gone leave a set.
LEMMA LeavesKeeps ==
    ASSUME AdminInv, NoneRequeues,
           NEW s \in SetNames, NEW F, Leaves(s, F), \A x \in F : x.jid \in Gone'
    PROVE  KeptInv' /\ PushedInv'
<1>1. /\ Taken(s, F) /\ UNCHANGED <<queue, sweep>> /\ Gone \subseteq Gone'
      /\ \A b \in Admins : HandOf(b)' = HandOf(b)
  BY DEF Leaves
<1>2. ASSUME NEW w \in Attempt, Somewhere(w) PROVE Somewhere(w)' \/ w.jid \in Gone'
  <2>1. CASE InQueue(w)
    BY <2>1, <1>1 DEF Somewhere, InQueue
  <2>2. CASE InHands(w)
    BY <2>2, <1>1 DEF Somewhere, InHands
  <2>3. ASSUME NEW t \in SetNames, NEW e \in zset[t], AttemptOf(e) = w
        PROVE  Somewhere(w)' \/ w.jid \in Gone'
    <3>1. CASE e \in zset'[t]
      BY <3>1, <2>3 DEF Somewhere, InSets
    <3>2. CASE e \notin zset'[t]
      <4>1. e \in F
        BY <3>2, <1>1 DEF Taken
      <4>2. w.jid = e.jid
        BY <2>3 DEF AttemptOf
      <4> QED
        BY <4>1, <4>2
    <3> QED
      BY <3>1, <3>2
  <2> QED
    BY <2>1, <2>2, <2>3, <1>2 DEF Somewhere, InSets
<1>3. \A w \in Attempt : InQueue(w) => InQueue(w)'
  BY <1>1 DEF InQueue
<1> QED
  BY <1>1, <1>2, <1>3, SomewhereIsSafeNext, KeptStep DEF AdminInv

\* RemoveEntry of MUTATE requeue: what it removes was pushed before.
LEMMA RequeueRemoveKeeps ==
    ASSUME AdminInv, NoneRequeues, NEW a \in Admins, Requeueing(a),
           NEW s \in SetNames, NEW F, Leaves(s, F),
           \A x \in F : AttemptOf(x) = AttemptOf(admin[a].hand)
    PROVE  KeptInv' /\ PushedInv'
<1>1. /\ Taken(s, F) /\ UNCHANGED <<queue, sweep>> /\ Gone \subseteq Gone'
      /\ \A b \in Admins : HandOf(b)' = HandOf(b)
  BY DEF Leaves
<1>2. PICK v : v = AttemptOf(admin[a].hand)
  OBVIOUS
<1>3. v \in Attempt
  <2>1. Busy(a)
    BY DEF Requeueing, Busy, BusyStates
  <2>2. admin[a].hand \in Entry
    BY <2>1, RequestFacts DEF AdminInv
  <2> QED
    BY <2>2, <1>2, Types
<1>4. ASSUME NEW w \in Attempt, w # v, Somewhere(w) PROVE Somewhere(w)'
  <2>1. CASE InQueue(w)
    BY <2>1, <1>1 DEF Somewhere, InQueue
  <2>2. CASE InHands(w)
    BY <2>2, <1>1 DEF Somewhere, InHands
  <2>3. ASSUME NEW t \in SetNames, NEW e \in zset[t], AttemptOf(e) = w
        PROVE  Somewhere(w)'
    <3>1. e \in zset'[t]
      BY <2>3, <1>1, <1>2, <1>4 DEF Taken
    <3> QED
      BY <3>1, <2>3 DEF Somewhere, InSets
  <2> QED
    BY <2>1, <2>2, <2>3, <1>4 DEF Somewhere, InSets
<1>5. Safe(v.jid, v.try)'
  <2>1. InQueue(v) \/ Safe(v.jid, v.try + 1)
    BY <1>2 DEF AdminInv, PushedInv
  <2>2. CASE InQueue(v)
    <3>1. Somewhere(v)'
      BY <2>2, <1>1 DEF Somewhere, InQueue
    <3> QED
      BY <3>1, <1>3, SomewhereIsSafeNext
  <2>3. CASE v.jid \in Gone
    BY <2>3, <1>1 DEF Safe
  <2>4. ASSUME NEW u \in Attempt, u.jid = v.jid, u.try >= v.try + 1, Somewhere(u)
        PROVE  Safe(v.jid, v.try)'
    <3>1. u.try \in Nat /\ v.try \in Nat
      BY <1>3 DEF Attempt
    <3>2. u # v /\ u.try >= v.try
      BY <3>1, <2>4
    <3> QED
      BY <3>2, <2>4, <1>4 DEF Safe
  <2> QED
    BY <2>1, <2>2, <2>3, <2>4 DEF Safe
<1>6. \A w \in Attempt : Somewhere(w) => Safe(w.jid, w.try)'
  BY <1>4, <1>5, SomewhereIsSafeNext
<1>7. \A w \in Attempt : InQueue(w) => InQueue(w)'
  BY <1>1 DEF InQueue
<1> QED
  BY <1>1, <1>6, <1>7, KeptStep DEF AdminInv

\* An attempt that was taken out of a set is in somebody's hands.
LEMMA LiftsKeeps ==
    ASSUME AdminInv, NoneRequeues, NEW a \in Admins, NEW s \in SetNames, NEW F, NEW v,
           Lifts(s, F, a, v)
    PROVE  KeptInv' /\ PushedInv'
<1>1. /\ Taken(s, F) /\ \A e \in F : AttemptOf(e) = v \/ {e.jid, v.jid} \subseteq mixed'
      /\ UNCHANGED <<queue, sweep, lost, settled>> /\ mixed \subseteq mixed'
      /\ HandOf(a) = {} /\ HandOf(a)' = {v}
      /\ \A b \in Admins : b # a => HandOf(b)' = HandOf(b)
  BY DEF Lifts
<1>2. ASSUME NEW w \in Attempt, Somewhere(w) PROVE Somewhere(w)' \/ w.jid \in Gone'
  <2>1. CASE InQueue(w)
    BY <2>1, <1>1 DEF Somewhere, InQueue
  <2>2. CASE InHands(w)
    BY <2>2, <1>1 DEF Somewhere, InHands
  <2>3. ASSUME NEW t \in SetNames, NEW e \in zset[t], AttemptOf(e) = w
        PROVE  Somewhere(w)' \/ w.jid \in Gone'
    <3>1. CASE e \in zset'[t]
      BY <3>1, <2>3 DEF Somewhere, InSets
    <3>2. CASE e \notin zset'[t]
      <4>1. e \in F /\ w.jid = e.jid
        BY <3>2, <2>3, <1>1 DEF Taken, AttemptOf
      <4>2. w = v \/ w.jid \in mixed'
        BY <4>1, <2>3, <1>1
      <4>3. CASE w = v
        BY <4>3, <1>1 DEF Somewhere, InHands
      <4>4. CASE w.jid \in mixed'
        BY <4>4 DEF Gone
      <4> QED
        BY <4>2, <4>3, <4>4
    <3> QED
      BY <3>1, <3>2
  <2> QED
    BY <2>1, <2>2, <2>3, <1>2 DEF Somewhere, InSets
<1>3. \A w \in Attempt : InQueue(w) => InQueue(w)'
  BY <1>1 DEF InQueue
<1>4. Gone \subseteq Gone'
  BY <1>1 DEF Gone
<1> QED
  BY <1>2, <1>3, <1>4, SomewhereIsSafeNext, KeptStep DEF AdminInv

\* The scheduler takes an entry out of a set.
LEMMA SweepLiftsKeeps ==
    ASSUME AdminInv, NoneRequeues, NEW s \in SetNames, NEW x, SweepLifts(s, x)
    PROVE  KeptInv' /\ PushedInv'
<1>1. /\ Taken(s, {x}) /\ UNCHANGED <<queue, lost, settled, mixed>>
      /\ sweep = {} /\ sweep' = {AttemptOf(x)}
      /\ \A b \in Admins : HandOf(b)' = HandOf(b)
  BY DEF SweepLifts
<1>2. ASSUME NEW w \in Attempt, Somewhere(w) PROVE Somewhere(w)'
  <2>1. CASE InQueue(w)
    BY <2>1, <1>1 DEF Somewhere, InQueue
  <2>2. CASE InHands(w)
    BY <2>2, <1>1 DEF Somewhere, InHands
  <2>3. ASSUME NEW t \in SetNames, NEW e \in zset[t], AttemptOf(e) = w
        PROVE  Somewhere(w)'
    <3>1. CASE e \in zset'[t]
      BY <3>1, <2>3 DEF Somewhere, InSets
    <3>2. CASE e \notin zset'[t]
      <4>1. e = x
        BY <3>2, <1>1 DEF Taken
      <4> QED
        BY <4>1, <2>3, <1>1 DEF Somewhere, InHands
    <3> QED
      BY <3>1, <3>2
  <2> QED
    BY <2>1, <2>2, <2>3, <1>2 DEF Somewhere, InSets
<1>3. \A w \in Attempt : InQueue(w) => InQueue(w)'
  BY <1>1 DEF InQueue
<1>9. Gone \subseteq Gone'
  BY <1>1 DEF Gone
<1> QED
  BY <1>9, <1>1, <1>2, <1>3, SomewhereIsSafeNext, KeptStep DEF AdminInv

\* A queue that grows keeps what it holds.
LEMMA AppendKeeps ==
    ASSUME queue \in Seq(Attempt), NEW v \in Attempt, queue' = Append(queue, v)
    PROVE  /\ \A w : InQueue(w)' <=> InQueue(w) \/ w = v
           /\ Len(queue') = Len(queue) + 1 /\ Len(queue) \in Nat
           /\ \A i \in 1..Len(queue) : queue'[i] = queue[i]
           /\ queue'[Len(queue) + 1] = v
<1>1. /\ Len(queue') = Len(queue) + 1 /\ Len(queue) \in Nat
      /\ \A i \in 1..Len(queue) : queue'[i] = queue[i]
      /\ queue'[Len(queue) + 1] = v
  OBVIOUS
<1>2. \A i : i \in 1..Len(queue') <=> i \in 1..Len(queue) \/ i = Len(queue) + 1
  BY <1>1
<1>3. \A w : InQueue(w)' <=> InQueue(w) \/ w = v
  BY <1>1, <1>2 DEF InQueue
<1> QED
  BY <1>1, <1>3

\* A request pushes what it has in hand.
LEMMA PushesKeeps ==
    ASSUME AdminInv, NoneRequeues, NEW a \in Admins, NEW v \in Attempt, Pushes(a, v)
    PROVE  KeptInv' /\ PushedInv'
<1>1. /\ UNCHANGED <<zset, sweep, lost, settled, mixed>> /\ queue' = Append(queue, v)
      /\ HandOf(a) = {v}
      /\ \A b \in Admins : b # a => HandOf(b)' = HandOf(b)
  BY DEF Pushes
<1>2. \A w : InQueue(w)' <=> InQueue(w) \/ w = v
  BY <1>1, AppendKeeps DEF AdminInv, BaseInv, TypeOK
<1>3. \A w : InHands(w) => InHands(w)' \/ w = v
  BY <1>1 DEF InHands
<1>4. \A w : InSets(w) => InSets(w)'
  BY <1>1 DEF InSets
<1>5. \A w : Somewhere(w) => Somewhere(w)'
  BY <1>2, <1>3, <1>4 DEF Somewhere
<1>9. Gone \subseteq Gone'
  BY <1>1 DEF Gone
<1> QED
  BY <1>9, <1>1, <1>2, <1>5, SomewhereIsSafeNext, KeptStep DEF AdminInv

\* The scheduler pushes what it has in hand.
LEMMA SweepPushesKeeps ==
    ASSUME AdminInv, NoneRequeues, NEW v \in Attempt, SweepPushes(v)
    PROVE  KeptInv' /\ PushedInv'
<1>1. /\ UNCHANGED <<zset, lost, settled, mixed>> /\ queue' = Append(queue, v)
      /\ sweep = {v} /\ \A b \in Admins : HandOf(b)' = HandOf(b)
  BY DEF SweepPushes
<1>2. \A w : InQueue(w)' <=> InQueue(w) \/ w = v
  BY <1>1, AppendKeeps DEF AdminInv, BaseInv, TypeOK
<1>3. \A w : InHands(w) => InHands(w)' \/ w = v
  BY <1>1 DEF InHands
<1>4. \A w : InSets(w) => InSets(w)'
  BY <1>1 DEF InSets
<1>5. \A w : Somewhere(w) => Somewhere(w)'
  BY <1>2, <1>3, <1>4 DEF Somewhere
<1>9. Gone \subseteq Gone'
  BY <1>1 DEF Gone
<1> QED
  BY <1>9, <1>1, <1>2, <1>5, SomewhereIsSafeNext, KeptStep DEF AdminInv

\* The attempt that is buried takes the place of the same member.
LEMMA BuriesKeeps ==
    ASSUME AdminInv, NoneRequeues, NEW a \in Admins, NEW v \in Attempt, Buries(a, v)
    PROVE  KeptInv' /\ PushedInv'
<1>1. /\ UNCHANGED <<queue, sweep, lost, settled, mixed>>
      /\ \A t \in SetNames : t # "dead" => zset'[t] = zset[t]
      /\ HandOf(a) = {v}
      /\ \A b \in Admins : b # a => HandOf(b)' = HandOf(b)
  BY DEF Buries
<1>2. PICK x \in Entry : /\ AttemptOf(x) = v
                         /\ zset'["dead"] = (zset["dead"] \ Same(zset["dead"], x)) \cup {x}
  BY DEF Buries
<1>3. InSets(v)'
  BY <1>2 DEF InSets, SetNames
<1>4. ASSUME NEW w, InSets(w) PROVE InSets(w)'
  <2>a. PICK t \in SetNames : \E e \in zset[t] : AttemptOf(e) = w
    BY <1>4 DEF InSets
  <2>1. PICK e \in zset[t] : AttemptOf(e) = w
    BY <2>a
  <2>2. CASE e \in zset'[t]
    BY <2>1, <2>2 DEF InSets
  <2>3. CASE e \notin zset'[t]
    <3>1. e \in Same(zset["dead"], x)
      BY <2>1, <2>3, <1>1, <1>2
    <3>2. w = v
      BY <3>1, <2>1, <1>2 DEF Same
    <3> QED
      BY <3>2, <1>3
  <2> QED
    BY <2>2, <2>3
<1>5. \A w : InHands(w) => InHands(w)' \/ w = v
  BY <1>1 DEF InHands
<1>6. \A w : InQueue(w) => InQueue(w)'
  BY <1>1 DEF InQueue
<1>7. \A w : Somewhere(w) => Somewhere(w)'
  BY <1>3, <1>4, <1>5, <1>6 DEF Somewhere
<1>9. Gone \subseteq Gone'
  BY <1>1 DEF Gone
<1> QED
  BY <1>9, <1>1, <1>6, <1>7, SomewhereIsSafeNext, KeptStep DEF AdminInv

\* MUTATE requeue: the attempt is in the queue when its request goes on.
LEMMA RequeuesKeeps ==
    ASSUME AdminInv, NEW a \in Admins, NEW v \in Attempt, Requeues(a, v)
    PROVE  KeptInv' /\ PushedInv'
<1>1. /\ UNCHANGED <<zset, sweep, lost, settled, mixed>> /\ queue' = Append(queue, v)
      /\ \A b \in Admins : HandOf(b)' = HandOf(b)
      /\ AttemptOf(admin'[a].hand) = v
      /\ \A b \in Admins : b # a => admin'[b] = admin[b]
  BY DEF Requeues
<1>2. \A w : InQueue(w)' <=> InQueue(w) \/ w = v
  BY <1>1, AppendKeeps DEF AdminInv, BaseInv, TypeOK
<1>3. \A w : Somewhere(w) => Somewhere(w)'
  BY <1>1, <1>2 DEF Somewhere, InHands, InSets
<1>7. Gone \subseteq Gone'
  BY <1>1 DEF Gone
<1>4. \A j \in Jobs, t \in Nat : Safe(j, t) => Safe(j, t)'
  BY <1>3, <1>7, SomewhereIsSafeNext, SafeStep
<1>5. KeptInv'
  BY <1>4 DEF AdminInv, KeptInv
<1>6. ASSUME NEW b \in Admins, Requeueing(b)', NEW u, u = AttemptOf(admin'[b].hand)
      PROVE  InQueue(u)' \/ Safe(u.jid, u.try + 1)'
  <2>1. CASE b = a
    BY <2>1, <1>1, <1>2, <1>6
  <2>2. CASE b # a
    <3>1. Requeueing(b) /\ u = AttemptOf(admin[b].hand) /\ Busy(b)
      BY <2>2, <1>1, <1>6 DEF Requeueing, Busy, BusyStates
    <3>2. u.jid \in Jobs /\ u.try + 1 \in Nat
      <4>1. admin[b].hand \in Entry
        BY <3>1, RequestFacts DEF AdminInv
      <4>2. u \in Attempt
        BY <3>1, <4>1, Types
      <4> QED
        BY <4>2 DEF Attempt
    <3>3. InQueue(u) \/ Safe(u.jid, u.try + 1)
      BY <3>1 DEF AdminInv, PushedInv
    <3> QED
      BY <3>2, <3>3, <1>2, <1>4
  <2> QED
    BY <2>1, <2>2
<1> QED
  BY <1>5, <1>6 DEF PushedInv

\* A worker: the oldest attempt is done, or the next one of its job is stored.
LEMMA WorksKeeps ==
    ASSUME AdminInv, NoneRequeues, NEW v, Works(v),
           (UNCHANGED zset /\ v.jid \in settled') \/ \E z : Fails(v, z)
    PROVE  KeptInv' /\ PushedInv'
<1>1. /\ v \in Attempt /\ queue # << >> /\ v = Head(queue) /\ queue' = Tail(queue)
      /\ UNCHANGED <<sweep, lost, mixed>> /\ settled \subseteq settled'
      /\ \A b \in Admins : HandOf(b)' = HandOf(b)
  BY DEF Works
<1>2. \A w : InQueue(w) => InQueue(w)' \/ w = v
  <2> SUFFICES ASSUME NEW w, NEW i \in 1..Len(queue), queue[i] = w PROVE InQueue(w)' \/ w = v
    BY DEF InQueue
  <2>1. queue \in Seq(Attempt)
    BY DEF AdminInv, BaseInv, TypeOK
  <2>2. /\ Len(queue') = Len(queue) - 1 /\ Len(queue) \in Nat /\ v = queue[1]
        /\ \A k \in 1..(Len(queue) - 1) : queue'[k] = queue[k + 1]
    BY <2>1, <1>1
  <2>3. CASE i = 1
    BY <2>2, <2>3
  <2>4. CASE i # 1
    <3>1. i - 1 \in 1..Len(queue') /\ i - 1 \in 1..(Len(queue) - 1) /\ (i - 1) + 1 = i
      BY <2>2, <2>4
    <3>2. queue'[i - 1] = queue[i]
      BY <3>1, <2>2
    <3> QED
      BY <3>1, <3>2 DEF InQueue
  <2> QED
    BY <2>3, <2>4
<1>3. v.try \in Nat /\ v.try + 1 >= v.try /\ v.try + 1 >= v.try + 1
  BY <1>1 DEF Attempt
<1>4. Safe(v.jid, v.try)' /\ Safe(v.jid, v.try + 1)'
  <2>1. CASE v.jid \in settled'
    BY <2>1 DEF Safe, Gone
  <2>2. ASSUME NEW z, Fails(v, z) PROVE Safe(v.jid, v.try)' /\ Safe(v.jid, v.try + 1)'
    <3>1. z \in Entry /\ z.jid = v.jid /\ z.try = v.try + 1 /\ z \in zset'["retries"]
      BY <2>2 DEF Fails
    <3>2. /\ AttemptOf(z) \in Attempt /\ AttemptOf(z).jid = v.jid
          /\ AttemptOf(z).try = v.try + 1
      BY <3>1, Types
    <3>3. Somewhere(AttemptOf(z))'
      <4>1. PICK u : u = AttemptOf(z)
        OBVIOUS
      <4>2. InSets(u)'
        BY <4>1, <3>1 DEF InSets, SetNames
      <4> QED
        BY <4>1, <4>2 DEF Somewhere, InQueue, InSets, InHands
    <3> QED
      BY <3>2, <3>3, <1>3 DEF Safe
  <2> QED
    BY <2>1, <2>2
<1>5. \A w : InSets(w) => InSets(w)'
  <2>1. \A t \in SetNames : zset[t] \subseteq zset'[t]
    BY DEF Fails
  <2> QED
    BY <2>1 DEF InSets
<1>6. \A w : InHands(w) => InHands(w)'
  BY <1>1 DEF InHands
<1>7. \A w \in Attempt : Somewhere(w) => Safe(w.jid, w.try)'
  BY <1>2, <1>4, <1>5, <1>6, SomewhereIsSafeNext DEF Somewhere
<1>8. \A w \in Attempt : InQueue(w) => InQueue(w)' \/ Safe(w.jid, w.try + 1)'
  BY <1>2, <1>4
<1>9. Gone \subseteq Gone'
  BY <1>1 DEF Gone
<1> QED
  BY <1>9, <1>7, <1>8, KeptStep DEF AdminInv

\* A crash or an error: what was in hand is lost or still there, the rest stays.
LEMMA DropsKeeps ==
    ASSUME AdminInv, NoneRequeues, Drops
    PROVE  KeptInv' /\ PushedInv'
<1>1. /\ UNCHANGED <<queue, zset, settled, mixed>> /\ lost \subseteq lost'
      /\ \A w \in sweep \ sweep' : w.jid \in lost'
      /\ \A b \in Admins : \A w \in HandOf(b) \ HandOf(b)' : w.jid \in lost'
  BY DEF Drops
<1>2. \A w \in Attempt : InHands(w) => InHands(w)' \/ w.jid \in lost'
  BY <1>1 DEF InHands
<1>3. \A w \in Attempt : Somewhere(w) => Somewhere(w)' \/ w.jid \in lost'
  BY <1>1, <1>2 DEF Somewhere, InQueue, InSets
<1>4. \A w \in Attempt : InQueue(w) => InQueue(w)'
  BY <1>1 DEF InQueue
<1>5. Gone \subseteq Gone' /\ lost' \subseteq Gone'
  BY <1>1 DEF Gone
<1> QED
  BY <1>3, <1>4, <1>5, SomewhereIsSafeNext, KeptStep DEF AdminInv

-----------------------------------------------------------------------------
(* No job is doubled: the copies of a job, structure by structure *)

\* The places of job j in a queue.
Places(q, j) == {i \in 1..Len(q) : q[i].jid = j}

\* There are finitely many.
LEMMA PlacesFinite ==
    ASSUME NEW q \in Seq(Attempt), NEW j
    PROVE  IsFiniteSet(Places(q, j)) /\ Cardinality(Places(q, j)) \in Nat
<1>1. IsFiniteSet(1..Len(q))
  BY FS_Interval
<1>2. Places(q, j) \subseteq 1..Len(q)
  BY DEF Places
<1> QED
  BY <1>1, <1>2, FS_Subset, FS_CardinalityType

\* A push adds one place for the job it pushes.
LEMMA PlacesAppend ==
    ASSUME NEW q \in Seq(Attempt), NEW v \in Attempt, NEW j
    PROVE  Cardinality(Places(Append(q, v), j)) =
             IF v.jid = j THEN Cardinality(Places(q, j)) + 1 ELSE Cardinality(Places(q, j))
<1>1. PICK r : r = Append(q, v)
  OBVIOUS
<1>2. /\ Len(q) \in Nat /\ Len(r) = Len(q) + 1 /\ r[Len(q) + 1] = v
      /\ \A i \in 1..Len(q) : r[i] = q[i]
  BY <1>1
<1>3. \A i : i \in 1..Len(r) <=> i \in 1..Len(q) \/ i = Len(q) + 1
  BY <1>2
<1>4. Len(q) + 1 \notin Places(q, j)
  BY <1>2 DEF Places
<1>5. CASE v.jid = j
  <2>1. Places(r, j) = Places(q, j) \cup {Len(q) + 1}
    BY <1>2, <1>3, <1>5 DEF Places
  <2> QED
    BY <2>1, <1>1, <1>4, <1>5, PlacesFinite, FS_AddElement
<1>6. CASE v.jid # j
  <2>1. Places(r, j) = Places(q, j)
    BY <1>2, <1>3, <1>6 DEF Places
  <2> QED
    BY <2>1, <1>1, <1>6
<1> QED
  BY <1>5, <1>6

\* A pop takes the first place.
LEMMA PlacesTail ==
    ASSUME NEW q \in Seq(Attempt), q # << >>, NEW j
    PROVE  Cardinality(Places(Tail(q), j)) =
             IF Head(q).jid = j THEN Cardinality(Places(q, j)) - 1 ELSE Cardinality(Places(q, j))
<1>1. PICK r : r = Tail(q)
  OBVIOUS
<1>2. /\ Len(q) \in Nat /\ Len(q) >= 1 /\ Len(r) = Len(q) - 1 /\ q[1] = Head(q)
      /\ r \in Seq(Attempt)
      /\ \A i \in 1..(Len(q) - 1) : r[i] = q[i + 1]
  BY <1>1
<1> DEFINE T == Places(q, j) \ {1}
           R == Places(r, j)
           f == [i \in R |-> i + 1]
<1>3. R \subseteq 1..(Len(q) - 1) /\ R \subseteq Nat
  BY <1>2 DEF Places
<1>4. \A i \in R : i + 1 \in T
  BY <1>2, <1>3 DEF Places
<1>5. \A k \in T : k - 1 \in R /\ (k - 1) + 1 = k
  <2> SUFFICES ASSUME NEW k \in T PROVE k - 1 \in R /\ (k - 1) + 1 = k
    OBVIOUS
  <2>1. k \in 1..Len(q) /\ k # 1 /\ q[k].jid = j
    BY DEF Places
  <2>2. k - 1 \in 1..(Len(q) - 1) /\ (k - 1) + 1 = k /\ k - 1 \in 1..Len(r)
    BY <2>1, <1>2
  <2>3. r[k - 1] = q[k]
    BY <2>2, <1>2
  <2> QED
    BY <2>1, <2>2, <2>3 DEF Places
<1>6. f \in Bijection(R, T)
  <2>1. f \in [R -> T]
    BY <1>4
  <2>2. \A i, k \in R : f[i] = f[k] => i = k
    BY <1>3
  <2>3. \A k \in T : \E i \in R : f[i] = k
    BY <1>5
  <2> HIDE DEF f, R, T
  <2> QED
    BY <2>1, <2>2, <2>3 DEF Bijection, Injection, Surjection, IsInjective
<1>7. IsFiniteSet(R)
  BY <1>2, PlacesFinite
<1>8. Cardinality(T) = Cardinality(R)
  <2> HIDE DEF f, R, T
  <2> QED
    BY <1>6, <1>7, FS_Bijection DEF ExistsBijection
<1>9. Cardinality(T) = IF 1 \in Places(q, j) THEN Cardinality(Places(q, j)) - 1
                                              ELSE Cardinality(Places(q, j))
  BY PlacesFinite, FS_RemoveElement
<1>10. 1 \in Places(q, j) <=> Head(q).jid = j
  BY <1>2 DEF Places
<1> QED
  BY <1>1, <1>8, <1>9, <1>10

\* The entries of a job in a set.
LEMMA OfFinite ==
    ASSUME NEW S, IsFiniteSet(S), NEW j
    PROVE  IsFiniteSet(Of(S, j)) /\ Cardinality(Of(S, j)) \in Nat
<1>1. Of(S, j) \subseteq S
  BY DEF Of
<1> QED
  BY <1>1, FS_Subset, FS_CardinalityType

\* They are fewer when one of them is removed.
LEMMA OfRemoved ==
    ASSUME NEW S, IsFiniteSet(S), NEW F, NEW j
    PROVE  /\ Cardinality(Of(S \ F, j)) <= Cardinality(Of(S, j))
           /\ (\E e \in F : e \in S /\ e.jid = j)
                => Cardinality(Of(S \ F, j)) <= Cardinality(Of(S, j)) - 1
<1>1. Of(S \ F, j) \subseteq Of(S, j)
  BY DEF Of
<1>2. Cardinality(Of(S \ F, j)) <= Cardinality(Of(S, j))
  BY <1>1, OfFinite, FS_Subset
<1>3. ASSUME NEW e \in F, e \in S, e.jid = j
      PROVE  Cardinality(Of(S \ F, j)) <= Cardinality(Of(S, j)) - 1
  <2>1. Of(S \ F, j) \subseteq Of(S, j) \ {e}
    BY <1>3 DEF Of
  <2>2. e \in Of(S, j)
    BY <1>3 DEF Of
  <2>3. IsFiniteSet(Of(S, j) \ {e}) /\ Cardinality(Of(S, j) \ {e}) = Cardinality(Of(S, j)) - 1
    BY <2>2, OfFinite, FS_RemoveElement
  <2>4. Cardinality(Of(S \ F, j)) <= Cardinality(Of(S, j) \ {e})
    BY <2>1, <2>3, FS_Subset
  <2> QED
    BY <2>3, <2>4
<1> QED
  BY <1>2, <1>3

\* They are one more at most when an entry is added.
LEMMA OfAdded ==
    ASSUME NEW S, IsFiniteSet(S), NEW x, NEW j
    PROVE  Cardinality(Of(S \cup {x}, j)) <=
             IF x.jid = j THEN Cardinality(Of(S, j)) + 1 ELSE Cardinality(Of(S, j))
<1>1. CASE x.jid = j
  <2>1. Of(S \cup {x}, j) = Of(S, j) \cup {x}
    BY <1>1 DEF Of
  <2>2. IsFiniteSet(Of(S, j)) /\ Cardinality(Of(S, j)) \in Nat
    BY OfFinite
  <2>3. Cardinality(Of(S, j) \cup {x}) =
          IF x \in Of(S, j) THEN Cardinality(Of(S, j)) ELSE Cardinality(Of(S, j)) + 1
    BY <2>2, FS_AddElement
  <2>4. Cardinality(Of(S, j) \cup {x}) <= Cardinality(Of(S, j)) + 1
    BY <2>2, <2>3
  <2> QED
    BY <2>1, <2>4, <1>1
<1>2. CASE x.jid # j
  <2>1. Of(S \cup {x}, j) = Of(S, j)
    BY <1>2 DEF Of
  <2> QED
    BY <2>1, <1>2, OfFinite
<1> QED
  BY <1>1, <1>2

\* The requests that carry a job, by what they have in hand.
LEMMA CarryingIs ==
    ASSUME NEW j
    PROVE  /\ \A a : a \in Carrying(j) <=> a \in Admins /\ \E w \in HandOf(a) : w.jid = j
           /\ \A a : a \in Carrying(j)' <=> a \in Admins /\ \E w \in HandOf(a)' : w.jid = j
           /\ IsFiniteSet(Carrying(j)) /\ Cardinality(Carrying(j)) \in Nat
           /\ IsFiniteSet(Carrying(j))' /\ Cardinality(Carrying(j))' \in Nat
<1>0. \A h : AttemptOf(h).jid = h.jid
  BY DEF AttemptOf
<1>1. \A a \in Admins : Carries(a, j) <=> \E w \in HandOf(a) : w.jid = j
  BY <1>0 DEF Carries, HandOf
<1>2. \A a \in Admins : Carries(a, j)' <=> \E w \in HandOf(a)' : w.jid = j
  BY <1>0 DEF Carries, HandOf
<1>3. Carrying(j) \subseteq Admins /\ Carrying(j)' \subseteq Admins
  BY DEF Carrying
<1>4. IsFiniteSet(Carrying(j)) /\ IsFiniteSet(Carrying(j)')
  BY <1>3, AdminAssumption, FS_Subset
<1>5. Cardinality(Carrying(j)) \in Nat /\ Cardinality(Carrying(j)') \in Nat
  BY <1>4, FS_CardinalityType
<1> QED
  BY <1>1, <1>2, <1>4, <1>5 DEF Carrying

\* Hands that hold what they held count the same.
LEMMA HandsSame ==
    ASSUME \A b \in Admins : HandOf(b)' = HandOf(b), NEW j
    PROVE  Cardinality(Carrying(j))' = Cardinality(Carrying(j))
<1>0. \A x : x \in Carrying(j)' <=> x \in Carrying(j)
  BY CarryingIs
<1>1. Carrying(j)' = Carrying(j)
  BY <1>0
<1> QED
  BY <1>1

\* Request a takes w.
LEMMA HandsTake ==
    ASSUME NEW a \in Admins, NEW w, HandOf(a) = {}, HandOf(a)' = {w},
           \A b \in Admins : b # a => HandOf(b)' = HandOf(b), NEW j
    PROVE  Cardinality(Carrying(j))' =
             IF w.jid = j THEN Cardinality(Carrying(j)) + 1 ELSE Cardinality(Carrying(j))
<1>1. a \notin Carrying(j)
  BY CarryingIs
<1>2. CASE w.jid = j
  <2>1. Carrying(j)' = Carrying(j) \cup {a}
    BY <1>2, CarryingIs
  <2> QED
    BY <2>1, <1>1, <1>2, CarryingIs, FS_AddElement
<1>3. CASE w.jid # j
  <2>1. \A x : x \in Carrying(j)' <=> x \in Carrying(j)
    BY <1>3, CarryingIs
  <2>2. Carrying(j)' = Carrying(j)
    BY <2>1
  <2> QED
    BY <2>2, <1>3
<1> QED
  BY <1>2, <1>3

\* Request a puts w down.
LEMMA HandsPut ==
    ASSUME NEW a \in Admins, NEW w, HandOf(a) = {w}, HandOf(a)' = {},
           \A b \in Admins : b # a => HandOf(b)' = HandOf(b), NEW j
    PROVE  Cardinality(Carrying(j))' =
             IF w.jid = j THEN Cardinality(Carrying(j)) - 1 ELSE Cardinality(Carrying(j))
<1>2. CASE w.jid = j
  <2>1. Carrying(j)' = Carrying(j) \ {a} /\ a \in Carrying(j)
    BY <1>2, CarryingIs
  <2> QED
    BY <2>1, <1>2, CarryingIs, FS_RemoveElement
<1>3. CASE w.jid # j
  <2>1. \A x : x \in Carrying(j)' <=> x \in Carrying(j)
    BY <1>3, CarryingIs
  <2>2. Carrying(j)' = Carrying(j)
    BY <2>1
  <2> QED
    BY <2>2, <1>3
<1> QED
  BY <1>2, <1>3

(***************************************************************************)
(* The parts of the sum: the queue, a set, the hands of the requests and   *)
(* of the scheduler.                                                       *)
(***************************************************************************)
InQ(j) == Cardinality(Waiting(j))
InZ(s, j) == Cardinality(Of(zset[s], j))
InH(j) == Cardinality(Carrying(j))
InS(j) == IF Swept(j) THEN 1 ELSE 0

\* Copies is their sum, before and after a step.
LEMMA Sums ==
    ASSUME NEW j
    PROVE  /\ Copies(j) = InQ(j) + InZ("scheduled", j) + InZ("retries", j) + InZ("dead", j)
                          + InH(j) + InS(j)
           /\ Copies(j)' = InQ(j)' + InZ("scheduled", j)' + InZ("retries", j)' + InZ("dead", j)'
                           + InH(j)' + InS(j)'
BY DEF Copies, InQ, InZ, InH, InS

\* The parts are numbers, before and after a step.
LEMMA Counted ==
    ASSUME BaseInv, BaseInv', NEW j
    PROVE  /\ InQ(j) \in Nat /\ InQ(j)' \in Nat
           /\ InQ(j) = Cardinality(Places(queue, j)) /\ InQ(j)' = Cardinality(Places(queue', j))
           /\ \A s \in SetNames : InZ(s, j) \in Nat /\ InZ(s, j)' \in Nat
           /\ InH(j) \in Nat /\ InH(j)' \in Nat
           /\ InS(j) \in {0, 1} /\ InS(j)' \in {0, 1}
<1>1. queue \in Seq(Attempt) /\ queue' \in Seq(Attempt)
  BY DEF BaseInv, TypeOK
<1>2. InQ(j) = Cardinality(Places(queue, j)) /\ InQ(j)' = Cardinality(Places(queue', j))
  BY DEF InQ, Waiting, Places
<1>3. InQ(j) \in Nat /\ InQ(j)' \in Nat
  BY <1>1, <1>2, PlacesFinite
<1>4. ASSUME NEW s \in SetNames PROVE InZ(s, j) \in Nat /\ InZ(s, j)' \in Nat
  <2>1. IsFiniteSet(zset[s]) /\ IsFiniteSet(zset'[s])
    BY DEF BaseInv, FiniteInv
  <2> QED
    BY <2>1, OfFinite DEF InZ
<1>5. InH(j) \in Nat /\ InH(j)' \in Nat
  BY CarryingIs DEF InH
<1>6. InS(j) \in {0, 1} /\ InS(j)' \in {0, 1}
  BY DEF InS
<1> QED
  BY <1>2, <1>3, <1>4, <1>5, <1>6

\* The invariant about copies is kept by a step that adds none.
LEMMA CopiesStep ==
    ASSUME AdminInv, BaseInv', UNCHANGED requeued, mixed \subseteq mixed',
           \A j \in Jobs : j \notin mixed' => Copies(j)' <= Copies(j)
    PROVE  CopiesInv'
<1> SUFFICES ASSUME NEW j \in Jobs, j \notin mixed' PROVE Copies(j)' <= 1 + requeued'[j]
  BY DEF CopiesInv
<1>1. Copies(j) \in Nat /\ Copies(j)' \in Nat
  <2>1. "scheduled" \in SetNames /\ "retries" \in SetNames /\ "dead" \in SetNames
    BY DEF SetNames
  <2> QED
    BY <2>1, Counted, Sums DEF AdminInv
<1>2. requeued[j] \in Nat
  BY DEF AdminInv, BaseInv, TypeOK
<1>3. Copies(j) <= 1 + requeued[j] /\ Copies(j)' <= Copies(j) /\ requeued'[j] = requeued[j]
  BY DEF AdminInv, CopiesInv
<1> QED
  BY <1>1, <1>2, <1>3

\* No part of the sum grows, and a part that shrinks pays for one that grows:
\* d is what the hands or the queue gain, and what the set s loses.
LEMMA SumStep ==
    ASSUME AdminInv, BaseInv', NEW j, NEW s \in SetNames,
           NEW d \in Int, NEW q \in Int, NEW h \in Int, NEW u \in Int,
           InZ(s, j)' <= InZ(s, j) + d, \A t \in SetNames : t # s => InZ(t, j)' <= InZ(t, j),
           InQ(j)' <= InQ(j) + q, InH(j)' <= InH(j) + h, InS(j)' <= InS(j) + u,
           d + q + h + u <= 0
    PROVE  Copies(j)' <= Copies(j)
<1>1. /\ InZ("scheduled", j) \in Nat /\ InZ("scheduled", j)' \in Nat
      /\ InZ("retries", j) \in Nat /\ InZ("retries", j)' \in Nat
      /\ InZ("dead", j) \in Nat /\ InZ("dead", j)' \in Nat
      /\ InQ(j) \in Nat /\ InQ(j)' \in Nat /\ InH(j) \in Nat /\ InH(j)' \in Nat
      /\ InS(j) \in Nat /\ InS(j)' \in Nat
  BY Counted DEF AdminInv, SetNames
<1>2. InZ("scheduled", j)' + InZ("retries", j)' + InZ("dead", j)'
        <= InZ("scheduled", j) + InZ("retries", j) + InZ("dead", j) + d
  <2>1. CASE s = "scheduled"
    <3>1. /\ InZ("scheduled", j)' <= InZ("scheduled", j) + d
          /\ InZ("retries", j)' <= InZ("retries", j) /\ InZ("dead", j)' <= InZ("dead", j)
      BY <2>1 DEF SetNames
    <3> QED
      BY <3>1, <1>1
  <2>2. CASE s = "retries"
    <3>1. /\ InZ("retries", j)' <= InZ("retries", j) + d
          /\ InZ("scheduled", j)' <= InZ("scheduled", j) /\ InZ("dead", j)' <= InZ("dead", j)
      BY <2>2 DEF SetNames
    <3> QED
      BY <3>1, <1>1
  <2>3. CASE s = "dead"
    <3>1. /\ InZ("dead", j)' <= InZ("dead", j) + d
          /\ InZ("scheduled", j)' <= InZ("scheduled", j)
          /\ InZ("retries", j)' <= InZ("retries", j)
      BY <2>3 DEF SetNames
    <3> QED
      BY <3>1, <1>1
  <2> QED
    BY <2>1, <2>2, <2>3 DEF SetNames
<1> QED
  BY <1>1, <1>2, Sums

\* What is taken out of a set is missing there.
LEMMA TakenCounts ==
    ASSUME BaseInv, NEW s \in SetNames, NEW F, Taken(s, F), NEW j
    PROVE  /\ \A t \in SetNames : t # s => InZ(t, j)' = InZ(t, j)
           /\ InZ(s, j)' <= InZ(s, j)
           /\ (\E e \in F : e \in zset[s] /\ e.jid = j) => InZ(s, j)' <= InZ(s, j) - 1
<1>1. zset'[s] = zset[s] \ F /\ \A t \in SetNames : t # s => zset'[t] = zset[t]
  BY DEF Taken
<1>2. IsFiniteSet(zset[s])
  BY DEF BaseInv, FiniteInv
<1> QED
  BY <1>1, <1>2, OfRemoved DEF InZ

\* A scheduler that does not move counts the same.
LEMMA SweepSame ==
    ASSUME NEW j, UNCHANGED sweep
    PROVE  InS(j)' = InS(j)
BY DEF InS, Swept

\* The kinds of steps.
LEMMA LooksCounts ==
    ASSUME AdminInv, BaseInv', Looks, UNCHANGED requeued
    PROVE  CopiesInv'
<1>0. mixed \subseteq mixed'
  BY DEF Looks
<1> SUFFICES ASSUME NEW j \in Jobs PROVE Copies(j)' <= Copies(j)
  BY <1>0, CopiesStep
<1>1. InQ(j)' = InQ(j) /\ \A s \in SetNames : InZ(s, j)' = InZ(s, j)
  BY DEF Looks, InQ, InZ, Waiting
<1>2. InH(j)' = InH(j)
  BY HandsSame DEF Looks, InH
<1>3. InS(j)' = InS(j)
  BY SweepSame DEF Looks
<1>4. Copies(j)' = Copies(j)
  BY <1>1, <1>2, <1>3, Sums DEF SetNames
<1>5. Copies(j) \in Nat
  BY Counted, Sums DEF AdminInv, SetNames
<1> QED
  BY <1>4, <1>5

\* Entries leave a set.
LEMMA LeavesCounts ==
    ASSUME AdminInv, BaseInv', UNCHANGED requeued, NEW s \in SetNames, NEW F, Leaves(s, F)
    PROVE  CopiesInv'
<1>0. mixed \subseteq mixed'
  BY DEF Leaves
<1> SUFFICES ASSUME NEW j \in Jobs PROVE Copies(j)' <= Copies(j)
  BY <1>0, CopiesStep
<1>1. InQ(j)' = InQ(j) /\ InH(j)' = InH(j) /\ InS(j)' = InS(j)
  <2>1. InQ(j)' = InQ(j)
    BY DEF Leaves, InQ, Waiting
  <2>2. InH(j)' = InH(j)
    BY HandsSame DEF Leaves, InH
  <2> QED
    BY <2>1, <2>2, SweepSame DEF Leaves
<1>2. /\ InQ(j) \in Nat /\ InH(j) \in Nat /\ InS(j) \in Nat
      /\ \A t \in SetNames : InZ(t, j) \in Nat /\ InZ(t, j)' \in Nat
  BY Counted DEF AdminInv
<1>3. /\ InZ(s, j)' <= InZ(s, j) + 0 /\ \A t \in SetNames : t # s => InZ(t, j)' <= InZ(t, j)
      /\ InQ(j)' <= InQ(j) + 0 /\ InH(j)' <= InH(j) + 0 /\ InS(j)' <= InS(j) + 0
  BY <1>1, <1>2, TakenCounts DEF Leaves, AdminInv
<1>4. 0 \in Int /\ 0 + 0 + 0 + 0 <= 0
  OBVIOUS
<1> QED
  BY <1>3, <1>4, SumStep

\* A push adds one, of the job it pushes.
LEMMA AppendCounts ==
    ASSUME BaseInv, BaseInv', NEW v \in Attempt, queue' = Append(queue, v), NEW j
    PROVE  InQ(j)' = IF v.jid = j THEN InQ(j) + 1 ELSE InQ(j)
<1>1. queue \in Seq(Attempt)
  BY DEF BaseInv, TypeOK
<1> QED
  BY <1>1, PlacesAppend, Counted

\* A pop takes one, of the oldest job.
LEMMA TailCounts ==
    ASSUME BaseInv, BaseInv', queue # << >>, queue' = Tail(queue), NEW j
    PROVE  InQ(j)' = IF Head(queue).jid = j THEN InQ(j) - 1 ELSE InQ(j)
<1>1. queue \in Seq(Attempt)
  BY DEF BaseInv, TypeOK
<1> QED
  BY <1>1, PlacesTail, Counted

\* A request takes entries of one attempt out of a set: the set loses at least what
\* the hand gains.
LEMMA LiftsCounts ==
    ASSUME AdminInv, BaseInv', NEW a \in Admins, NEW s \in SetNames, NEW F, NEW w,
           Lifts(s, F, a, w)
    PROVE  CopiesInv'
<1>0. /\ Taken(s, F) /\ F # {} /\ mixed \subseteq mixed'
      /\ \A e \in F : e \in zset[s] /\ (AttemptOf(e) = w \/ {e.jid, w.jid} \subseteq mixed')
      /\ UNCHANGED <<queue, sweep, requeued>>
      /\ HandOf(a) = {} /\ HandOf(a)' = {w}
      /\ \A b \in Admins : b # a => HandOf(b)' = HandOf(b)
  BY DEF Lifts
<1> SUFFICES ASSUME NEW j \in Jobs, j \notin mixed' PROVE Copies(j)' <= Copies(j)
  BY <1>0, CopiesStep
<1>1. InQ(j)' = InQ(j) /\ InS(j)' = InS(j)
  BY <1>0, SweepSame DEF InQ, Waiting
<1>2. InH(j)' = IF w.jid = j THEN InH(j) + 1 ELSE InH(j)
  BY <1>0, HandsTake DEF InH
<1>3. /\ InQ(j) \in Nat /\ InH(j) \in Nat /\ InS(j) \in Nat
      /\ \A t \in SetNames : InZ(t, j) \in Nat /\ InZ(t, j)' \in Nat
  BY Counted DEF AdminInv
<1>4. /\ \A t \in SetNames : t # s => InZ(t, j)' = InZ(t, j)
      /\ InZ(s, j)' <= InZ(s, j)
      /\ (\E e \in F : e \in zset[s] /\ e.jid = j) => InZ(s, j)' <= InZ(s, j) - 1
  BY <1>0, TakenCounts DEF AdminInv
<1>5. CASE w.jid = j
  <2>1. \E e \in F : e \in zset[s] /\ e.jid = j
    BY <1>0, <1>5 DEF AttemptOf
  <2>2. /\ InZ(s, j)' <= InZ(s, j) + (-1) /\ \A t \in SetNames : t # s => InZ(t, j)' <= InZ(t, j)
        /\ InQ(j)' <= InQ(j) + 0 /\ InH(j)' <= InH(j) + 1 /\ InS(j)' <= InS(j) + 0
    BY <2>1, <1>1, <1>2, <1>3, <1>4, <1>5
  <2>3. 0 \in Int /\ 1 \in Int /\ (-1) \in Int /\ (-1) + 0 + 1 + 0 <= 0
    OBVIOUS
  <2> QED
    BY <2>2, <2>3, SumStep
<1>6. CASE w.jid # j
  <2>2. /\ InZ(s, j)' <= InZ(s, j) + 0 /\ \A t \in SetNames : t # s => InZ(t, j)' <= InZ(t, j)
        /\ InQ(j)' <= InQ(j) + 0 /\ InH(j)' <= InH(j) + 0 /\ InS(j)' <= InS(j) + 0
    BY <1>1, <1>2, <1>3, <1>4, <1>6
  <2>3. 0 \in Int /\ 0 + 0 + 0 + 0 <= 0
    OBVIOUS
  <2> QED
    BY <2>2, <2>3, SumStep
<1> QED
  BY <1>5, <1>6

\* The scheduler takes an entry out of a set.
LEMMA SweepLiftsCounts ==
    ASSUME AdminInv, BaseInv', NEW s \in SetNames, NEW x, SweepLifts(s, x)
    PROVE  CopiesInv'
<1>0. /\ Taken(s, {x}) /\ x \in zset[s] /\ UNCHANGED <<queue, requeued, mixed>>
      /\ sweep = {} /\ sweep' = {AttemptOf(x)}
      /\ \A b \in Admins : HandOf(b)' = HandOf(b)
  BY DEF SweepLifts
<1> SUFFICES ASSUME NEW j \in Jobs PROVE Copies(j)' <= Copies(j)
  BY <1>0, CopiesStep
<1>1. InQ(j)' = InQ(j)
  BY <1>0 DEF InQ, Waiting
<1>2. InH(j)' = InH(j)
  BY <1>0, HandsSame DEF InH
<1>3. /\ InQ(j) \in Nat /\ InH(j) \in Nat /\ InS(j) \in Nat
      /\ \A t \in SetNames : InZ(t, j) \in Nat /\ InZ(t, j)' \in Nat
  BY Counted DEF AdminInv
<1>4. /\ \A t \in SetNames : t # s => InZ(t, j)' = InZ(t, j)
      /\ InZ(s, j)' <= InZ(s, j)
      /\ (\E e \in {x} : e \in zset[s] /\ e.jid = j) => InZ(s, j)' <= InZ(s, j) - 1
  BY <1>0, TakenCounts DEF AdminInv
<1>5. InS(j) = 0 /\ InS(j)' = IF x.jid = j THEN 1 ELSE 0
  BY <1>0 DEF InS, Swept, AttemptOf
<1>6. CASE x.jid = j
  <2>2. /\ InZ(s, j)' <= InZ(s, j) + (-1) /\ \A t \in SetNames : t # s => InZ(t, j)' <= InZ(t, j)
        /\ InQ(j)' <= InQ(j) + 0 /\ InH(j)' <= InH(j) + 0 /\ InS(j)' <= InS(j) + 1
    BY <1>0, <1>1, <1>2, <1>3, <1>4, <1>5, <1>6
  <2>3. 0 \in Int /\ 1 \in Int /\ (-1) \in Int /\ (-1) + 0 + 0 + 1 <= 0
    OBVIOUS
  <2> QED
    BY <2>2, <2>3, SumStep
<1>7. CASE x.jid # j
  <2>2. /\ InZ(s, j)' <= InZ(s, j) + 0 /\ \A t \in SetNames : t # s => InZ(t, j)' <= InZ(t, j)
        /\ InQ(j)' <= InQ(j) + 0 /\ InH(j)' <= InH(j) + 0 /\ InS(j)' <= InS(j) + 0
    BY <1>1, <1>2, <1>3, <1>4, <1>5, <1>7
  <2>3. 0 \in Int /\ 0 + 0 + 0 + 0 <= 0
    OBVIOUS
  <2> QED
    BY <2>2, <2>3, SumStep
<1> QED
  BY <1>6, <1>7

\* A request pushes what it has in hand.
LEMMA PushesCounts ==
    ASSUME AdminInv, BaseInv', NEW a \in Admins, NEW w \in Attempt, Pushes(a, w)
    PROVE  CopiesInv'
<1>0. /\ UNCHANGED <<zset, sweep, requeued, mixed>> /\ queue' = Append(queue, w)
      /\ HandOf(a) = {w} /\ HandOf(a)' = {}
      /\ \A b \in Admins : b # a => HandOf(b)' = HandOf(b)
  BY DEF Pushes
<1> SUFFICES ASSUME NEW j \in Jobs PROVE Copies(j)' <= Copies(j)
  BY <1>0, CopiesStep
<1>1. InQ(j)' = IF w.jid = j THEN InQ(j) + 1 ELSE InQ(j)
  BY <1>0, AppendCounts DEF AdminInv
<1>2. InH(j)' = IF w.jid = j THEN InH(j) - 1 ELSE InH(j)
  BY <1>0, HandsPut DEF InH
<1>3. /\ InS(j)' = InS(j) /\ InZ("scheduled", j)' = InZ("scheduled", j)
      /\ InZ("retries", j)' = InZ("retries", j) /\ InZ("dead", j)' = InZ("dead", j)
  BY <1>0, SweepSame DEF InZ
<1>4. /\ InQ(j) \in Nat /\ InH(j) \in Nat /\ InS(j) \in Nat
      /\ InZ("scheduled", j) \in Nat /\ InZ("retries", j) \in Nat /\ InZ("dead", j) \in Nat
  BY Counted DEF AdminInv, SetNames
<1> QED
  BY <1>1, <1>2, <1>3, <1>4, Sums

\* The scheduler pushes what it has in hand.
LEMMA SweepPushesCounts ==
    ASSUME AdminInv, BaseInv', NEW w \in Attempt, SweepPushes(w)
    PROVE  CopiesInv'
<1>0. /\ UNCHANGED <<zset, requeued, mixed>> /\ queue' = Append(queue, w)
      /\ sweep = {w} /\ sweep' = {}
      /\ \A b \in Admins : HandOf(b)' = HandOf(b)
  BY DEF SweepPushes
<1> SUFFICES ASSUME NEW j \in Jobs PROVE Copies(j)' <= Copies(j)
  BY <1>0, CopiesStep
<1>1. InQ(j)' = IF w.jid = j THEN InQ(j) + 1 ELSE InQ(j)
  BY <1>0, AppendCounts DEF AdminInv
<1>2. InS(j)' = 0 /\ InS(j) = IF w.jid = j THEN 1 ELSE 0
  BY <1>0 DEF InS, Swept
<1>3. InH(j)' = InH(j)
  BY <1>0, HandsSame DEF InH
<1>5. /\ InZ("scheduled", j)' = InZ("scheduled", j)
      /\ InZ("retries", j)' = InZ("retries", j) /\ InZ("dead", j)' = InZ("dead", j)
  BY <1>0 DEF InZ
<1>4. /\ InQ(j) \in Nat /\ InH(j) \in Nat /\ InS(j) \in Nat
      /\ InZ("scheduled", j) \in Nat /\ InZ("retries", j) \in Nat /\ InZ("dead", j) \in Nat
  BY Counted DEF AdminInv, SetNames
<1> QED
  BY <1>1, <1>2, <1>3, <1>4, <1>5, Sums

\* ZADD adds one entry of the job, at most.
LEMMA BuriesCounts ==
    ASSUME AdminInv, BaseInv', NEW a \in Admins, NEW w \in Attempt, Buries(a, w)
    PROVE  CopiesInv'
<1>0. /\ UNCHANGED <<queue, sweep, requeued, mixed>>
      /\ \A t \in SetNames : t # "dead" => zset'[t] = zset[t]
      /\ HandOf(a) = {w} /\ HandOf(a)' = {}
      /\ \A b \in Admins : b # a => HandOf(b)' = HandOf(b)
  BY DEF Buries
<1> SUFFICES ASSUME NEW j \in Jobs PROVE Copies(j)' <= Copies(j)
  BY <1>0, CopiesStep
<1>1. InQ(j)' = InQ(j) /\ InS(j)' = InS(j)
  BY <1>0, SweepSame DEF InQ, Waiting
<1>2. InH(j)' = IF w.jid = j THEN InH(j) - 1 ELSE InH(j)
  BY <1>0, HandsPut DEF InH
<1>3. /\ InZ("scheduled", j)' = InZ("scheduled", j) /\ InZ("retries", j)' = InZ("retries", j)
  BY <1>0 DEF InZ, SetNames
<1>4. /\ InQ(j) \in Nat /\ InH(j) \in Nat /\ InS(j) \in Nat
      /\ InZ("scheduled", j) \in Nat /\ InZ("retries", j) \in Nat
      /\ InZ("dead", j) \in Nat /\ InZ("dead", j)' \in Nat
  BY Counted DEF AdminInv, SetNames
<1>5. InZ("dead", j)' <= IF w.jid = j THEN InZ("dead", j) + 1 ELSE InZ("dead", j)
  <2>1. PICK x \in Entry : /\ AttemptOf(x) = w
                           /\ zset'["dead"] = (zset["dead"] \ Same(zset["dead"], x)) \cup {x}
    BY DEF Buries
  <2>2. x.jid = w.jid
    BY <2>1 DEF AttemptOf
  <2>3. PICK S : S = zset["dead"] \ Same(zset["dead"], x)
    OBVIOUS
  <2>4. IsFiniteSet(zset["dead"])
    BY DEF AdminInv, BaseInv, FiniteInv, SetNames
  <2>5. IsFiniteSet(S)
    BY <2>3, <2>4, FS_Subset
  <2>6. Cardinality(Of(S, j)) <= InZ("dead", j)
    BY <2>3, <2>4, OfRemoved DEF InZ
  <2>7. InZ("dead", j)' <= IF x.jid = j THEN Cardinality(Of(S, j)) + 1 ELSE Cardinality(Of(S, j))
    BY <2>1, <2>3, <2>5, OfAdded DEF InZ
  <2>8. Cardinality(Of(S, j)) \in Nat
    BY <2>5, OfFinite
  <2> QED
    BY <2>2, <2>6, <2>7, <2>8, <1>4
<1> QED
  BY <1>1, <1>2, <1>3, <1>4, <1>5, Sums

\* MUTATE requeue adds a copy and counts it.
LEMMA RequeuesCounts ==
    ASSUME AdminInv, BaseInv', NEW a \in Admins, NEW w \in Attempt, Requeues(a, w)
    PROVE  CopiesInv'
<1>0. /\ UNCHANGED <<zset, sweep, mixed>> /\ queue' = Append(queue, w)
      /\ requeued' = [requeued EXCEPT ![w.jid] = requeued[w.jid] + 1]
      /\ \A b \in Admins : HandOf(b)' = HandOf(b)
  BY DEF Requeues
<1> SUFFICES ASSUME NEW j \in Jobs, j \notin mixed PROVE Copies(j)' <= 1 + requeued'[j]
  BY <1>0 DEF CopiesInv
<1>1. InQ(j)' = IF w.jid = j THEN InQ(j) + 1 ELSE InQ(j)
  BY <1>0, AppendCounts DEF AdminInv
<1>2. InS(j)' = InS(j) /\ InH(j)' = InH(j)
  BY <1>0, SweepSame, HandsSame DEF InH
<1>3. /\ InZ("scheduled", j)' = InZ("scheduled", j)
      /\ InZ("retries", j)' = InZ("retries", j) /\ InZ("dead", j)' = InZ("dead", j)
  BY <1>0 DEF InZ
<1>4. /\ InQ(j) \in Nat /\ InH(j) \in Nat /\ InS(j) \in Nat
      /\ InZ("scheduled", j) \in Nat /\ InZ("retries", j) \in Nat /\ InZ("dead", j) \in Nat
  BY Counted DEF AdminInv, SetNames
<1>5. /\ requeued \in [Jobs -> Nat] /\ w.jid \in Jobs /\ Copies(j) <= 1 + requeued[j]
  BY DEF AdminInv, BaseInv, TypeOK, Attempt, CopiesInv
<1>6. requeued[j] \in Nat /\ requeued'[j] = IF w.jid = j THEN requeued[j] + 1 ELSE requeued[j]
  BY <1>0, <1>5
<1>7. Copies(j)' = IF w.jid = j THEN Copies(j) + 1 ELSE Copies(j)
  BY <1>1, <1>2, <1>3, <1>4, Sums
<1>8. Copies(j) \in Nat
  BY <1>4, Sums
<1> QED
  BY <1>5, <1>6, <1>7, <1>8

\* A worker takes the oldest job; its retry is one entry.
LEMMA WorksCounts ==
    ASSUME AdminInv, BaseInv', NEW v, Works(v), UNCHANGED zset \/ \E z : Fails(v, z)
    PROVE  CopiesInv'
<1>0. /\ queue # << >> /\ v = Head(queue) /\ queue' = Tail(queue)
      /\ UNCHANGED <<sweep, requeued, mixed>>
      /\ \A b \in Admins : HandOf(b)' = HandOf(b)
  BY DEF Works
<1> SUFFICES ASSUME NEW j \in Jobs PROVE Copies(j)' <= Copies(j)
  BY <1>0, CopiesStep
<1>1. InQ(j)' = IF v.jid = j THEN InQ(j) - 1 ELSE InQ(j)
  BY <1>0, TailCounts DEF AdminInv
<1>2. InS(j)' = InS(j) /\ InH(j)' = InH(j)
  BY <1>0, SweepSame, HandsSame DEF InH
<1>3. /\ InQ(j) \in Nat /\ InQ(j)' \in Nat /\ InH(j) \in Nat /\ InS(j) \in Nat
      /\ InZ("scheduled", j) \in Nat /\ InZ("dead", j) \in Nat
      /\ InZ("retries", j) \in Nat /\ InZ("retries", j)' \in Nat
  BY Counted DEF AdminInv, SetNames
<1>4. /\ InZ("scheduled", j)' = InZ("scheduled", j) /\ InZ("dead", j)' = InZ("dead", j)
      /\ InZ("retries", j)' <= IF v.jid = j THEN InZ("retries", j) + 1 ELSE InZ("retries", j)
  <2>1. CASE UNCHANGED zset
    <3>1. \A s : InZ(s, j)' = InZ(s, j)
      BY <2>1 DEF InZ
    <3> QED
      BY <3>1, <1>3
  <2>2. ASSUME NEW z, Fails(v, z)
        PROVE  /\ InZ("scheduled", j)' = InZ("scheduled", j) /\ InZ("dead", j)' = InZ("dead", j)
               /\ InZ("retries", j)' <= IF v.jid = j THEN InZ("retries", j) + 1
                                                      ELSE InZ("retries", j)
    <3>1. /\ zset'["retries"] = zset["retries"] \cup {z} /\ z.jid = v.jid
          /\ zset'["scheduled"] = zset["scheduled"] /\ zset'["dead"] = zset["dead"]
      BY <2>2 DEF Fails, SetNames
    <3>2. IsFiniteSet(zset["retries"])
      BY DEF AdminInv, BaseInv, FiniteInv, SetNames
    <3> QED
      BY <3>1, <3>2, OfAdded DEF InZ
  <2> QED
    BY <2>1, <2>2
<1> QED
  BY <1>1, <1>2, <1>3, <1>4, Sums

\* A crash or an error empties hands and adds nothing.
LEMMA DropsCounts ==
    ASSUME AdminInv, BaseInv', Drops
    PROVE  CopiesInv'
<1>0. /\ UNCHANGED <<queue, zset, requeued, mixed>> /\ sweep' \subseteq sweep
      /\ \A b \in Admins : HandOf(b)' \subseteq HandOf(b)
  BY DEF Drops
<1> SUFFICES ASSUME NEW j \in Jobs PROVE Copies(j)' <= Copies(j)
  BY <1>0, CopiesStep
<1>1. InS(j)' <= InS(j)
  BY <1>0 DEF InS, Swept
<1>2. InH(j)' <= InH(j)
  <2>1. Carrying(j)' \subseteq Carrying(j) /\ IsFiniteSet(Carrying(j))
    BY <1>0, CarryingIs
  <2> QED
    BY <2>1, FS_Subset DEF InH
<1>3. /\ InZ("scheduled", j)' = InZ("scheduled", j)
      /\ InZ("retries", j)' = InZ("retries", j) /\ InZ("dead", j)' = InZ("dead", j)
      /\ InQ(j)' = InQ(j)
  BY <1>0 DEF InZ, InQ, Waiting
<1>4. /\ InQ(j) \in Nat /\ InH(j) \in Nat /\ InH(j)' \in Nat /\ InS(j) \in Nat /\ InS(j)' \in Nat
      /\ InZ("scheduled", j) \in Nat /\ InZ("retries", j) \in Nat /\ InZ("dead", j) \in Nat
  BY Counted DEF AdminInv, SetNames
<1> QED
  BY <1>1, <1>2, <1>3, <1>4, Sums

-----------------------------------------------------------------------------
(* The theorems *)

\* At first each job is in its set, once.
LEMMA JobsInit ==
    ASSUME Init
    PROVE  AdminInv
<1>1. BaseInv
  BY BaseInit
<1>2. /\ queue = << >> /\ sweep = {} /\ requeued = [j \in Jobs |-> 0]
      /\ zset = [s \in SetNames |->
                   {EntryOf(New(j), Score[j]) : j \in {i \in Jobs : Place[i] = s}}]
      /\ \A a \in Admins : admin[a].pc = "idle"
  BY DEF Init, IdleAdmin
<1>3. \A a \in Admins : HandOf(a) = {} /\ ~Requeueing(a)
  BY <1>2 DEF HandOf, Requeueing
<1>4. PushedInv
  BY <1>3 DEF PushedInv
<1>5. ASSUME NEW j \in Jobs PROVE Safe(j, 0) /\ Copies(j) <= 1 + requeued[j]
  <2>1. PICK x : x = EntryOf(New(j), Score[j])
    OBVIOUS
  <2>2. /\ x.jid = j /\ AttemptOf(x) = New(j) /\ New(j).jid = j /\ New(j).try = 0
        /\ New(j) \in Attempt
    BY <2>1 DEF EntryOf, New, AttemptOf, Attempt
  <2>3. Place[j] \in SetNames
    BY AdminAssumption
  <2>4. x \in zset[Place[j]]
    BY <2>1, <2>3, <1>2
  <2>5. Safe(j, 0)
    <3>1. Somewhere(New(j))
      BY <2>2, <2>3, <2>4 DEF Somewhere, InSets
    <3>2. New(j).try >= 0
      BY <2>2
    <3> QED
      BY <3>1, <3>2, <2>2 DEF Safe
  <2>6. \A s \in SetNames : Of(zset[s], j) = IF s = Place[j] THEN {x} ELSE {}
    <3>1. \A i \in Jobs : EntryOf(New(i), Score[i]).jid = i
      BY DEF EntryOf, New
    <3>2. ASSUME NEW s \in SetNames, NEW y
          PROVE  y \in Of(zset[s], j) <=> s = Place[j] /\ y = x
      <4>1. zset[s] = {EntryOf(New(i), Score[i]) : i \in {k \in Jobs : Place[k] = s}}
        BY <1>2
      <4> QED
        BY <4>1, <3>1, <2>1 DEF Of
    <3> QED
      BY <3>2
  <2>7. \A s \in SetNames : InZ(s, j) = IF s = Place[j] THEN 1 ELSE 0
    BY <2>6, FS_EmptySet, FS_Singleton DEF InZ
  <2>8. InZ("scheduled", j) + InZ("retries", j) + InZ("dead", j) = 1
    <3>1. /\ InZ("scheduled", j) = IF "scheduled" = Place[j] THEN 1 ELSE 0
          /\ InZ("retries", j) = IF "retries" = Place[j] THEN 1 ELSE 0
          /\ InZ("dead", j) = IF "dead" = Place[j] THEN 1 ELSE 0
      BY <2>7 DEF SetNames
    <3>2. Place[j] = "scheduled" \/ Place[j] = "retries" \/ Place[j] = "dead"
      BY <2>3 DEF SetNames
    <3> QED
      BY <3>1, <3>2
  <2>9. InQ(j) = 0 /\ InH(j) = 0 /\ InS(j) = 0
    <3>1. Waiting(j) = {}
      BY <1>2 DEF Waiting
    <3>2. Carrying(j) = {}
      BY <1>3, CarryingIs
    <3> QED
      BY <3>1, <3>2, <1>2, FS_EmptySet DEF InQ, InH, InS, Swept
  <2>10. Copies(j) = 1
    <3>1. InZ("scheduled", j) \in Nat /\ InZ("retries", j) \in Nat /\ InZ("dead", j) \in Nat
      BY <2>7 DEF SetNames
    <3> QED
      BY <3>1, <2>8, <2>9, Sums
  <2> QED
    BY <2>5, <2>10, <1>2
<1> QED
  BY <1>1, <1>4, <1>5 DEF AdminInv, KeptInv, CopiesInv

\* The steps of a request.
LEMMA AdminStepKeeps ==
    ASSUME AdminInv, NEW a \in Admins, AdminStep(a)
    PROVE  AdminInv' /\ TakesNamed(a)
<1>0. BaseInv
  BY DEF AdminInv
<1>1. ASSUME BaseInv', NoneRequeues, Looks, UNCHANGED <<settled, requeued>>
      PROVE  AdminInv' /\ TakesNamed(a)
  <2>1. TakesNamed(a)
    BY <1>1 DEF Looks, TakesNamed
  <2> QED
    BY <1>1, <2>1, LooksKeeps, LooksCounts DEF AdminInv
<1>2. ASSUME BaseInv', NoneRequeues,
             (\E s \in SetNames : \E F, w : w \in Attempt /\ Lifts(s, F, a, w))
                \/ (Looks /\ UNCHANGED <<settled, requeued>>)
      PROVE  AdminInv'
  <2>1. CASE Looks /\ UNCHANGED <<settled, requeued>>
    BY <2>1, <1>1, <1>2
  <2>2. ASSUME NEW s \in SetNames, NEW F, NEW w, Lifts(s, F, a, w) PROVE AdminInv'
    BY <2>2, <1>2, LiftsKeeps, LiftsCounts DEF AdminInv, Lifts
  <2> QED
    BY <2>1, <2>2, <1>2
<1>3. CASE Page(a)
  BY <1>0, <1>1, <1>3, PageFacts
<1>4. CASE Finish(a)
  BY <1>0, <1>1, <1>4, FinishFacts
<1>5. ASSUME NEW e \in admin[a].todo, Delete(a, e) PROVE AdminInv' /\ TakesNamed(a)
  <2>1. /\ BaseInv' /\ NoneRequeues /\ UNCHANGED requeued /\ TakesNamed(a)
        /\ \E s \in SetNames : \E F : Leaves(s, F) /\ \A x \in F : x.jid \in Gone'
    BY <1>0, <1>5, DeleteFacts
  <2> QED
    BY <2>1, LeavesKeeps, LeavesCounts DEF AdminInv
<1>6. ASSUME NEW e \in admin[a].todo, Get(a, e) PROVE AdminInv' /\ TakesNamed(a)
  BY <1>0, <1>1, <1>6, GetFacts
<1>7. ASSUME NEW e \in admin[a].todo, EnqueueAll(a, e) PROVE AdminInv' /\ TakesNamed(a)
  BY <1>0, <1>2, <1>7, EnqueueAllFacts
<1>8. ASSUME NEW e, NEW h, MoveTo(a, e, h) PROVE AdminInv' /\ TakesNamed(a)
  BY <1>0, <1>2, <1>8, MoveToFacts
<1>9. ASSUME NEW e \in admin[a].todo, Requeue(a, e) PROVE AdminInv' /\ TakesNamed(a)
  <2>1. BaseInv' /\ \E w \in Attempt : Requeues(a, w)
    BY <1>0, <1>9, RequeueFacts
  <2>2. TakesNamed(a)
    BY <2>1 DEF TakesNamed, Requeues
  <2> QED
    BY <2>1, <2>2, RequeuesKeeps, RequeuesCounts DEF AdminInv
<1>10. CASE EnqueueFrom(a)
  BY <1>0, <1>2, <1>10, EnqueueFromFacts
<1>11. CASE Add(a)
  <2>1. BaseInv' /\ NoneRequeues /\ \E w \in Attempt : Pushes(a, w)
    BY <1>0, <1>11, AddFacts
  <2>2. TakesNamed(a)
    BY <2>1 DEF TakesNamed, Pushes
  <2> QED
    BY <2>1, <2>2, PushesKeeps, PushesCounts DEF AdminInv
<1>12. CASE Bury(a)
  <2>1. BaseInv' /\ NoneRequeues /\ TakesNamed(a) /\ \E w \in Attempt : Buries(a, w)
    BY <1>0, <1>12, BuryFacts
  <2> QED
    BY <2>1, BuriesKeeps, BuriesCounts DEF AdminInv
<1>13. CASE RequeueRemove(a)
  <2>1. BaseInv' /\ NoneRequeues /\ UNCHANGED requeued /\ TakesNamed(a)
    BY <1>0, <1>13, RequeueRemoveFacts
  <2>2. PICK s \in SetNames : \E F : /\ Leaves(s, F)
                                     /\ \A x \in F : AttemptOf(x) = AttemptOf(admin[a].hand)
                                     /\ Requeueing(a) \/ \A x \in F : x.jid \in Gone'
    BY <1>0, <1>13, RequeueRemoveFacts
  <2>3. PICK F : /\ Leaves(s, F)
                 /\ \A x \in F : AttemptOf(x) = AttemptOf(admin[a].hand)
                 /\ Requeueing(a) \/ \A x \in F : x.jid \in Gone'
    BY <2>2
  <2>4. KeptInv' /\ PushedInv'
    BY <2>1, <2>3, LeavesKeeps, RequeueRemoveKeeps
  <2> QED
    BY <2>1, <2>3, <2>4, LeavesCounts DEF AdminInv
<1>14. ASSUME BaseInv', NoneRequeues, Drops PROVE AdminInv' /\ TakesNamed(a)
  <2>1. TakesNamed(a)
    BY <1>14 DEF Drops, TakesNamed
  <2> QED
    BY <1>14, <2>1, DropsKeeps, DropsCounts DEF AdminInv
<1>15. CASE AddFails(a)
  BY <1>0, <1>14, <1>15, AddFailsFacts
<1>16. CASE Stop(a)
  BY <1>0, <1>14, <1>16, StopFacts
<1>17. ASSUME NEW e \in admin[a].todo, RequeueFails(a, e) PROVE AdminInv' /\ TakesNamed(a)
  BY <1>0, <1>1, <1>17, RequeueFailsFacts
<1> QED
  BY <1>3, <1>4, <1>5, <1>6, <1>7, <1>8, <1>9, <1>10, <1>11, <1>12, <1>13, <1>15, <1>16, <1>17
     DEF AdminStep

\* The scheduler, the workers, new requests and crashes.
LEMMA AdminInductive ==
    ASSUME AdminInv, [Next]_vars
    PROVE  AdminInv'
<1>0. BaseInv
  BY DEF AdminInv
<1>1. ASSUME NEW s \in SetNames, NEW e \in zset[s], SweepRemove(s, e) PROVE AdminInv'
  <2>1. BaseInv' /\ NoneRequeues /\ SweepLifts(s, e)
    BY <1>0, <1>1, SweepRemoveFacts
  <2> QED
    BY <2>1, SweepLiftsKeeps, SweepLiftsCounts DEF AdminInv
<1>2. CASE SweepEnqueue
  <2>1. BaseInv' /\ NoneRequeues /\ \E w \in Attempt : SweepPushes(w)
    BY <1>0, <1>2, SweepEnqueueFacts
  <2> QED
    BY <2>1, SweepPushesKeeps, SweepPushesCounts DEF AdminInv
<1>3. ASSUME NEW e \in zset["dead"], Purge(e) PROVE AdminInv'
  <2>1. /\ BaseInv' /\ NoneRequeues /\ UNCHANGED requeued
        /\ Leaves("dead", {e}) /\ \A x \in {e} : x.jid \in Gone'
    BY <1>0, <1>3, PurgeFacts
  <2>2. "dead" \in SetNames
    BY DEF SetNames
  <2> QED
    BY <2>1, <2>2, LeavesKeeps, LeavesCounts DEF AdminInv
<1>4. CASE Work
  <2>1. BaseInv' /\ NoneRequeues
    BY <1>0, <1>4, WorkFacts
  <2>2. PICK v : /\ Works(v)
                 /\ (UNCHANGED zset /\ v.jid \in settled') \/ \E z : Fails(v, z)
    BY <1>0, <1>4, WorkFacts
  <2> QED
    BY <2>1, <2>2, WorksKeeps, WorksCounts DEF AdminInv
<1>5. ASSUME NEW a \in Admins, NEW s \in SetNames,
             NEW op \in Requests \cap (KeyRequests \cup AllPages), AskUi(a, op, s)
      PROVE  AdminInv'
  BY <1>0, <1>5, AskUiFacts, LooksKeeps, LooksCounts DEF AdminInv
<1>6. ASSUME NEW a \in Admins, NEW s \in SetNames,
             NEW op \in Requests \cap Mutations, NEW f \in Filters, AskMutate(a, op, s, f)
      PROVE  AdminInv'
  BY <1>0, <1>6, AskMutateFacts, LooksKeeps, LooksCounts DEF AdminInv
<1>7. ASSUME NEW a \in Admins, AdminStep(a) PROVE AdminInv'
  BY <1>7, AdminStepKeeps
<1>8. ASSUME NEW s \in SetNames, Clear(s) PROVE AdminInv'
  <2>1. /\ BaseInv' /\ NoneRequeues /\ UNCHANGED requeued
        /\ Leaves(s, zset[s]) /\ \A x \in zset[s] : x.jid \in Gone'
    BY <1>0, <1>8, ClearFacts
  <2> QED
    BY <2>1, LeavesKeeps, LeavesCounts DEF AdminInv
<1>9. CASE Crash
  <2>1. BaseInv' /\ NoneRequeues /\ Drops
    BY <1>0, <1>9, CrashFacts
  <2> QED
    BY <2>1, DropsKeeps, DropsCounts DEF AdminInv
<1>11. CASE SweepFails
  <2>1. BaseInv' /\ NoneRequeues /\ Drops
    BY <1>0, <1>11, SweepFailsFacts
  <2> QED
    BY <2>1, DropsKeeps, DropsCounts DEF AdminInv
<1>10. CASE UNCHANGED vars
  <2>1. /\ UNCHANGED <<queue, zset, clock, requests, admin, sweep, faults>>
        /\ UNCHANGED <<requeued, settled, lost, mixed>>
    BY <1>10 DEF vars
  <2>2. BaseInv'
    BY <1>0, <2>1 DEF BaseInv, TypeOK, RequestInv, SweepInv, FiniteInv, Busy
  <2>3. NoneRequeues /\ Looks
    BY <2>1 DEF NoneRequeues, Requeueing, Looks, HandOf
  <2> QED
    BY <2>1, <2>2, <2>3, LooksKeeps, LooksCounts DEF AdminInv
<1> QED
  BY <1>1, <1>2, <1>3, <1>4, <1>5, <1>6, <1>7, <1>8, <1>9, <1>10, <1>11 DEF Next

\* The inductive invariant holds in every state.
THEOREM AdminInvariant ==
    Spec => []AdminInv
<1>1. Init => AdminInv
  BY JobsInit
<1>2. AdminInv /\ [Next]_vars => AdminInv'
  BY AdminInductive
<1> QED
  BY <1>1, <1>2, PTL DEF Spec

(***************************************************************************)
(* NoCopies: whatever operators, the scheduler and the workers do to the   *)
(* same job at the same time, with pages that are out of date and commands *)
(* that fail, it is moved by one of them only.  MUTATE requeue adds a      *)
(* copy, one at a time, and so does Remove when it takes another job of    *)
(* the same score.                                                         *)
(***************************************************************************)
THEOREM NothingDoubled ==
    Spec => []NoCopies
<1>1. AdminInv => NoCopies
  BY DEF AdminInv, BaseInv, CopiesInv, NoCopies
<1> QED
  BY <1>1, AdminInvariant, PTL

(***************************************************************************)
(* NoLoss: a job that nobody asked to delete and that did not run to its   *)
(* end is somewhere, unless it was lost between two structures or taken in *)
(* place of another of its score; MUTATE requeue removes what it has       *)
(* pushed, also when the push was long ago and a worker ran the job since. *)
(***************************************************************************)
THEOREM NothingLost ==
    Spec => []NoLoss
<1>1. AdminInv => NoLoss
  <2> SUFFICES ASSUME AdminInv, NEW j \in Jobs, j \notin settled \cup lost \cup mixed
               PROVE  Copies(j) >= 1
    BY DEF NoLoss
  <2>1. PICK w \in Attempt : w.jid = j /\ Somewhere(w)
    BY DEF AdminInv, KeptInv, Safe, Gone
  <2>2. /\ IsFiniteSet(Waiting(j)) /\ InQ(j) \in Nat
        /\ \A s \in SetNames : IsFiniteSet(Of(zset[s], j)) /\ InZ(s, j) \in Nat
        /\ IsFiniteSet(Carrying(j)) /\ InH(j) \in Nat
        /\ InS(j) \in Nat
    <3>1. IsFiniteSet(Waiting(j)) /\ InQ(j) \in Nat
      <4>1. queue \in Seq(Attempt) /\ Waiting(j) = Places(queue, j)
        BY DEF AdminInv, BaseInv, TypeOK, Waiting, Places
      <4> QED
        BY <4>1, PlacesFinite DEF InQ
    <3>2. \A s \in SetNames : IsFiniteSet(Of(zset[s], j)) /\ InZ(s, j) \in Nat
      BY OfFinite DEF AdminInv, BaseInv, FiniteInv, InZ
    <3>3. IsFiniteSet(Carrying(j)) /\ InH(j) \in Nat
      BY CarryingIs DEF InH
    <3> QED
      BY <3>1, <3>2, <3>3 DEF InS
  <2>3. /\ InZ("scheduled", j) \in Nat /\ InZ("retries", j) \in Nat /\ InZ("dead", j) \in Nat
        /\ InQ(j) \in Nat /\ InH(j) \in Nat /\ InS(j) \in Nat
    BY <2>2 DEF SetNames
  <2>4. \A S : IsFiniteSet(S) /\ S # {} => Cardinality(S) \in Nat /\ Cardinality(S) # 0
    BY FS_EmptySet, FS_CardinalityType
  <2>9. \/ InQ(j) # 0 \/ InZ("scheduled", j) # 0 \/ InZ("retries", j) # 0
        \/ InZ("dead", j) # 0 \/ InH(j) # 0 \/ InS(j) # 0
        => Copies(j) >= 1
    <3>1. Copies(j) = InQ(j) + InZ("scheduled", j) + InZ("retries", j) + InZ("dead", j)
                      + InH(j) + InS(j)
      BY Sums
    <3>2. PICK p \in Nat : p = InZ("scheduled", j)
      BY <2>3
    <3>3. PICK q \in Nat : q = InZ("retries", j)
      BY <2>3
    <3>4. PICK r \in Nat : r = InZ("dead", j)
      BY <2>3
    <3>5. PICK n \in Nat : n = InQ(j)
      BY <2>3
    <3>6. PICK h \in Nat : h = InH(j)
      BY <2>3
    <3>7. PICK u \in Nat : u = InS(j)
      BY <2>3
    <3>8. n # 0 \/ p # 0 \/ q # 0 \/ r # 0 \/ h # 0 \/ u # 0 => n + p + q + r + h + u >= 1
      OBVIOUS
    <3> QED
      BY <3>1, <3>2, <3>3, <3>4, <3>5, <3>6, <3>7, <3>8
  <2>5. CASE InQueue(w)
    <3>1. Waiting(j) # {}
      BY <2>1, <2>5 DEF InQueue, Waiting
    <3>2. InQ(j) # 0
      BY <3>1, <2>2, <2>4 DEF InQ
    <3> QED
      BY <3>2, <2>9
  <2>6. ASSUME NEW s \in SetNames, NEW e \in zset[s], AttemptOf(e) = w PROVE Copies(j) >= 1
    <3>1. e.jid = j
      BY <2>1, <2>6 DEF AttemptOf
    <3>2. InZ(s, j) # 0
      BY <3>1, <2>2, <2>4 DEF InZ, Of
    <3>3. InZ("scheduled", j) # 0 \/ InZ("retries", j) # 0 \/ InZ("dead", j) # 0
      BY <3>2 DEF SetNames
    <3> QED
      BY <3>3, <2>9
  <2>7. CASE w \in sweep
    <3>1. InS(j) = 1
      BY <2>1, <2>7 DEF InS, Swept
    <3> QED
      BY <3>1, <2>9
  <2>8. ASSUME NEW a \in Admins, w \in HandOf(a) PROVE Copies(j) >= 1
    <3>1. a \in Carrying(j)
      BY <2>1, <2>8, CarryingIs
    <3>2. InH(j) # 0
      BY <3>1, <2>2, <2>4 DEF InH
    <3> QED
      BY <3>2, <2>9
  <2> QED
    BY <2>1, <2>5, <2>6, <2>7, <2>8 DEF Somewhere, InSets, InHands
<1> QED
  BY <1>1, AdminInvariant, PTL

(***************************************************************************)
(* OnlyNamed: a request takes nothing out of a set but the jobs of its     *)
(* keys, and the only entry left at the score of a key whose own has gone, *)
(* also when the page its keys were selected on is out of date.            *)
(***************************************************************************)
THEOREM OnlyKeysTaken ==
    Spec => OnlyNamed
<1>1. AdminInv /\ [Next]_vars =>
        [\A a \in Admins : admin[a].pc # "idle" /\ AdminStep(a) =>
          \A s \in SetNames : \A e \in zset[s] \ zset'[s] :
             \E k \in admin[a].todo \cup {admin[a].key} :
                \/ e.jid = k.jid
                \/ StandsFor(zset[s], e, k)
                \/ AttemptOf(e) = AttemptOf(admin[a].hand) /\ admin[a].hand.score = k.score]_vars
  BY AdminStepKeeps DEF TakesNamed
<1> QED
  BY <1>1, AdminInvariant, PTL DEF Spec, OnlyNamed

=============================================================================
