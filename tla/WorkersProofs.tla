---------------------------- MODULE WorkersProofs ----------------------------
(***************************************************************************)
(* Proofs about Workers, for any number of workers, connections and        *)
(* heartbeats.                                                             *)
(***************************************************************************)
EXTENDS Workers, TLAPS

\* The entry of a worker is the ClientData of one of its own connections, one
\* that is past HELLO's two look-ups.
OwnEntry ==
    \A w \in Wids : heartbeats[w] # None =>
        Wid[heartbeats[w]] = w /\ pc[heartbeats[w]] \notin {"new", "setup"}

\* A BEAT that is being handled has found its worker.
BeatHasEntry == \A c \in Conns : pc[c] \in {"beat", "beatset"} => beat[c].entry # None

\* The inductive invariant.
RegistryInv ==
    /\ KnownIsConnected
    /\ OwnEntry
    /\ BeatHasEntry

\* Nobody is about to set a worker running: neither a request of the Busy page
\* nor a BEAT whose state Signal has let pass.
SignalsSound ==
    /\ \A r \in UiRequests : ui[r].entry # None => ui[r].state # "running"
    /\ \A c \in Conns : pc[c] = "beatset" /\ beat[c].set => beat[c].state # "running"

Beat == [entry : Conns \cup {None}, state : WorkerStates, set : BOOLEAN]

-----------------------------------------------------------------------------
(* Types *)

\* The time of a heartbeat is assigned.
LEMMA SetLast ==
    ASSUME NEW d \in [Conns -> ClientData], NEW e \in Conns, NEW n \in Nat
    PROVE  /\ [d EXCEPT ![e].last = n] \in [Conns -> ClientData]
           /\ \A c \in Conns :
               /\ [d EXCEPT ![e].last = n][c].state = d[c].state
               /\ [d EXCEPT ![e].last = n][c].conns = d[c].conns
<1>1. d[e] \in ClientData
  OBVIOUS
<1>2. [d[e] EXCEPT !.last = n] \in ClientData
  BY <1>1 DEF ClientData
<1>3. [d EXCEPT ![e].last = n] \in [Conns -> ClientData]
  BY <1>2
<1>4. ASSUME NEW c \in Conns
      PROVE  /\ [d EXCEPT ![e].last = n][c].state = d[c].state
             /\ [d EXCEPT ![e].last = n][c].conns = d[c].conns
  BY <1>1 DEF ClientData
<1> QED
  BY <1>3, <1>4

\* The state of a worker is assigned.
LEMMA SetState ==
    ASSUME NEW d \in [Conns -> ClientData], NEW e \in Conns, NEW s \in WorkerStates
    PROVE  /\ [d EXCEPT ![e].state = s] \in [Conns -> ClientData]
           /\ \A c \in Conns :
               /\ [d EXCEPT ![e].state = s][c].state = IF c = e THEN s ELSE d[c].state
               /\ [d EXCEPT ![e].state = s][c].conns = d[c].conns
<1>1. d[e] \in ClientData
  OBVIOUS
<1>2. [d[e] EXCEPT !.state = s] \in ClientData
  BY <1>1 DEF ClientData
<1>3. [d EXCEPT ![e].state = s] \in [Conns -> ClientData]
  BY <1>2
<1>4. ASSUME NEW c \in Conns
      PROVE  /\ [d EXCEPT ![e].state = s][c].state = IF c = e THEN s ELSE d[c].state
             /\ [d EXCEPT ![e].state = s][c].conns = d[c].conns
  BY <1>1 DEF ClientData
<1> QED
  BY <1>3, <1>4

\* The connections of a worker are assigned.
LEMMA SetConns ==
    ASSUME NEW d \in [Conns -> ClientData], NEW e \in Conns, NEW C \in SUBSET Conns
    PROVE  /\ [d EXCEPT ![e].conns = C] \in [Conns -> ClientData]
           /\ \A c \in Conns :
               /\ [d EXCEPT ![e].conns = C][c].state = d[c].state
               /\ [d EXCEPT ![e].conns = C][c].conns = IF c = e THEN C ELSE d[c].conns
<1>1. d[e] \in ClientData
  OBVIOUS
<1>2. [d[e] EXCEPT !.conns = C] \in ClientData
  BY <1>1 DEF ClientData
<1>3. [d EXCEPT ![e].conns = C] \in [Conns -> ClientData]
  BY <1>2
<1>4. ASSUME NEW c \in Conns
      PROVE  /\ [d EXCEPT ![e].conns = C][c].state = d[c].state
             /\ [d EXCEPT ![e].conns = C][c].conns = IF c = e THEN C ELSE d[c].conns
  BY <1>1 DEF ClientData
<1> QED
  BY <1>3, <1>4

\* A connection registers its ClientData or joins the one there is.
LEMMA HelloSetupFields ==
    ASSUME TypeOK, NEW c \in Conns, HelloSetup(c)
    PROVE  LET w == Wid[c]
               owner == IF heartbeats[w] # None THEN heartbeats[w] ELSE c
           IN
           /\ w \in Wids /\ owner \in Conns
           /\ heartbeats' = [heartbeats EXCEPT ![w] = owner]
           /\ data' \in [Conns -> ClientData]
           /\ \A d \in Conns :
                /\ data'[d].state = data[d].state
                /\ d \notin {c, owner} => data'[d].conns = data[d].conns
           /\ owner = c => data'[c].conns = {c}
           /\ owner # c => data'[owner].conns = data[owner].conns \cup {c}
<1> DEFINE w == Wid[c]
           owner == IF heartbeats[w] # None THEN heartbeats[w] ELSE c
           m == [data EXCEPT ![c].last = now]
           mine == [m EXCEPT ![c].conns = {}]
<1>1. w \in Wids /\ owner \in Conns
  BY WorkersAssumption DEF TypeOK
<1>2. data \in [Conns -> ClientData] /\ now \in Nat /\ {} \in SUBSET Conns
      /\ "running" \in WorkerStates
  BY DEF TypeOK, WorkerStates
<1>3. m \in [Conns -> ClientData]
      /\ \A d \in Conns : m[d].state = data[d].state /\ m[d].conns = data[d].conns
  BY <1>2, SetLast
<1>4. [data EXCEPT ![c].last = now, ![c].conns = {}] = mine
  BY <1>2
<1> HIDE DEF m
<1>5. mine \in [Conns -> ClientData]
      /\ \A d \in Conns : /\ mine[d].state = m[d].state
                          /\ mine[d].conns = IF d = c THEN {} ELSE m[d].conns
  <2>1. /\ [m EXCEPT ![c].conns = {}] \in [Conns -> ClientData]
        /\ \A d \in Conns :
             /\ [m EXCEPT ![c].conns = {}][d].state = m[d].state
             /\ [m EXCEPT ![c].conns = {}][d].conns = IF d = c THEN {} ELSE m[d].conns
    <3>1. m \in [Conns -> ClientData] /\ {} \in SUBSET Conns
      BY <1>2, <1>3
    <3> QED
      BY <3>1, SetConns, SMTT(40)
  <2> QED
    BY <2>1
<1> HIDE DEF mine, owner, w
<1>6. /\ data' = [mine EXCEPT ![owner].conns = @ \cup {c}]
      /\ heartbeats' = [heartbeats EXCEPT ![w] = owner]
  BY <1>4 DEF HelloSetup, owner, w
<1> DEFINE C == mine[owner].conns \cup {c}
<1>7. C \in SUBSET Conns
  BY <1>1, <1>5 DEF ClientData
<1>8. data' = [mine EXCEPT ![owner].conns = C]
  BY <1>1, <1>5, <1>6
<1> HIDE DEF C
<1>9. /\ data' \in [Conns -> ClientData]
      /\ \A d \in Conns : /\ data'[d].state = mine[d].state
                          /\ data'[d].conns = IF d = owner THEN C ELSE mine[d].conns
  <2>1. /\ [mine EXCEPT ![owner].conns = C] \in [Conns -> ClientData]
        /\ \A d \in Conns :
             /\ [mine EXCEPT ![owner].conns = C][d].state = mine[d].state
             /\ [mine EXCEPT ![owner].conns = C][d].conns = IF d = owner THEN C ELSE mine[d].conns
    <3>1. mine \in [Conns -> ClientData] /\ owner \in Conns /\ C \in SUBSET Conns
      BY <1>1, <1>5, <1>7
    <3> QED
      BY <3>1, SetConns
  <2> QED
    BY <1>8, <2>1
<1>10. /\ \A d \in Conns :
            /\ data'[d].state = data[d].state
            /\ d \notin {c, owner} => data'[d].conns = data[d].conns
       /\ owner = c => data'[c].conns = {c}
       /\ owner # c => data'[owner].conns = data[owner].conns \cup {c}
  BY <1>1, <1>3, <1>5, <1>9 DEF C
<1> QED
  BY <1>1, <1>6, <1>9, <1>10 DEF owner, w

\* A connection leaves the worker.
LEMMA RemoveConnectionFields ==
    ASSUME TypeOK, NEW c \in Conns, RemoveConnection(c)
    PROVE  LET w == Wid[c]
               e == heartbeats[w]
           IN
           /\ w \in Wids
           /\ data' \in [Conns -> ClientData]
           /\ heartbeats' \in [Wids -> Conns \cup {None}]
           /\ \A d \in Conns : data'[d].state = data[d].state
           /\ \A d \in Conns \ {e} : data'[d].conns = data[d].conns
           /\ \A x \in Wids \ {w} : heartbeats'[x] = heartbeats[x]
           /\ e = None => heartbeats' = heartbeats
           /\ e # None => /\ e \in Conns
                          /\ data'[e].conns = data[e].conns \ {c}
                          /\ heartbeats'[w] = IF data[e].conns \ {c} = {} THEN None ELSE e
<1> DEFINE w == Wid[c]
           e == heartbeats[w]
<1>1. w \in Wids /\ e \in Conns \cup {None} /\ heartbeats \in [Wids -> Conns \cup {None}]
  BY WorkersAssumption DEF TypeOK
<1>2. data \in [Conns -> ClientData] /\ now \in Nat /\ "running" \in WorkerStates
  BY DEF TypeOK, WorkerStates
<1>3. CASE e = None
  BY <1>1, <1>2, <1>3 DEF RemoveConnection
<1>4. CASE e # None
  <2> DEFINE C == data[e].conns \ {c}
  <2>1. /\ data' = [data EXCEPT ![e].conns = C] /\ C \in SUBSET Conns
        /\ heartbeats' = IF C = {} THEN [heartbeats EXCEPT ![w] = None] ELSE heartbeats
    BY <1>1, <1>2, <1>4 DEF RemoveConnection, ClientData
  <2> HIDE DEF C, e, w
  <2>2. /\ data' \in [Conns -> ClientData]
        /\ \A d \in Conns : /\ data'[d].state = data[d].state
                            /\ data'[d].conns = IF d = e THEN C ELSE data[d].conns
    <3>1. /\ [data EXCEPT ![e].conns = C] \in [Conns -> ClientData]
          /\ \A d \in Conns :
               /\ [data EXCEPT ![e].conns = C][d].state = data[d].state
               /\ [data EXCEPT ![e].conns = C][d].conns = IF d = e THEN C ELSE data[d].conns
      <4>1. data \in [Conns -> ClientData] /\ e \in Conns /\ C \in SUBSET Conns
        BY <1>1, <1>2, <1>4, <2>1
      <4> QED
        BY <4>1, SetConns, SMTT(40)
    <3> QED
      BY <2>1, <3>1
  <2>3. /\ heartbeats' \in [Wids -> Conns \cup {None}]
        /\ \A x \in Wids \ {w} : heartbeats'[x] = heartbeats[x]
        /\ heartbeats'[w] = IF C = {} THEN None ELSE e
    BY <1>1, <2>1 DEF e
  <2> QED
    BY <1>1, <1>4, <2>2, <2>3 DEF C, e, w
<1> QED
  BY <1>3, <1>4

\* The steps of a BEAT and of the Web UI that assign to a ClientData.
LEMMA BeatFields ==
    ASSUME TypeOK, BeatHasEntry
    PROVE  /\ \A c \in Conns : BeatLock(c) =>
                /\ beat[c].entry \in Conns
                /\ data' \in [Conns -> ClientData]
                /\ \A d \in Conns : data'[d].state = data[d].state /\ data'[d].conns = data[d].conns
           /\ \A c \in Conns : BeatSet(c) =>
                /\ data' \in [Conns -> ClientData]
                /\ \A d \in Conns :
                     /\ data'[d].conns = data[d].conns
                     /\ data'[d].state = IF beat[c].set /\ d = beat[c].entry
                                        THEN beat[c].state ELSE data[d].state
           /\ \A r \in UiRequests : UiSet(r) =>
                /\ ui[r].entry \in Conns
                /\ data' \in [Conns -> ClientData]
                /\ \A d \in Conns :
                     /\ data'[d].conns = data[d].conns
                     /\ data'[d].state = IF d = ui[r].entry THEN ui[r].state ELSE data[d].state
<1>1. /\ data \in [Conns -> ClientData] /\ now \in Nat /\ "running" \in WorkerStates
      /\ {} \in SUBSET Conns
      /\ \A r \in UiRequests : ui[r].state \in WorkerStates
      /\ \A c \in Conns : beat[c].state \in WorkerStates /\ beat[c].set \in BOOLEAN
  BY DEF TypeOK, WorkerStates
<1>2. ASSUME NEW c \in Conns, BeatLock(c)
      PROVE  /\ beat[c].entry \in Conns
             /\ data' \in [Conns -> ClientData]
             /\ \A d \in Conns : data'[d].state = data[d].state /\ data'[d].conns = data[d].conns
  <2>1. beat[c].entry \in Conns
    BY <1>2 DEF BeatHasEntry, TypeOK, BeatLock
  <2>2. data' = [data EXCEPT ![beat[c].entry].last = now]
    BY <1>2 DEF BeatLock
  <2> QED
    BY <1>1, <2>1, <2>2, SetLast
<1>3. ASSUME NEW c \in Conns, BeatSet(c)
      PROVE  /\ data' \in [Conns -> ClientData]
             /\ \A d \in Conns :
                  /\ data'[d].conns = data[d].conns
                  /\ data'[d].state = IF beat[c].set /\ d = beat[c].entry
                                     THEN beat[c].state ELSE data[d].state
  <2>1. beat[c].entry \in Conns
    BY <1>3 DEF BeatHasEntry, TypeOK, BeatSet
  <2>2. data' = IF beat[c].set THEN [data EXCEPT ![beat[c].entry].state = beat[c].state] ELSE data
    BY <1>3 DEF BeatSet
  <2> QED
    BY <1>1, <2>1, <2>2, SetState
<1>4. ASSUME NEW r \in UiRequests, UiSet(r)
      PROVE  /\ ui[r].entry \in Conns
             /\ data' \in [Conns -> ClientData]
             /\ \A d \in Conns :
                  /\ data'[d].conns = data[d].conns
                  /\ data'[d].state = IF d = ui[r].entry THEN ui[r].state ELSE data[d].state
  <2>1. ui[r].entry \in Conns
    BY <1>4 DEF TypeOK, UiSet
  <2>2. data' = [data EXCEPT ![ui[r].entry].state = ui[r].state]
    BY <1>4 DEF UiSet
  <2> QED
    BY <1>1, <2>1, <2>2, SetState
<1> QED
  BY <1>2, <1>3, <1>4

\* Every step keeps the types.
LEMMA TypesStep ==
    ASSUME TypeOK, BeatHasEntry, [Next]_vars
    PROVE  TypeOK'
<1> USE DEF TypeOK
<1>0. NoBeat \in Beat
  BY DEF NoBeat, Beat, WorkerStates
<1>1. ASSUME NEW c \in Conns, HelloRead(c)
      PROVE  TypeOK'
  BY <1>1 DEF HelloRead, Goto, ConnStates
<1>2. ASSUME NEW c \in Conns, HelloSetup(c)
      PROVE  TypeOK'
  <2>1. /\ Wid[c] \in Wids
        /\ data' \in [Conns -> ClientData]
        /\ heartbeats' \in [Wids -> Conns \cup {None}]
    BY <1>2, HelloSetupFields
  <2> QED
    BY <1>2, <2>1 DEF HelloSetup, Goto, ConnStates
<1>3. ASSUME NEW c \in Conns, HelloOk(c) \/ HelloFail(c) \/ FetchDone(c) \/ Fetch(c)
      PROVE  TypeOK'
  BY <1>3 DEF HelloOk, HelloFail, FetchDone, Fetch, Goto, ConnStates
<1>4. ASSUME NEW c \in Conns, BeatLock(c)
      PROVE  TypeOK'
  <2>1. Allowed(data[beat[c].entry].state, beat[c].state) \in BOOLEAN
    BY DEF Allowed
  <2>2. beat' \in [Conns -> Beat]
    BY <1>4, <2>1 DEF BeatLock, Beat
  <2>3. data' \in [Conns -> ClientData]
    BY <1>4, BeatFields
  <2> QED
    BY <1>4, <2>2, <2>3 DEF BeatLock, Goto, ConnStates, Beat
<1>5. ASSUME NEW c \in Conns, BeatSet(c)
      PROVE  TypeOK'
  <2>1. data' \in [Conns -> ClientData]
    BY <1>5, BeatFields
  <2>2. beat' \in [Conns -> Beat]
    BY <1>0, <1>5 DEF BeatSet, Beat
  <2> QED
    BY <1>5, <2>1, <2>2 DEF BeatSet, Goto, ConnStates, Beat
<1>6. ASSUME NEW c \in Conns, RemoveConnection(c)
      PROVE  TypeOK'
  <2>1. /\ data' \in [Conns -> ClientData]
        /\ heartbeats' \in [Wids -> Conns \cup {None}]
    BY <1>6, RemoveConnectionFields
  <2> QED
    BY <1>6, <2>1 DEF RemoveConnection, Goto, ConnStates
<1>7. ASSUME NEW c \in Conns, NEW st \in BeatStates, BeatRead(c, st)
      PROVE  TypeOK'
  <2> DEFINE e == heartbeats[Wid[c]]
             v == IF st = "" THEN data[e].state ELSE st
  <2>1. e \in Conns
    BY <1>7, WorkersAssumption DEF BeatRead
  <2>2. v \in WorkerStates
    BY <2>1, WorkersAssumption DEF ClientData, WorkerStates
  <2>3. beat' = [beat EXCEPT ![c] = [entry |-> e, state |-> v, set |-> FALSE]]
    BY <1>7 DEF BeatRead
  <2> HIDE DEF e, v
  <2>4. beat' \in [Conns -> Beat]
    BY <2>1, <2>2, <2>3 DEF Beat
  <2> QED
    BY <1>7, <2>4 DEF BeatRead, Goto, ConnStates, Beat
<1>8. ASSUME NEW c \in Conns, Close(c)
      PROVE  TypeOK'
  BY <1>8 DEF Close
<1>9. CASE reapHeartbeats
  BY <1>9 DEF reapHeartbeats
<1>10. ASSUME NEW r \in UiRequests, NEW w \in Wids, NEW st \in UiSignals, UiRead(r, w, st)
       PROVE  TypeOK'
  <2>1. st \in WorkerStates /\ heartbeats[w] \in Conns
    BY <1>10, WorkersAssumption DEF WorkerStates, UiRead
  <2>2. [entry |-> heartbeats[w], state |-> st, set |-> TRUE] \in Beat
    BY <2>1 DEF Beat
  <2>3. ui' \in [UiRequests -> Beat]
    BY <1>10, <2>2 DEF UiRead, Beat
  <2> QED
    BY <1>10, <2>3 DEF UiRead, Beat
<1>11. ASSUME NEW r \in UiRequests, UiSet(r)
       PROVE  TypeOK'
  <2>1. data' \in [Conns -> ClientData]
    BY <1>11, BeatFields
  <2>2. ui' \in [UiRequests -> Beat]
    BY <1>0, <1>11 DEF UiSet, Beat
  <2> QED
    BY <1>11, <2>1, <2>2 DEF UiSet, Beat
<1>12. CASE Tick
  BY <1>12 DEF Tick
<1>13. CASE UNCHANGED vars
  BY <1>13 DEF vars
<1> QED
  BY <1>1, <1>2, <1>3, <1>4, <1>5, <1>6, <1>7, <1>8, <1>9, <1>10, <1>11, <1>12, <1>13
     DEF Next, ServerStep

-----------------------------------------------------------------------------
(* The invariant *)

\* What KnownIsConnected says besides the types.
Connected ==
    \A w \in Wids : heartbeats[w] # None =>
        /\ data[heartbeats[w]].conns # {}
        /\ \A c \in data[heartbeats[w]].conns :
             Wid[c] = w /\ pc[c] \notin {"new", "setup", "closed"}

\* KnownIsConnected is typing and this.
LEMMA ConnectedStated == KnownIsConnected <=> TypeOK /\ Connected
  BY DEF KnownIsConnected, Connected

\* A BEAT has its entry when it is handled.
LEMMA BeatHasEntryStep ==
    ASSUME TypeOK, BeatHasEntry, [Next]_vars
    PROVE  BeatHasEntry'
<1> USE DEF TypeOK, BeatHasEntry
<1>1. ASSUME NEW c \in Conns, NEW st \in BeatStates, BeatRead(c, st)
      PROVE  BeatHasEntry'
  BY <1>1 DEF BeatRead, Goto
<1>2. ASSUME NEW c \in Conns, BeatLock(c)
      PROVE  BeatHasEntry'
  <2>1. \A d \in Conns : beat'[d].entry = beat[d].entry
    BY <1>2 DEF BeatLock
  <2> QED
    BY <1>2, <2>1 DEF BeatLock, Goto
<1>3. ASSUME NEW c \in Conns, BeatSet(c)
      PROVE  BeatHasEntry'
  BY <1>3 DEF BeatSet, Goto
<1>4. ASSUME NEW c \in Conns, \/ HelloRead(c) \/ HelloSetup(c) \/ HelloOk(c) \/ HelloFail(c)
                              \/ FetchDone(c) \/ RemoveConnection(c) \/ Fetch(c) \/ Close(c)
      PROVE  BeatHasEntry'
  <2>1. /\ beat' = beat
        /\ \A d \in Conns : pc'[d] = pc[d] \/ pc'[d] \notin {"beat", "beatset"}
    BY <1>4 DEF HelloRead, HelloSetup, HelloOk, HelloFail, FetchDone, RemoveConnection, Fetch,
               Close, Goto
  <2> QED
    BY <2>1
<1>5. CASE \/ reapHeartbeats \/ Tick \/ UNCHANGED vars
           \/ \E r \in UiRequests : UiSet(r)
           \/ \E r \in UiRequests, w \in Wids, st \in UiSignals : UiRead(r, w, st)
  BY <1>5 DEF reapHeartbeats, UiSet, Tick, UiRead, vars
<1> QED
  BY <1>1, <1>2, <1>3, <1>4, <1>5 DEF Next, ServerStep

\* A known worker has connections of its own.
LEMMA ConnectedStep ==
    ASSUME TypeOK, TypeOK', BeatHasEntry, Connected, OwnEntry, [Next]_vars
    PROVE  Connected' /\ OwnEntry'
<1> USE DEF Connected, OwnEntry
<1>0. /\ heartbeats \in [Wids -> Conns \cup {None}] /\ pc \in [Conns -> ConnStates]
      /\ \A d \in Conns : data[d].conns \subseteq Conns
      /\ \A w \in Wids : heartbeats[w] # None => heartbeats[w] \in Conns
  BY DEF TypeOK, ClientData
\* Steps that leave the registry alone, and no goroutine at an earlier point.
<1>1. ASSUME heartbeats' = heartbeats, \A d \in Conns : data'[d].conns = data[d].conns,
             \A d \in Conns : \/ pc'[d] = pc[d]
                              \/ pc'[d] \notin {"new", "setup", "closed"}
                              \/ pc[d] = "new" /\ pc'[d] = "setup"
      PROVE  Connected' /\ OwnEntry'
  BY <1>0, <1>1
<1>2. ASSUME NEW c \in Conns, \/ HelloRead(c) \/ HelloOk(c) \/ HelloFail(c) \/ FetchDone(c)
                              \/ Fetch(c) \/ Close(c)
      PROVE  Connected' /\ OwnEntry'
  <2>1. /\ heartbeats' = heartbeats /\ data' = data
        /\ \A d \in Conns : \/ pc'[d] = pc[d]
                            \/ pc'[d] \notin {"new", "setup", "closed"}
                            \/ pc[d] = "new" /\ pc'[d] = "setup"
    BY <1>0, <1>2 DEF HelloRead, HelloOk, HelloFail, FetchDone, Fetch, Close, Goto
  <2> QED
    BY <1>1, <2>1
<1>3. ASSUME NEW c \in Conns, NEW st \in BeatStates, BeatRead(c, st)
      PROVE  Connected' /\ OwnEntry'
  BY <1>0, <1>1, <1>3 DEF BeatRead, Goto
<1>4. ASSUME NEW c \in Conns, BeatLock(c) \/ BeatSet(c)
      PROVE  Connected' /\ OwnEntry'
  <2>1. /\ heartbeats' = heartbeats
        /\ \A d \in Conns : pc'[d] = pc[d] \/ pc'[d] \notin {"new", "setup", "closed"}
    BY <1>0, <1>4 DEF BeatLock, BeatSet, Goto
  <2>2. \A d \in Conns : data'[d].conns = data[d].conns
    BY <1>4, BeatFields
  <2> QED
    BY <1>1, <2>1, <2>2
<1>5. ASSUME NEW c \in Conns, HelloSetup(c)
      PROVE  Connected' /\ OwnEntry'
  <2> DEFINE w == Wid[c]
             owner == IF heartbeats[w] # None THEN heartbeats[w] ELSE c
  <2>1. /\ w \in Wids /\ owner \in Conns
        /\ heartbeats' = [heartbeats EXCEPT ![w] = owner]
        /\ \A d \in Conns : d \notin {c, owner} => data'[d].conns = data[d].conns
        /\ owner = c => data'[c].conns = {c}
        /\ owner # c => data'[owner].conns = data[owner].conns \cup {c}
    BY <1>5, HelloSetupFields
  <2>2. pc[c] = "setup" /\ pc' = [pc EXCEPT ![c] = "hello"]
    BY <1>5 DEF HelloSetup, Goto
  <2>3. ASSUME NEW x \in Wids, x # w, heartbeats'[x] # None
        PROVE  /\ heartbeats'[x] = heartbeats[x] /\ heartbeats[x] \in Conns
               /\ heartbeats[x] \notin {c, owner}
               /\ data'[heartbeats'[x]].conns = data[heartbeats[x]].conns
    <3>1. heartbeats'[x] = heartbeats[x] /\ heartbeats[x] \in Conns
      BY <1>0, <2>1, <2>3
    <3>2. heartbeats[x] # c
      BY <2>2, <2>3, <3>1
    <3>3. heartbeats[x] # owner
      BY <2>1, <2>3, <3>1, <3>2
    <3> QED
      BY <2>1, <3>1, <3>2, <3>3
  <2>4. ASSUME NEW x \in Wids, x # w, heartbeats'[x] # None
        PROVE  /\ data'[heartbeats'[x]].conns # {}
               /\ \A d \in data'[heartbeats'[x]].conns :
                    Wid[d] = x /\ pc'[d] \notin {"new", "setup", "closed"}
               /\ Wid[heartbeats'[x]] = x /\ pc'[heartbeats'[x]] \notin {"new", "setup"}
    BY <1>0, <2>2, <2>3, <2>4
  <2>5. /\ heartbeats'[w] = owner
        /\ data'[owner].conns # {}
        /\ \A d \in data'[owner].conns :
             Wid[d] = w /\ pc'[d] \notin {"new", "setup", "closed"}
        /\ Wid[owner] = w /\ pc'[owner] \notin {"new", "setup"}
    <3>1. CASE owner = c
      <4>1. heartbeats'[w] = owner /\ data'[owner].conns = {c} /\ Wid[c] = w /\ pc'[c] = "hello"
        BY <1>0, <2>1, <2>2, <3>1
      <4> QED
        BY <3>1, <4>1
    <3>2. CASE owner # c
      BY <1>0, <2>1, <2>2, <3>2
    <3> QED
      BY <3>1, <3>2
  <2> QED
    BY <2>4, <2>5
<1>6. ASSUME NEW c \in Conns, RemoveConnection(c)
      PROVE  Connected' /\ OwnEntry'
  <2> DEFINE w == Wid[c]
             e == heartbeats[w]
  <2>1. /\ w \in Wids
        /\ \A d \in Conns \ {e} : data'[d].conns = data[d].conns
        /\ \A x \in Wids \ {w} : heartbeats'[x] = heartbeats[x]
        /\ e = None => heartbeats' = heartbeats
        /\ e # None => /\ e \in Conns
                       /\ data'[e].conns = data[e].conns \ {c}
                       /\ heartbeats'[w] = IF data[e].conns \ {c} = {} THEN None ELSE e
    BY <1>6, RemoveConnectionFields
  <2>2. pc[c] = "open" /\ pc' = [pc EXCEPT ![c] = "closed"]
    BY <1>6 DEF RemoveConnection, Goto
  <2>3. ASSUME NEW x \in Wids, x # w, heartbeats'[x] # None
        PROVE  /\ heartbeats'[x] = heartbeats[x] /\ heartbeats[x] \in Conns
               /\ data'[heartbeats'[x]].conns = data[heartbeats[x]].conns
               /\ c \notin data[heartbeats[x]].conns
    BY <1>0, <2>1, <2>3
  <2>4. ASSUME NEW x \in Wids, x # w, heartbeats'[x] # None
        PROVE  /\ data'[heartbeats'[x]].conns # {}
               /\ \A d \in data'[heartbeats'[x]].conns :
                    Wid[d] = x /\ pc'[d] \notin {"new", "setup", "closed"}
               /\ Wid[heartbeats'[x]] = x /\ pc'[heartbeats'[x]] \notin {"new", "setup"}
    BY <1>0, <2>2, <2>3, <2>4
  <2>5. ASSUME heartbeats'[w] # None
        PROVE  /\ data'[heartbeats'[w]].conns # {}
               /\ \A d \in data'[heartbeats'[w]].conns :
                    Wid[d] = w /\ pc'[d] \notin {"new", "setup", "closed"}
               /\ Wid[heartbeats'[w]] = w /\ pc'[heartbeats'[w]] \notin {"new", "setup"}
    <3>1. e # None /\ heartbeats'[w] = e /\ data[e].conns \ {c} # {}
      BY <2>1, <2>5
    <3>2. e \in Conns /\ data'[e].conns = data[e].conns \ {c} /\ w \in Wids
      BY <2>1, <3>1
    <3>3. Wid[e] = w /\ pc[e] \notin {"new", "setup"}
      BY <3>1, <3>2
    <3>4. pc'[e] \notin {"new", "setup"}
      BY <1>0, <2>2, <3>2, <3>3
    <3>5. ASSUME NEW d \in data'[e].conns
          PROVE  Wid[d] = w /\ pc'[d] \notin {"new", "setup", "closed"}
      <4>1. d \in data[e].conns /\ d \in Conns /\ d # c
        BY <1>0, <3>2
      <4>2. Wid[d] = w /\ pc[d] \notin {"new", "setup", "closed"}
        BY <3>1, <3>2, <4>1
      <4> QED
        BY <1>0, <2>2, <4>1, <4>2
    <3> QED
      BY <3>1, <3>2, <3>3, <3>4, <3>5
  <2> QED
    BY <2>4, <2>5
<1>7. CASE reapHeartbeats
  <2>1. /\ UNCHANGED <<pc, data>>
        /\ \A w \in Wids : heartbeats'[w] = heartbeats[w] \/ heartbeats'[w] = None
    BY <1>7 DEF reapHeartbeats
  <2> QED
    BY <2>1
<1>8. ASSUME NEW r \in UiRequests, NEW w \in Wids, NEW st \in UiSignals, UiRead(r, w, st)
      PROVE  Connected' /\ OwnEntry'
  BY <1>1, <1>8 DEF UiRead
<1>9. ASSUME NEW r \in UiRequests, UiSet(r)
      PROVE  Connected' /\ OwnEntry'
  <2>1. UNCHANGED <<pc, heartbeats>>
    BY <1>9 DEF UiSet
  <2>2. \A d \in Conns : data'[d].conns = data[d].conns
    BY <1>9, BeatFields
  <2> QED
    BY <1>1, <2>1, <2>2
<1>10. CASE Tick \/ UNCHANGED vars
  BY <1>1, <1>10 DEF Tick, vars
<1> QED
  BY <1>2, <1>3, <1>4, <1>5, <1>6, <1>7, <1>8, <1>9, <1>10 DEF Next, ServerStep

\* The registry is empty to begin with.
LEMMA RegistryInit == Init => RegistryInv
<1> SUFFICES ASSUME Init PROVE RegistryInv
  OBVIOUS
<1>1. NoBeat \in Beat
  BY DEF NoBeat, Beat, WorkerStates
<1>2. data \in [Conns -> ClientData]
  BY DEF Init, ClientData, WorkerStates
<1>3. /\ now \in Nat /\ pc \in [Conns -> ConnStates] /\ sock \in [Conns -> BOOLEAN]
      /\ heartbeats \in [Wids -> Conns \cup {None}] /\ mu \in Conns \cup {None}
  BY DEF Init, ConnStates
<1>4. TypeOK
  <2>1. beat \in [Conns -> Beat] /\ ui \in [UiRequests -> Beat]
    BY <1>1 DEF Init
  <2> QED
    BY <1>2, <1>3, <2>1 DEF TypeOK, Beat
<1>5. /\ \A w \in Wids : heartbeats[w] = None
      /\ \A c \in Conns : pc[c] = "new"
  BY DEF Init
<1> QED
  BY <1>4, <1>5 DEF RegistryInv, KnownIsConnected, OwnEntry, BeatHasEntry

\* Every step keeps the invariant.
LEMMA RegistryStep == RegistryInv /\ [Next]_vars => RegistryInv'
<1> SUFFICES ASSUME RegistryInv, [Next]_vars PROVE RegistryInv'
  OBVIOUS
<1> USE DEF RegistryInv
<1>1. TypeOK /\ Connected
  BY ConnectedStated
<1>2. TypeOK'
  BY <1>1, TypesStep
<1>3. Connected' /\ OwnEntry'
  BY <1>1, <1>2, ConnectedStep
<1>4. BeatHasEntry'
  BY <1>1, BeatHasEntryStep
<1>5. KnownIsConnected'
  BY <1>2, <1>3 DEF KnownIsConnected, Connected
<1> QED
  BY <1>3, <1>4, <1>5

\* The invariant holds throughout.
LEMMA RegistryInvariant == Spec => []RegistryInv
<1>1. Init => RegistryInv
  BY RegistryInit
<1>2. RegistryInv /\ [Next]_vars => RegistryInv'
  BY RegistryStep
<1> QED
  BY <1>1, <1>2, PTL DEF Spec

-----------------------------------------------------------------------------
(* The signals on their way to a worker *)

\* What LateQuiet holds.
LEMMA InLateQuiet ==
    ASSUME NEW c, NEW q
    PROVE  q \in LateQuiet(c) <=>
             \/ q \in UiRequests /\ ui[q].entry = c /\ ui[q].state = "quiet"
             \/ q \in Conns /\ pc[q] = "beatset" /\ beat[q].set
                             /\ beat[q].entry = c /\ beat[q].state = "quiet"
BY Zenon DEF LateQuiet

\* What LateQuiet holds after a step.
LEMMA InLateQuietNext ==
    ASSUME NEW c, NEW q
    PROVE  q \in LateQuiet(c)' <=>
             \/ q \in UiRequests /\ ui'[q].entry = c /\ ui'[q].state = "quiet"
             \/ q \in Conns /\ pc'[q] = "beatset" /\ beat'[q].set
                             /\ beat'[q].entry = c /\ beat'[q].state = "quiet"
BY Zenon DEF LateQuiet

\* What NeverUnquiet says of a step.
StaysQuiet ==
    \A c \in Conns : data[c].state # "running" =>
        /\ data'[c].state # "running"
        /\ LateQuiet(c)' \subseteq LateQuiet(c)
        /\ data[c].state = "terminate" /\ data'[c].state # "terminate" =>
             LateQuiet(c)' # LateQuiet(c)

\* Every step keeps quiet workers quiet.
LEMMA QuietStep ==
    ASSUME TypeOK, BeatHasEntry, SignalsSound, [Next]_vars
    PROVE  StaysQuiet /\ SignalsSound'
<1> USE DEF SignalsSound
<1>0. /\ \A c \in Conns : data[c].state \in WorkerStates /\ beat[c].state \in WorkerStates
      /\ \A r \in UiRequests : ui[r].state \in WorkerStates
      /\ UiRequests \cap Conns = {}
      /\ pc \in [Conns -> ConnStates]
  BY WorkersAssumption DEF TypeOK, ClientData
\* Steps that assign no state and send no signal on its way.
<1>1. ASSUME \A d \in Conns : data'[d].state = data[d].state, ui' = ui,
             \A d \in Conns : pc'[d] = "beatset" => pc[d] = "beatset" /\ beat'[d] = beat[d]
      PROVE  StaysQuiet /\ SignalsSound'
  <2>1. ASSUME NEW c \in Conns, NEW q \in LateQuiet(c)'
        PROVE  q \in LateQuiet(c)
    BY <1>1, <2>1, InLateQuiet, InLateQuietNext
  <2>2. StaysQuiet
    BY <1>1, <2>1 DEF StaysQuiet
  <2> QED
    BY <1>1, <2>2
<1>2. ASSUME NEW c \in Conns, \/ HelloRead(c) \/ HelloOk(c) \/ HelloFail(c)
                              \/ FetchDone(c) \/ Fetch(c) \/ Close(c)
      PROVE  StaysQuiet /\ SignalsSound'
  <2>1. /\ UNCHANGED <<data, beat, ui>>
        /\ \A d \in Conns : pc'[d] = "beatset" => pc[d] = "beatset"
    BY <1>0, <1>2 DEF HelloRead, HelloOk, HelloFail, FetchDone, Fetch, Close, Goto
  <2> QED
    BY <1>1, <2>1
<1>3. ASSUME NEW c \in Conns, HelloSetup(c) \/ RemoveConnection(c)
      PROVE  StaysQuiet /\ SignalsSound'
  <2>1. /\ UNCHANGED <<beat, ui>>
        /\ \A d \in Conns : pc'[d] = "beatset" => pc[d] = "beatset"
    BY <1>0, <1>3 DEF HelloSetup, RemoveConnection, Goto
  <2>2. \A d \in Conns : data'[d].state = data[d].state
    <3>1. CASE HelloSetup(c)
      BY <3>1, HelloSetupFields
    <3>2. CASE RemoveConnection(c)
      BY <3>2, RemoveConnectionFields
    <3> QED
      BY <1>3, <3>1, <3>2
  <2> QED
    BY <1>1, <2>1, <2>2
<1>4. ASSUME NEW c \in Conns, NEW st \in BeatStates, BeatRead(c, st)
      PROVE  StaysQuiet /\ SignalsSound'
  <2>1. UNCHANGED <<data, ui>> /\ pc' = [pc EXCEPT ![c] = "beat"]
        /\ \A d \in Conns \ {c} : beat'[d] = beat[d]
    BY <1>4 DEF BeatRead, Goto, TypeOK
  <2>2. \A d \in Conns : pc'[d] = "beatset" => pc[d] = "beatset" /\ beat'[d] = beat[d]
    BY <1>0, <2>1
  <2> QED
    BY <1>1, <2>1, <2>2
<1>5. ASSUME NEW c \in Conns, BeatLock(c)
      PROVE  StaysQuiet /\ SignalsSound'
  <2> DEFINE e == beat[c].entry
             s == beat[c].state
  <2>1. e \in Conns /\ \A d \in Conns : data'[d].state = data[d].state
    BY <1>5, BeatFields
  <2>2. /\ ui' = ui /\ pc' = [pc EXCEPT ![c] = "beatset"]
        /\ \A d \in Conns \ {c} : beat'[d] = beat[d]
        /\ beat'[c].entry = e /\ beat'[c].state = s
        /\ beat'[c].set = Allowed(data[e].state, s)
    BY <1>5 DEF BeatLock, Goto, TypeOK
  <2>3. beat'[c].set => s # "running" /\ (s = "quiet" => data[e].state = "running")
    BY <2>2 DEF Allowed
  <2>4. ASSUME NEW x \in Conns, data[x].state # "running", NEW q \in LateQuiet(x)'
        PROVE  q \in LateQuiet(x)
    <3>1. CASE q = c
      <4>1. q \notin UiRequests
        BY <1>0, <3>1
      <4> QED
        BY <2>2, <2>3, <2>4, <3>1, <4>1, InLateQuietNext
    <3>2. CASE q # c
      <4>1. q \in Conns => beat'[q] = beat[q] /\ pc'[q] = pc[q]
        BY <1>0, <2>2, <3>2
      <4> QED
        BY <2>2, <2>4, <4>1, InLateQuiet, InLateQuietNext
    <3> QED
      BY <3>1, <3>2
  <2>5. StaysQuiet
    BY <2>1, <2>4 DEF StaysQuiet
  <2>6. SignalsSound'
    BY <1>0, <2>2, <2>3
  <2> QED
    BY <2>5, <2>6
<1>6. ASSUME NEW c \in Conns, BeatSet(c)
      PROVE  StaysQuiet /\ SignalsSound'
  <2>1. \A d \in Conns :
          data'[d].state = IF beat[c].set /\ d = beat[c].entry THEN beat[c].state ELSE data[d].state
    BY <1>6, BeatFields
  <2>2. /\ ui' = ui /\ pc[c] = "beatset" /\ pc' = [pc EXCEPT ![c] = "open"]
        /\ \A d \in Conns \ {c} : beat'[d] = beat[d]
    BY <1>6 DEF BeatSet, Goto, TypeOK
  <2>3. /\ \A d \in Conns : pc'[d] = "beatset" => d # c /\ pc[d] = "beatset" /\ beat'[d] = beat[d]
    BY <1>0, <2>2
  <2>4. ASSUME NEW x \in Conns, NEW q \in LateQuiet(x)'
        PROVE  q \in LateQuiet(x) /\ q # c
    BY <1>0, <2>2, <2>3, <2>4, InLateQuiet, InLateQuietNext
  <2>5. ASSUME NEW x \in Conns, data[x].state = "terminate", data'[x].state # "terminate"
        PROVE  c \in LateQuiet(x)
    <3>1. beat[c].set /\ beat[c].entry = x /\ beat[c].state # "terminate"
      BY <2>1, <2>5
    <3>2. beat[c].state = "quiet"
      BY <1>0, <2>2, <3>1 DEF WorkerStates
    <3> QED
      BY <2>2, <3>1, <3>2, InLateQuiet
  <2>6. \A x \in Conns : data[x].state # "running" => data'[x].state # "running"
    BY <2>1, <2>2
  <2>7. StaysQuiet
    BY <2>4, <2>5, <2>6 DEF StaysQuiet
  <2> QED
    BY <2>2, <2>3, <2>7
<1>7. CASE reapHeartbeats \/ Tick \/ UNCHANGED vars
  <2>1. UNCHANGED <<data, beat, ui, pc>>
    BY <1>7 DEF reapHeartbeats, Tick, vars
  <2> QED
    BY <1>1, <2>1
<1>8. ASSUME NEW r \in UiRequests, NEW w \in Wids, NEW st \in UiSignals, UiRead(r, w, st)
      PROVE  StaysQuiet /\ SignalsSound'
  <2> DEFINE e == heartbeats[w]
  <2>1. /\ UNCHANGED <<data, beat, pc>>
        /\ \A q \in UiRequests \ {r} : ui'[q] = ui[q]
        /\ ui'[r].entry = e /\ ui'[r].state = st
        /\ Allowed(data[e].state, st)
    BY <1>8 DEF UiRead, TypeOK
  <2>2. st # "running" /\ (st = "quiet" => data[e].state = "running")
    BY <2>1 DEF Allowed
  <2>3. ASSUME NEW x \in Conns, data[x].state # "running", NEW q \in LateQuiet(x)'
        PROVE  q \in LateQuiet(x)
    <3>1. CASE q = r
      <4>1. q \notin Conns
        BY <1>0, <3>1
      <4> QED
        BY <2>1, <2>2, <2>3, <3>1, <4>1, InLateQuietNext
    <3>2. CASE q # r
      BY <2>1, <2>3, <3>2, InLateQuiet, InLateQuietNext
    <3> QED
      BY <3>1, <3>2
  <2>4. StaysQuiet
    BY <2>1, <2>3 DEF StaysQuiet
  <2>5. SignalsSound'
    BY <2>1, <2>2
  <2> QED
    BY <2>4, <2>5
<1>9. ASSUME NEW r \in UiRequests, UiSet(r)
      PROVE  StaysQuiet /\ SignalsSound'
  <2>1. \A d \in Conns : data'[d].state = IF d = ui[r].entry THEN ui[r].state ELSE data[d].state
    BY <1>9, BeatFields
  <2>2. /\ UNCHANGED <<beat, pc>> /\ ui[r].entry # None /\ ui'[r].entry = None
        /\ \A q \in UiRequests \ {r} : ui'[q] = ui[q]
    BY <1>9 DEF UiSet, NoBeat, TypeOK
  <2>3. ASSUME NEW x \in Conns, NEW q \in LateQuiet(x)'
        PROVE  q \in LateQuiet(x) /\ q # r
    <3>1. x # None
      BY WorkersAssumption
    <3> QED
      BY <1>0, <2>2, <2>3, <3>1, InLateQuiet, InLateQuietNext
  <2>4. ASSUME NEW x \in Conns, data[x].state = "terminate", data'[x].state # "terminate"
        PROVE  r \in LateQuiet(x)
    <3>1. ui[r].entry = x /\ ui[r].state # "terminate"
      BY <2>1, <2>4
    <3>2. ui[r].state = "quiet"
      BY <1>0, <2>2, <3>1 DEF WorkerStates
    <3> QED
      BY <3>1, <3>2, InLateQuiet
  <2>5. \A x \in Conns : data[x].state # "running" => data'[x].state # "running"
    BY <2>1, <2>2
  <2>6. StaysQuiet
    BY <2>3, <2>4, <2>5 DEF StaysQuiet
  <2> QED
    BY <2>2, <2>6
<1> QED
  BY <1>2, <1>3, <1>4, <1>5, <1>6, <1>7, <1>8, <1>9 DEF Next, ServerStep

-----------------------------------------------------------------------------
(* The theorems *)

(***************************************************************************)
(* A worker that is known has a connection, all of its connections are its *)
(* own, and none was cleaned up (setupHeartbeat, RemoveConnection and      *)
(* reapHeartbeats), however their connections overlap.                     *)
(***************************************************************************)
THEOREM KnownWorkersAreConnected == Spec => []KnownIsConnected
<1>1. RegistryInv => KnownIsConnected
  BY DEF RegistryInv
<1> QED
  BY <1>1, RegistryInvariant, PTL

\* The steps that remove an entry.
LEMMA ForgetStep ==
    ASSUME RegistryInv, [Next]_vars, NEW w \in Wids, heartbeats[w] # None, heartbeats'[w] = None
    PROVE  Stale(heartbeats[w]) \/ \A c \in data[heartbeats[w]].conns : ~sock[c]
<1>0. TypeOK
  BY ConnectedStated DEF RegistryInv
<1>1. ASSUME NEW c \in Conns, HelloSetup(c)
      PROVE  FALSE
  <2>1. /\ Wid[c] \in Wids
        /\ heartbeats' = [heartbeats EXCEPT ![Wid[c]] =
                            IF heartbeats[Wid[c]] # None THEN heartbeats[Wid[c]] ELSE c]
    BY <1>0, <1>1, HelloSetupFields
  <2>2. c # None
    BY WorkersAssumption
  <2> QED
    BY <1>0, <2>1, <2>2 DEF TypeOK
<1>2. ASSUME NEW c \in Conns, RemoveConnection(c)
      PROVE  \A d \in data[heartbeats[w]].conns : ~sock[d]
  <2>1. /\ Wid[c] = w /\ data[heartbeats[w]].conns \ {c} = {}
    BY <1>0, <1>2, RemoveConnectionFields
  <2>2. ~sock[c]
    BY <1>2 DEF RemoveConnection
  <2> QED
    BY <2>1, <2>2
<1>3. CASE reapHeartbeats
  BY <1>3 DEF reapHeartbeats
<1>4. ASSUME NEW c \in Conns, \/ HelloRead(c) \/ HelloOk(c) \/ HelloFail(c) \/ BeatLock(c)
                              \/ BeatSet(c) \/ FetchDone(c) \/ Fetch(c) \/ Close(c)
      PROVE  FALSE
  BY <1>4 DEF HelloRead, HelloOk, HelloFail, BeatLock, BeatSet, FetchDone, Fetch, Close
<1>5. CASE \/ \E c \in Conns, st \in BeatStates : BeatRead(c, st)
           \/ \E r \in UiRequests, x \in Wids, st \in UiSignals : UiRead(r, x, st)
           \/ \E r \in UiRequests : UiSet(r)
           \/ Tick \/ UNCHANGED vars
  BY <1>5 DEF BeatRead, UiRead, UiSet, Tick, vars
<1> QED
  BY <1>1, <1>2, <1>3, <1>4, <1>5 DEF Next, ServerStep

(***************************************************************************)
(* The entry of a worker goes away only when its last heartbeat is too old *)
(* or every connection that was registered for it is closed.               *)
(***************************************************************************)
THEOREM WorkersForgottenForCause == Spec => ForgottenForCause
<1>1. RegistryInv /\ [Next]_vars =>
        [\A w \in Wids : heartbeats[w] # None /\ heartbeats'[w] = None =>
            \/ Stale(heartbeats[w])
            \/ \A c \in data[heartbeats[w]].conns : ~sock[c]]_vars
  BY ForgetStep
<1> QED
  BY <1>1, RegistryInvariant, PTL DEF Spec, ForgottenForCause

(***************************************************************************)
(* Whatever states the heartbeats carry and however many requests of the   *)
(* Busy page overlap without a lock, a worker that was quieted or told to  *)
(* terminate never runs again, and only a "quiet" that passed Signal's     *)
(* tests while it was running takes it back from terminate to quiet.       *)
(***************************************************************************)
THEOREM QuietWorkersStayQuiet == Spec => NeverUnquiet
<1>1. Init => SignalsSound
  <2> SUFFICES ASSUME Init PROVE SignalsSound
    OBVIOUS
  <2>1. \A c \in Conns : pc[c] = "new"
    BY DEF Init
  <2>2. \A r \in UiRequests : ui[r].entry = None
    BY DEF Init, NoBeat
  <2> QED
    BY <2>1, <2>2 DEF SignalsSound
<1>2. RegistryInv /\ SignalsSound /\ [Next]_vars => StaysQuiet /\ SignalsSound'
  <2> SUFFICES ASSUME RegistryInv, SignalsSound, [Next]_vars
               PROVE  StaysQuiet /\ SignalsSound'
    OBVIOUS
  <2>1. TypeOK /\ BeatHasEntry
    BY ConnectedStated DEF RegistryInv
  <2> QED
    BY <2>1, QuietStep
<1>3. StaysQuiet =>
        [\A c \in Conns : data[c].state # "running" =>
           /\ data'[c].state # "running"
           /\ LateQuiet(c)' \subseteq LateQuiet(c)
           /\ data[c].state = "terminate" /\ data'[c].state # "terminate" =>
                LateQuiet(c)' # LateQuiet(c)]_vars
  BY DEF StaysQuiet
<1> QED
  BY <1>1, <1>2, <1>3, RegistryInvariant, PTL DEF Spec, NeverUnquiet
=============================================================================
