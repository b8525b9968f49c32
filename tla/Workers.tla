------------------------------- MODULE Workers -------------------------------
(***************************************************************************)
(* The worker registry of the server (server/workers.go) with the parts    *)
(* of startConnection, processLines, BEAT, FETCH, END and the Web UI that  *)
(* use it.  A worker process is known by its wid and may open several      *)
(* connections; each HELLO makes a ClientData of its own, and heartbeats   *)
(* maps a wid to the ClientData of the connection that registered it.      *)
(*                                                                         *)
(* One step is one critical section of workers.mu, or one access outside   *)
(* of it.  FETCH is followed only as far as the check of the worker's      *)
(* state; what it does to jobs is in Manager.                              *)
(***************************************************************************)
EXTENDS Naturals, FiniteSets

CONSTANTS
    Wids,        \* worker processes
    Conns,       \* their connections, each used once
    Wid,         \* Wid[c] is the process that opens connection c
    BeatStates,  \* the current_state values a BEAT may carry ("" = none)
    UiSignals,   \* the signals the Web UI's Busy page may send
    UiRequests,  \* the requests of the Busy page that can be under way at once
    TTL,         \* a heartbeat older than this is reaped (60 seconds)
    MaxTime      \* bound on the clock

None == "none"

ASSUME WorkersAssumption ==
    /\ Wid \in [Conns -> Wids]
    /\ None \notin Conns
    /\ UiRequests \cap Conns = {}
    /\ BeatStates \subseteq {"", "running", "quiet", "terminate"}
    /\ UiSignals \subseteq {"quiet", "terminate"}
    /\ TTL \in Nat
    /\ MaxTime \in Nat

VARIABLES
    now,         \* the wall clock
    pc,          \* per connection: what its goroutine is doing
    sock,        \* per connection: is the socket open on both sides?
    data,        \* per connection: the ClientData its HELLO made
    heartbeats,  \* workers.heartbeats: wid -> owner of the ClientData, or None
    beat,        \* per connection: the BEAT being handled
    mu,          \* the holder of workers.mu while BEAT changes a state
    ui           \* per request of the Busy page: the signal it is sending

vars == <<now, pc, sock, data, heartbeats, beat, mu, ui>>

WorkerStates == {"running", "quiet", "terminate"}
ConnStates == {"new", "setup", "hello", "open", "fetching", "beat", "beatset",
               "failed", "closed"}

\* lastHeartbeat, state and connections of a ClientData.
ClientData == [state : WorkerStates, last : Nat, conns : SUBSET Conns]
NoBeat == [entry |-> None, state |-> "running", set |-> FALSE]

Init ==
    /\ now = 0
    /\ pc = [c \in Conns |-> "new"]
    /\ sock = [c \in Conns |-> TRUE]
    /\ data = [c \in Conns |-> [state |-> "running", last |-> 0, conns |-> {}]]
    /\ heartbeats = [w \in Wids |-> None]
    /\ beat = [c \in Conns |-> NoBeat]
    /\ mu = None
    /\ ui = [r \in UiRequests |-> NoBeat]

Goto(c, p) == pc' = [pc EXCEPT ![c] = p]

-----------------------------------------------------------------------------
(* HELLO: startConnection and setupHeartbeat *)

\* The look-up under the read lock.  A wid that is known returns at once: the
\* connection is not added to the worker's, and keeps its own ClientData.
HelloRead(c) ==
    /\ mu = None
    /\ pc[c] = "new"
    /\ Goto(c, IF heartbeats[Wid[c]] # None THEN "hello" ELSE "setup")
    /\ UNCHANGED <<now, sock, data, heartbeats, beat, mu, ui>>

\* The second look-up, under the lock: the first connection registers its
\* ClientData, one that came second joins it.
HelloSetup(c) ==
    LET w == Wid[c]
        owner == IF heartbeats[w] # None THEN heartbeats[w] ELSE c
        mine == [data EXCEPT ![c].last = now, ![c].conns = {}]
    IN
    /\ mu = None
    /\ pc[c] = "setup"
    /\ heartbeats' = [heartbeats EXCEPT ![w] = owner]
    /\ data' = [mine EXCEPT ![owner].conns = @ \cup {c}]
    /\ Goto(c, "hello")
    /\ UNCHANGED <<now, sock, beat, mu, ui>>

\* The answer "+OK".
HelloOk(c) ==
    /\ pc[c] = "hello"
    /\ sock[c]
    /\ Goto(c, "open")
    /\ UNCHANGED <<now, sock, data, heartbeats, beat, mu, ui>>

\* When it cannot be written startConnection returns nil, and the connection
\* is closed without cleanupConnection.
HelloFail(c) ==
    /\ pc[c] = "hello"
    /\ ~sock[c]
    /\ Goto(c, "failed")
    /\ UNCHANGED <<now, sock, data, heartbeats, beat, mu, ui>>

-----------------------------------------------------------------------------
(* BEAT *)

\* Fault: any change of the state is allowed.
AllowedAny(old, new) == old # new

\* Signal allows running -> quiet -> terminate only.
Allowed(old, new) == \/ old = "running" /\ new # "running"
                     \/ old = "quiet" /\ new = "terminate"

\* heartbeat's look-up; an unknown worker is answered with an error.  Without a
\* current_state the worker's state is read, outside of the lock.
BeatRead(c, st) ==
    LET e == heartbeats[Wid[c]] IN
    /\ mu = None
    /\ pc[c] = "open"
    /\ sock[c]
    /\ e # None
    /\ beat' = [beat EXCEPT ![c] =
                  [entry |-> e, state |-> IF st = "" THEN data[e].state ELSE st, set |-> FALSE]]
    /\ Goto(c, "beat")
    /\ UNCHANGED <<now, sock, data, heartbeats, mu, ui>>

\* Under the lock: the time of the beat, and the tests of Signal ...
BeatLock(c) ==
    LET b == beat[c] IN
    /\ mu = None
    /\ pc[c] = "beat"
    /\ mu' = c
    /\ data' = [data EXCEPT ![b.entry].last = now]
    /\ beat' = [beat EXCEPT ![c].set = Allowed(data[b.entry].state, b.state)]
    /\ Goto(c, "beatset")
    /\ UNCHANGED <<now, sock, heartbeats, ui>>

\* ... and its assignment; the Web UI may have written the state in between.
BeatSet(c) ==
    LET b == beat[c] IN
    /\ pc[c] = "beatset"
    /\ data' = IF b.set THEN [data EXCEPT ![b.entry].state = b.state] ELSE data
    /\ mu' = None
    /\ beat' = [beat EXCEPT ![c] = NoBeat]
    /\ Goto(c, "open")
    /\ UNCHANGED <<now, sock, heartbeats, ui>>

-----------------------------------------------------------------------------
(* FETCH, END and the end of a connection *)

\* fetch asks for a job when the connection's own ClientData is running.
Fetch(c) ==
    /\ pc[c] = "open"
    /\ sock[c]
    /\ data[c].state = "running"
    /\ Goto(c, "fetching")
    /\ UNCHANGED <<now, sock, data, heartbeats, beat, mu, ui>>

FetchDone(c) ==
    /\ pc[c] = "fetching"
    /\ Goto(c, "open")
    /\ UNCHANGED <<now, sock, data, heartbeats, beat, mu, ui>>

\* END, or the client goes away.
Close(c) ==
    /\ pc[c] \notin {"new", "failed", "closed"}
    /\ sock[c]
    /\ sock' = [sock EXCEPT ![c] = FALSE]
    /\ UNCHANGED <<now, pc, data, heartbeats, beat, mu, ui>>

\* Fault: the first connection that goes away takes the worker with it.
RemoveConnectionFirst(c) ==
    LET w == Wid[c] IN
    /\ mu = None
    /\ pc[c] = "open"
    /\ ~sock[c]
    /\ heartbeats' = [heartbeats EXCEPT ![w] = None]
    /\ Goto(c, "closed")
    /\ UNCHANGED <<now, sock, data, beat, mu, ui>>

\* Fault: a worker without connections stays.
RemoveConnectionKeeps(c) ==
    LET e == heartbeats[Wid[c]] IN
    /\ mu = None
    /\ pc[c] = "open"
    /\ ~sock[c]
    /\ data' = IF e = None THEN data ELSE [data EXCEPT ![e].conns = @ \ {c}]
    /\ Goto(c, "closed")
    /\ UNCHANGED <<now, sock, heartbeats, beat, mu, ui>>

\* processLines reads from a closed socket; cleanupConnection removes the
\* connection from the worker the wid stands for now, and with its last
\* connection the worker.
RemoveConnection(c) ==
    LET w == Wid[c]
        e == heartbeats[w]
    IN
    /\ mu = None
    /\ pc[c] = "open"
    /\ ~sock[c]
    /\ \/ /\ e # None
          /\ data' = [data EXCEPT ![e].conns = @ \ {c}]
          /\ heartbeats' = IF data[e].conns \ {c} = {}
                           THEN [heartbeats EXCEPT ![w] = None] ELSE heartbeats
       \/ /\ e = None
          /\ UNCHANGED <<data, heartbeats>>
    /\ Goto(c, "closed")
    /\ UNCHANGED <<now, sock, beat, mu, ui>>

-----------------------------------------------------------------------------
(* The beat reaper and the Web UI *)

\* lastHeartbeat.Before(now - 1 minute)
Stale(e) == data[e].last + TTL < now

\* Fault: the reaper closes connections and leaves the entries to them.
reapHeartbeatsKeeps ==
    LET dead == {w \in Wids : heartbeats[w] # None /\ Stale(heartbeats[w])} IN
    /\ mu = None
    /\ dead # {}
    /\ sock' = [c \in Conns |->
                  sock[c] /\ \A w \in dead : c \notin data[heartbeats[w]].conns]
    /\ UNCHANGED <<now, pc, data, heartbeats, beat, mu, ui>>

\* reapHeartbeats: the connections of every stale worker are closed, and the
\* worker is forgotten.
reapHeartbeats ==
    LET dead == {w \in Wids : heartbeats[w] # None /\ Stale(heartbeats[w])} IN
    /\ mu = None
    /\ dead # {}
    /\ sock' = [c \in Conns |->
                  sock[c] /\ \A w \in dead : c \notin data[heartbeats[w]].conns]
    /\ heartbeats' = [w \in Wids |-> IF w \in dead THEN None ELSE heartbeats[w]]
    /\ UNCHANGED <<now, pc, data, beat, mu, ui>>

\* busyHandler, one goroutine per request, finds the worker and calls Signal
\* without taking the lock: its tests ...
UiRead(r, w, st) ==
    LET e == heartbeats[w] IN
    /\ ui[r].entry = None
    /\ e # None
    /\ Allowed(data[e].state, st)
    /\ ui' = [ui EXCEPT ![r] = [entry |-> e, state |-> st, set |-> TRUE]]
    /\ UNCHANGED <<now, pc, sock, data, heartbeats, beat, mu>>

\* ... and its assignment, whatever others have written in between.
UiSet(r) ==
    /\ ui[r].entry # None
    /\ data' = [data EXCEPT ![ui[r].entry].state = ui[r].state]
    /\ ui' = [ui EXCEPT ![r] = NoBeat]
    /\ UNCHANGED <<now, pc, sock, heartbeats, beat, mu>>

Tick ==
    /\ now < MaxTime
    /\ now' = now + 1
    /\ UNCHANGED <<pc, sock, data, heartbeats, beat, mu, ui>>

-----------------------------------------------------------------------------
\* The steps a connection's goroutine takes without its client.
ServerStep(c) ==
    \/ HelloRead(c)
    \/ HelloSetup(c)
    \/ HelloOk(c)
    \/ HelloFail(c)
    \/ BeatLock(c)
    \/ BeatSet(c)
    \/ FetchDone(c)
    \/ RemoveConnection(c)

Next ==
    \/ \E c \in Conns : ServerStep(c)
    \/ \E c \in Conns, st \in BeatStates : BeatRead(c, st)
    \/ \E c \in Conns : Fetch(c) \/ Close(c)
    \/ reapHeartbeats
    \/ \E r \in UiRequests, w \in Wids, st \in UiSignals : UiRead(r, w, st)
    \/ \E r \in UiRequests : UiSet(r)
    \/ Tick

Spec == Init /\ [][Next]_vars

\* Goroutines run on, the clock runs, and the task runner keeps calling the
\* reaper.  Who waits for workers.mu gets it in the end, however often others
\* take it: Go's mutexes hand over to a waiter that starves.  Clients need not
\* do anything.
Fairness ==
    /\ \A c \in Conns : SF_vars(ServerStep(c))
    /\ \A r \in UiRequests : WF_vars(UiSet(r))
    /\ SF_vars(reapHeartbeats)
    /\ WF_vars(Tick)

FairSpec == Spec /\ Fairness

-----------------------------------------------------------------------------
(* Properties *)

TypeOK ==
    /\ now \in Nat
    /\ pc \in [Conns -> ConnStates]
    /\ sock \in [Conns -> BOOLEAN]
    /\ data \in [Conns -> ClientData]
    /\ heartbeats \in [Wids -> Conns \cup {None}]
    /\ beat \in [Conns -> [entry : Conns \cup {None}, state : WorkerStates, set : BOOLEAN]]
    /\ mu \in Conns \cup {None}
    /\ ui \in [UiRequests -> [entry : Conns \cup {None}, state : WorkerStates, set : BOOLEAN]]

(***************************************************************************)
(* A worker on the Busy page is one somebody is connected for: its set of  *)
(* connections is never empty and holds connections of this process only,  *)
(* none of which was cleaned up.  The exception is a connection whose      *)
(* handshake could not be answered: it stays until the reaper comes.       *)
(* (With the types of the state.)                                          *)
(***************************************************************************)
KnownIsConnected ==
    /\ TypeOK
    /\ \A w \in Wids : heartbeats[w] # None =>
         LET cs == data[heartbeats[w]].conns IN
         /\ cs # {}
         /\ \A c \in cs : Wid[c] = w /\ pc[c] \notin {"new", "setup", "closed"}

(***************************************************************************)
(* A worker that beats in time is not forgotten while a connection that    *)
(* was registered for it is open: its entry goes away only when it is      *)
(* stale or when the last of those connections is cleaned up.              *)
(***************************************************************************)
ForgottenForCause ==
    [][\A w \in Wids : heartbeats[w] # None /\ heartbeats'[w] = None =>
         \/ Stale(heartbeats[w])
         \/ \A c \in data[heartbeats[w]].conns : ~sock[c]]_vars

\* The assignments of "quiet" that are on their way to c's ClientData: Signal
\* has made its tests, for a request of the Busy page or for a BEAT.
LateQuiet(c) ==
    {r \in UiRequests : ui[r].entry = c /\ ui[r].state = "quiet"}
        \cup {d \in Conns : /\ pc[d] = "beatset" /\ beat[d].set
                            /\ beat[d].entry = c /\ beat[d].state = "quiet"}

(***************************************************************************)
(* workers.go: "Workers should never move backward in state - you cannot   *)
(* "unquiet" a worker, it must be restarted."  However the requests of the *)
(* Busy page, which take no lock, and the BEATs that carry a state         *)
(* overlap: a worker that was quieted or told to terminate never runs      *)
(* again, and no further "quiet" gets on its way to it.  It falls back     *)
(* from terminate to quiet only by one that passed Signal's tests while    *)
(* the worker was running.                                                 *)
(***************************************************************************)
NeverUnquiet ==
    [][\A c \in Conns : data[c].state # "running" =>
         /\ data'[c].state # "running"
         /\ LateQuiet(c)' \subseteq LateQuiet(c)
         /\ data[c].state = "terminate" /\ data'[c].state # "terminate" =>
              LateQuiet(c)' # LateQuiet(c)]_vars

(***************************************************************************)
(* commands.go, fetch: "quiet or terminated workers should not get new     *)
(* jobs", on whichever of its connections the worker asks for one.         *)
(***************************************************************************)
QuietGetsNoJobs ==
    [][\A c \in Conns : LET e == heartbeats[Wid[c]] IN
         pc[c] = "open" /\ pc'[c] = "fetching" /\ e # None => data[e].state = "running"]_vars

(***************************************************************************)
(* A worker that closed every one of its connections disappears, also when *)
(* one was closed in the middle of its handshake.  The last operand leaves *)
(* out what the bounded clock cannot reach.                                *)
(***************************************************************************)
Gone(w) == /\ heartbeats[w] # None
           /\ \A c \in Conns : Wid[c] = w => ~sock[c]
           /\ data[heartbeats[w]].last + TTL < MaxTime
GoneIsForgotten == \A w \in Wids : Gone(w) ~> ~Gone(w)

=============================================================================
