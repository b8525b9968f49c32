----------------------------- MODULE ChannelPool -----------------------------
(***************************************************************************)
(* The client library's connection pool: internal/pool/pool.go, as         *)
(* client/pool.go and the commands of client/client.go use it.             *)
(*                                                                         *)
(* Goroutines borrow connections with Get, run commands on them and give   *)
(* them back with Put; any of them may close the pool.  One step is one    *)
(* critical section of channelPool.mu, one channel operation or one call   *)
(* of the factory.  A connection that was closed may be made again: ids    *)
(* stand for the sockets that exist at one time.                           *)
(***************************************************************************)
EXTENDS Naturals, Sequences, FiniteSets

CONSTANTS
    Procs,       \* goroutines
    Sockets,     \* connections that can exist at one time
    InitialCap,  \* connections NewChannelPool makes (client/pool.go: 0)
    MaxCap       \* the channel's buffer

None == "none"

ASSUME PoolAssumption ==
    /\ InitialCap \in Nat
    /\ MaxCap \in Nat \ {0}
    /\ InitialCap <= MaxCap
    /\ None \notin Sockets

VARIABLES
    phase,    \* NewChannelPool is "filling", or returned: "ready" or "failed"
    conns,    \* what the channel buffers, head first
    shut,     \* channelPool.conns is nil
    over,     \* the channel was closed
    factory,  \* channelPool.factory is not nil
    pc,       \* per goroutine: where it is in Get, Put and Close
    held,     \* per goroutine: the connection it has borrowed, or None
    open,     \* the connections that were made and not closed
    broken,   \* those whose socket does not work any more
    seen      \* history: those on which a command other than MUTATE noticed it

vars == <<phase, conns, shut, over, factory, pc, held, open, broken, seen>>

PcStates == {"idle", "get", "make", "using", "unusable", "close", "drain", "panic"}

Buffered == {conns[i] : i \in 1..Len(conns)}
Held == {held[p] : p \in Procs} \ {None}

Init ==
    /\ phase = "filling"
    /\ conns = << >>
    /\ shut = FALSE
    /\ over = FALSE
    /\ factory = TRUE
    /\ pc = [p \in Procs |-> "idle"]
    /\ held = [p \in Procs |-> None]
    /\ open = {}
    /\ broken = {}
    /\ seen = {}

Goto(p, s) == pc' = [pc EXCEPT ![p] = s]

\* The factory dials a new, working connection; conn.Close() closes one.
Make(x) == /\ x \notin open
           /\ open' = open \cup {x}
           /\ UNCHANGED <<broken, seen>>
CloseConn(x) == /\ open' = open \ {x}
                /\ broken' = broken \ {x}
                /\ seen' = seen \ {x}

-----------------------------------------------------------------------------
(* NewChannelPool *)

\* The loop makes the initial connections ...
Fill(x) ==
    /\ phase = "filling"
    /\ Len(conns) < InitialCap
    /\ Make(x)
    /\ conns' = Append(conns, x)
    /\ UNCHANGED <<phase, shut, over, factory, pc, held>>

\* ... until one of them fails: then what was made is closed again ...
FillFail ==
    /\ phase = "filling"
    /\ Len(conns) < InitialCap
    /\ phase' = "failed"
    /\ conns' = << >>
    /\ shut' = TRUE
    /\ over' = TRUE
    /\ factory' = FALSE
    /\ open' = open \ Buffered
    /\ broken' = broken \ Buffered
    /\ UNCHANGED <<pc, held, seen>>

\* ... or all are there and the pool is returned.
Filled ==
    /\ phase = "filling"
    /\ Len(conns) = InitialCap
    /\ phase' = "ready"
    /\ UNCHANGED <<conns, shut, over, factory, pc, held, open, broken, seen>>

-----------------------------------------------------------------------------
(* Get *)

\* getConns, under the lock; a nil channel is answered with ErrClosed.
GetConns(p) ==
    /\ phase = "ready"
    /\ pc[p] = "idle"
    /\ ~shut
    /\ Goto(p, "get")
    /\ UNCHANGED <<phase, conns, shut, over, factory, held, open, broken, seen>>

\* The select, on the channel that was read before: a buffered connection is
\* taken even if the channel is closed by now; a closed one without any gives
\* nil, which is ErrClosed; without one the default case calls the factory.
Receive(p) ==
    /\ pc[p] = "get"
    /\ \/ /\ conns # << >>
          /\ held' = [held EXCEPT ![p] = Head(conns)]
          /\ conns' = Tail(conns)
          /\ Goto(p, "using")
       \/ /\ conns = << >>
          /\ Goto(p, IF over THEN "idle" ELSE "make")
          /\ UNCHANGED <<conns, held>>
    /\ UNCHANGED <<phase, shut, over, factory, open, broken, seen>>

\* c.factory is read without the lock, so that a read that races Close may see
\* the function or nil.  Calling nil panics; calling it may fail.
CallFactory(p) ==
    /\ pc[p] = "make"
    /\ \/ \E x \in Sockets :
            /\ Make(x)
            /\ held' = [held EXCEPT ![p] = x]
            /\ Goto(p, "using")
       \/ /\ Goto(p, "idle")
          /\ UNCHANGED <<held, open, broken, seen>>
       \/ /\ ~factory
          /\ Goto(p, "panic")
          /\ UNCHANGED <<held, open, broken, seen>>
    /\ UNCHANGED <<phase, conns, shut, over, factory>>

-----------------------------------------------------------------------------
(* Commands on a borrowed connection *)

\* The peer or the network may end a connection at any time.
Break(x) ==
    /\ x \in open \ broken
    /\ broken' = broken \cup {x}
    /\ UNCHANGED <<phase, conns, shut, over, factory, pc, held, open, seen>>

\* Fault: I/O errors do not mark the connection.
CommandUnmarked(p) ==
    /\ pc[p] \in {"using", "unusable"}
    /\ seen' = seen \cup ({held[p]} \cap broken)
    /\ UNCHANGED <<phase, conns, shut, over, factory, pc, held, open, broken>>

\* writeLine, readResponse, ok and readString of Client mark a connection on
\* every error but a ProtocolError, which is the server's answer: on a broken
\* connection always, on a working one after an answer that is no OK.  The
\* MUTATE commands use the functions writeLine and ok, not the methods: they
\* mark nothing and leave this state as it is.
Command(p) ==
    /\ pc[p] \in {"using", "unusable"}
    /\ Goto(p, "unusable")
    /\ seen' = seen \cup ({held[p]} \cap broken)
    /\ UNCHANGED <<phase, conns, shut, over, factory, held, open, broken>>

-----------------------------------------------------------------------------
(* Put: PoolConn.Close *)

\* Fault: what does not fit into the pool is forgotten, not closed.
putLeaks(p) ==
    /\ pc[p] = "using"
    /\ conns' = IF ~shut /\ Len(conns) < MaxCap THEN Append(conns, held[p]) ELSE conns
    /\ held' = [held EXCEPT ![p] = None]
    /\ Goto(p, "idle")
    /\ UNCHANGED <<phase, shut, over, factory, open, broken, seen>>

\* Fault: the connection is sent without looking whether the pool is closed.
putBlind(p) ==
    /\ pc[p] = "using"
    /\ Len(conns) < MaxCap
    /\ conns' = Append(conns, held[p])
    /\ held' = [held EXCEPT ![p] = None]
    /\ Goto(p, "idle")
    /\ UNCHANGED <<phase, shut, over, factory, open, broken, seen>>

\* put, under the lock: a closed or full pool closes the connection.
put(p) ==
    /\ pc[p] = "using"
    /\ \/ /\ ~shut
          /\ Len(conns) < MaxCap
          /\ conns' = Append(conns, held[p])
          /\ UNCHANGED <<open, broken, seen>>
       \/ /\ shut \/ Len(conns) >= MaxCap
          /\ CloseConn(held[p])
          /\ UNCHANGED conns
    /\ held' = [held EXCEPT ![p] = None]
    /\ Goto(p, "idle")
    /\ UNCHANGED <<phase, shut, over, factory>>

\* A connection that was marked is closed.
PutUnusable(p) ==
    /\ pc[p] = "unusable"
    /\ CloseConn(held[p])
    /\ held' = [held EXCEPT ![p] = None]
    /\ Goto(p, "idle")
    /\ UNCHANGED <<phase, conns, shut, over, factory>>

-----------------------------------------------------------------------------
(* Close *)

\* Under the lock the fields become nil; a second Close returns at once ...
CloseLock(p) ==
    /\ phase = "ready"
    /\ pc[p] = "idle"
    /\ ~shut
    /\ shut' = TRUE
    /\ factory' = FALSE
    /\ Goto(p, "close")
    /\ UNCHANGED <<phase, conns, over, held, open, broken, seen>>

\* Fault: the channel is closed and what it buffers is left.
CloseChanOnly(p) ==
    /\ pc[p] = "close"
    /\ over' = TRUE
    /\ Goto(p, "idle")
    /\ UNCHANGED <<phase, conns, shut, factory, held, open, broken, seen>>

\* ... then close(conns) ...
CloseChan(p) ==
    /\ pc[p] = "close"
    /\ over' = TRUE
    /\ Goto(p, "drain")
    /\ UNCHANGED <<phase, conns, shut, factory, held, open, broken, seen>>

\* ... and the buffered connections are closed one by one.
Drain(p) ==
    /\ pc[p] = "drain"
    /\ \/ /\ conns # << >>
          /\ CloseConn(Head(conns))
          /\ conns' = Tail(conns)
          /\ UNCHANGED pc
       \/ /\ conns = << >>
          /\ Goto(p, "idle")
          /\ UNCHANGED <<conns, open, broken, seen>>
    /\ UNCHANGED <<phase, shut, over, factory, held>>

-----------------------------------------------------------------------------
Next ==
    \/ \E x \in Sockets : Fill(x) \/ Break(x)
    \/ FillFail
    \/ Filled
    \/ \E p \in Procs :
         \/ GetConns(p)
         \/ Receive(p)
         \/ CallFactory(p)
         \/ Command(p)
         \/ put(p)
         \/ PutUnusable(p)
         \/ CloseLock(p)
         \/ CloseChan(p)
         \/ Drain(p)

Spec == Init /\ [][Next]_vars

\* Goroutines run on, and what was borrowed is given back, as With does with a
\* deferred Put.
Fairness ==
    \A p \in Procs :
        /\ WF_vars(Receive(p))
        /\ WF_vars(CallFactory(p))
        /\ WF_vars(put(p) \/ PutUnusable(p))
        /\ WF_vars(CloseChan(p))
        /\ WF_vars(Drain(p))

FairSpec == Spec /\ Fairness

-----------------------------------------------------------------------------
(* Properties *)

TypeOK ==
    /\ phase \in {"filling", "ready", "failed"}
    /\ conns \in Seq(Sockets)
    /\ shut \in BOOLEAN
    /\ over \in BOOLEAN
    /\ factory \in BOOLEAN
    /\ pc \in [Procs -> PcStates]
    /\ held \in [Procs -> Sockets \cup {None}]
    /\ open \subseteq Sockets
    /\ broken \subseteq Sockets
    /\ seen \subseteq Sockets

(***************************************************************************)
(* Every open connection has exactly one owner, the pool or a goroutine,   *)
(* and no other has one: two goroutines never write to one connection, a   *)
(* closed one is never lent, and none is leaked, whatever Get, Put and     *)
(* Close do at the same time.  (With the types of the state.)              *)
(***************************************************************************)
BufferedOnce == \A i, k \in 1..Len(conns) : conns[i] = conns[k] => i = k
HeldOnce == \A p, q \in Procs : held[p] = held[q] /\ held[p] # None => p = q
OneOwner ==
    /\ TypeOK
    /\ BufferedOnce
    /\ HeldOnce
    /\ Buffered \cap Held = {}
    /\ open = Buffered \cup Held

(***************************************************************************)
(* A connection on which a command met an I/O error is never lent again:   *)
(* it does not enter the channel, also when the error and Close race.      *)
(* MUTATE is the exception: it does not mark its connection.               *)
(***************************************************************************)
BrokenIsNotReused == seen \cap Buffered = {}

(***************************************************************************)
(* put sends only to a channel nobody has closed, and never more than it   *)
(* can buffer: sending to a closed channel panics, and sending to a full   *)
(* one would keep the lock for ever.                                       *)
(***************************************************************************)
SendIsSafe == [][\A p \in Procs : put(p) /\ Len(conns') > Len(conns) =>
                    ~over /\ Len(conns') <= MaxCap]_vars

(***************************************************************************)
(* "Close closes the pool and all its connections": after Close and once   *)
(* the borrowers are done no connection is open, not even one that was     *)
(* made by a Get that Close overtook.                                      *)
(***************************************************************************)
ClosedIsDrained == shut ~> open = {}

=============================================================================
