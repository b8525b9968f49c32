------------------------------ MODULE Lifecycle ------------------------------
(***************************************************************************)
(* The life of the server process: main (cmd/faktory/daemon.go) boots the  *)
(* server, starts the goroutines of the signal handler (cli.go) and of the *)
(* command server (server.go), waits for the stopper channel to be closed  *)
(* and takes the server down.  The task runner's goroutine is the one of   *)
(* TaskRunner.  What commands do is in Manager; that the listener accepts  *)
(* them, and that one may panic, is all there is of them here.             *)
(*                                                                         *)
(* The process begins here when BuildServer has read the configuration and *)
(* started Redis.  A panic in one goroutine ends the process at once, as   *)
(* nothing recovers but the Web UI's handlers, where net/http does.        *)
(***************************************************************************)
EXTENDS TaskRunner

CONSTANTS
    Signals,     \* the signals that may come: "TERM" (also for INT), "HUP", "TTIN"
    MaxSignals   \* bound on their number

ASSUME LifecycleAssumption ==
    /\ Signals \subseteq {"TERM", "HUP", "TTIN"}
    /\ MaxSignals \in Nat

VARIABLES
    proc,      \* the process
    main,      \* what main is doing
    store,     \* s.store: the client of Redis
    listener,  \* s.listener
    redis,     \* the Redis process
    stopper,   \* is the stopper channel closed?
    run,       \* the goroutine of Server.Run
    handler,   \* the goroutine of HandleSignals: the signal it handles
    signals,   \* its channel, with room for one signal
    web,       \* the Web UI: not started, off (binding ":0") or on
    sent,      \* history: the signals sent so far
    thrown     \* history: did a command or a read of the heartbeats panic?

lcvars == <<proc, main, store, listener, redis, stopper, run, handler, signals, web, sent, thrown>>
vars == <<trvars, lcvars>>

Init ==
    /\ TaskRunnerInit
    /\ proc = "alive"
    /\ main = "boot"
    /\ store = "none"
    /\ listener = "none"
    /\ redis = "up"
    /\ stopper = "open"
    /\ run = "off"
    /\ handler = "off"
    /\ signals = << >>
    /\ web = "unset"
    /\ sent = << >>
    /\ thrown = FALSE

Alive == proc = "alive"

-----------------------------------------------------------------------------
(* main *)

\* Boot: the store, the listener, a new stopper, and the tasks.
Boot ==
    /\ main = "boot"
    /\ redis = "up"
    /\ store' = "open"
    /\ listener' = "open"
    /\ main' = "booted"
    /\ UNCHANGED <<proc, redis, stopper, run, handler, signals, web, sent, thrown>>

\* Redis does not answer, or the port is taken and the store is closed again.
BootFail ==
    /\ main = "boot"
    /\ main' = "defer"
    /\ store' \in {"none", "closed"}
    /\ UNCHANGED <<proc, listener, redis, stopper, run, handler, signals, web, sent, thrown>>

\* main registers the Web UI, starts both goroutines and waits.
Go ==
    /\ main = "booted"
    /\ main' = "wait"
    /\ handler' = "idle"
    /\ run' = "start"
    /\ UNCHANGED <<proc, store, listener, redis, stopper, signals, web, sent, thrown>>

\* Fault: Stop closes the stopper, for those who call it without a signal.
StopCloses ==
    /\ main = "wait"
    /\ stopper = "closed"
    /\ listener' = "closed"
    /\ main' = "stop"
    /\ proc' = "panicked"
    /\ UNCHANGED <<store, redis, stopper, run, handler, signals, web, sent, thrown>>

\* The stopper is closed: Stop closes the listener ...
Stop ==
    /\ main = "wait"
    /\ stopper = "closed"
    /\ listener' = "closed"
    /\ main' = "stop"
    /\ UNCHANGED <<proc, store, redis, stopper, run, handler, signals, web, sent, thrown>>

\* Fault: the store is left open.
StopStoreNot ==
    /\ main = "stop"
    /\ main' = "defer"
    /\ UNCHANGED <<proc, store, listener, redis, stopper, run, handler, signals, web, sent, thrown>>

\* ... and the store a moment later.
StopStore ==
    /\ main = "stop"
    /\ store' = "closed"
    /\ main' = "defer"
    /\ UNCHANGED <<proc, listener, redis, stopper, run, handler, signals, web, sent, thrown>>

\* The deferred stopper function of storage.Boot, and the end of main.
stopRedis ==
    /\ main = "defer"
    /\ redis' = IF redis = "up" THEN "stopped" ELSE redis
    /\ main' = "done"
    /\ proc' = "exited"
    /\ UNCHANGED <<store, listener, stopper, run, handler, signals, web, sent, thrown>>

-----------------------------------------------------------------------------
(* The other goroutines *)

\* close(s.Stopper()): a channel that is closed already panics.
CloseStopper ==
    /\ stopper' = "closed"
    /\ proc' = IF stopper = "closed" THEN "panicked" ELSE proc

\* Run starts the subsystems, of which the Web UI is one ...
StartSubsystems(w) ==
    /\ run = "start"
    /\ web' = w
    /\ run' = "accept"
    /\ UNCHANGED <<proc, main, store, listener, redis, stopper, handler, signals, sent, thrown>>

\* ... and gives up when one of them fails; the Web UI itself never does.
StartFail(w) ==
    /\ run = "start"
    /\ web' = w
    /\ run' = "failed"
    /\ CloseStopper
    /\ UNCHANGED <<main, store, listener, redis, handler, signals, sent, thrown>>

\* Accept returns an error when the listener is closed.
AcceptEnds ==
    /\ run = "accept"
    /\ listener = "closed"
    /\ run' = "ended"
    /\ UNCHANGED <<proc, main, store, listener, redis, stopper, handler, signals, web, sent, thrown>>

\* A signal comes: before signal.Notify it kills the process (TTIN only stops
\* it), after that it is dropped when the channel is full.
Signal(s) ==
    /\ Len(sent) < MaxSignals
    /\ sent' = Append(sent, s)
    /\ signals' = IF handler # "off" /\ signals = << >> THEN <<s>> ELSE signals
    /\ proc' = IF handler = "off" /\ s # "TTIN" THEN "killed" ELSE proc
    /\ UNCHANGED <<main, store, listener, redis, stopper, run, handler, web, thrown>>

\* HandleSignals takes one signal after the other.
Receive ==
    /\ handler = "idle"
    /\ signals # << >>
    /\ handler' = Head(signals)
    /\ signals' = << >>
    /\ UNCHANGED <<proc, main, store, listener, redis, stopper, run, web, sent, thrown>>

exit ==
    /\ handler = "TERM"
    /\ CloseStopper
    /\ handler' = "idle"
    /\ UNCHANGED <<main, store, listener, redis, run, signals, web, sent, thrown>>

\* Fault: the signal handler ends when the configuration cannot be read.
reloadEnds ==
    /\ handler = "HUP"
    /\ handler' = "off"
    /\ UNCHANGED <<proc, main, store, listener, redis, stopper, run, signals, web, sent, thrown>>

\* The configuration cannot be read, or the Web UI's options did not change; a
\* Web UI that was not started has none to compare ...
reloadSame ==
    /\ handler = "HUP"
    /\ handler' = "idle"
    /\ proc' \in IF web = "unset" THEN {"alive", "panicked"} ELSE {"alive"}
    /\ UNCHANGED <<main, store, listener, redis, stopper, run, signals, web, sent, thrown>>

\* ... or they did: the old server is shut down, with a closer that a Web UI
\* that is off does not have, and a new one is started.
reloadWeb(w) ==
    /\ handler = "HUP"
    /\ handler' = "idle"
    /\ web # "unset"
    /\ \/ /\ web = "on"
          /\ web' = w
          /\ UNCHANGED proc
       \/ /\ web = "off"
          /\ proc' = "panicked"
          /\ UNCHANGED web
    /\ UNCHANGED <<main, store, listener, redis, stopper, run, signals, sent, thrown>>

threadDump ==
    /\ handler = "TTIN"
    /\ handler' = "idle"
    /\ UNCHANGED <<proc, main, store, listener, redis, stopper, run, signals, web, sent, thrown>>

-----------------------------------------------------------------------------
(* What else ends the process *)

\* Redis crashes.  (One that is told by others to end, and does so without an
\* error, is not missed: commands fail from then on.)
RedisDies ==
    /\ redis = "up"
    /\ redis' = "crashed"
    /\ UNCHANGED <<proc, main, store, listener, stopper, run, handler, signals, web, sent, thrown>>

\* The goroutine of bootRedis that waits for it.
RedisWait ==
    /\ redis = "crashed"
    /\ proc' = "panicked"
    /\ UNCHANGED <<main, store, listener, redis, stopper, run, handler, signals, web, sent, thrown>>

\* A command without its argument (PUSH, ACK, FAIL, BEAT or QUEUE) panics
\* in the goroutine of its connection, which may outlive the listener.
CommandPanics ==
    /\ run \in {"accept", "ended"}
    /\ proc' = "panicked"
    /\ thrown' = TRUE
    /\ UNCHANGED <<main, store, listener, redis, stopper, run, handler, signals, web, sent>>

\* The Web UI reads the heartbeats without the lock: when a connection adds or
\* removes a worker meanwhile the Go runtime ends the process.
HeartbeatsRace ==
    /\ run \in {"accept", "ended"}
    /\ web = "on"
    /\ proc' = "panicked"
    /\ thrown' = TRUE
    /\ UNCHANGED <<main, store, listener, redis, stopper, run, handler, signals, web, sent>>

-----------------------------------------------------------------------------
Handle == exit \/ reloadSame \/ threadDump \/ \E w \in {"off", "on"} : reloadWeb(w)

MainStep == Boot \/ BootFail \/ Go \/ Stop \/ StopStore \/ stopRedis

RunStep == AcceptEnds \/ \E w \in {"off", "on"} : StartSubsystems(w) \/ StartFail(w)

\* The task runner's goroutine is there once the server has booted.
Tasks ==
    /\ listener # "none"
    /\ \/ TaskRunnerNext
       \/ stopper = "closed" /\ StopTasks

Next ==
    /\ Alive
    /\ \/ /\ \/ MainStep
             \/ RunStep
             \/ Receive
             \/ Handle
             \/ RedisDies
             \/ RedisWait
             \/ CommandPanics
             \/ HeartbeatsRace
             \/ \E s \in Signals : Signal(s)
          /\ UNCHANGED trvars
       \/ Tasks /\ UNCHANGED lcvars

Spec == Init /\ [][Next]_vars

(***************************************************************************)
(* Goroutines that can go on do.  A reload waits for the requests the Web  *)
(* UI is answering, which its timeouts end.                                *)
(***************************************************************************)
Fairness ==
    /\ WF_vars(Alive /\ MainStep /\ UNCHANGED trvars)
    /\ WF_vars(Alive /\ RunStep /\ UNCHANGED trvars)
    /\ WF_vars(Alive /\ Receive /\ UNCHANGED trvars)
    /\ WF_vars(Alive /\ Handle /\ UNCHANGED trvars)
    /\ WF_vars(Alive /\ RedisWait /\ UNCHANGED trvars)

FairSpec == Spec /\ Fairness

-----------------------------------------------------------------------------
(* Properties *)

TypeOK ==
    /\ TaskRunnerTypeOK
    /\ proc \in {"alive", "exited", "panicked", "killed"}
    /\ main \in {"boot", "booted", "wait", "stop", "defer", "done"}
    /\ {store, listener} \subseteq {"none", "open", "closed"}
    /\ redis \in {"up", "stopped", "crashed"}
    /\ stopper \in {"open", "closed"}
    /\ run \in {"off", "start", "accept", "failed", "ended"}
    /\ handler \in {"off", "idle"} \cup Signals
    /\ signals \in Seq(Signals) /\ Len(signals) <= 1
    /\ web \in {"unset", "off", "on"}
    /\ sent \in Seq(Signals)
    /\ thrown \in BOOLEAN

(***************************************************************************)
(* The server goes down in order, from whichever point main returns: no    *)
(* new connections before the store is closed, and the store before Redis  *)
(* is told to stop.  (With the types of the state.)                        *)
(***************************************************************************)
DownInOrder ==
    /\ TypeOK
    /\ redis = "stopped" => store # "open"
    /\ store = "closed" => listener # "open"

(***************************************************************************)
(* What a panic of the process is due to:                                  *)
(*  - the stopper is closed twice, by a second TERM or by a TERM and a     *)
(*    subsystem that fails;                                                *)
(*  - HUP comes before the Web UI was started, or finds it switched off;   *)
(*  - Redis ended with an error;                                           *)
(*  - a command without its argument, or heartbeats read while they change.*)
(* Without the last two, one TERM on its own takes the server down in      *)
(* order, whatever the goroutines are doing.                               *)
(***************************************************************************)
Sent(s) == {k \in 1..Len(sent) : sent[k] = s}
PanicHasCause ==
    proc = "panicked" =>
        \/ stopper = "closed" /\ run = "failed" /\ Sent("TERM") # {}
        \/ stopper = "closed" /\ \E j, k \in Sent("TERM") : j # k
        \/ web # "on" /\ Sent("HUP") # {}
        \/ redis = "crashed"
        \/ thrown

(***************************************************************************)
(* The server goes down when it is told to: by a TERM that the signal      *)
(* handler's channel took, even if the handler is still busy with another  *)
(* signal, or by a subsystem that fails to start, after which nothing      *)
(* stays behind that accepts connections; and when Redis crashes.          *)
(***************************************************************************)
ToldToStop == signals = <<"TERM">> \/ run = "failed" \/ redis = "crashed"
StopsWhenTold == ToldToStop ~> ~Alive

=============================================================================
