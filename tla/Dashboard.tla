------------------------------ MODULE Dashboard ------------------------------
(***************************************************************************)
(* The dashboard of the Web UI (webui/static/dashboard.js) in one tab of a *)
(* browser, and the part of the server it polls.  The page draws a graph   *)
(* of the jobs processed and failed between two answers of /stats.  Its    *)
(* timers, the user's slider, resizes of the window and the answers, which *)
(* come late, out of order or not at all, run in any order; each callback  *)
(* runs to its end, as callbacks of a page do, and is a function from the  *)
(* page to the page.                                                       *)
(*                                                                         *)
(* Time is left out: a timer that is set may fire at any moment.  Redis    *)
(* may be flushed, and a command on a counter may fail: storage/history.go *)
(* ignores the error of an INCR and takes a total it cannot read for 0.    *)
(***************************************************************************)
EXTENDS Integers, Sequences, FiniteSets

CONSTANTS
    Intervals,    \* the values of the polling interval's slider
    Default,      \* its value in the page, and the interval without a stored one
    Requests,     \* requests to /stats that may be in flight
    MaxJobs,      \* bound on the jobs processed
    MaxEvents,    \* bound on resizes, moves of the slider and changes in other tabs
    MaxFaults     \* bound on the requests and commands that fail and on FLUSHes

ASSUME DashboardAssumption ==
    /\ Default \in Intervals
    /\ Intervals \subseteq Nat \ {0}
    /\ {MaxJobs, MaxEvents, MaxFaults} \subseteq Nat

VARIABLES
    total,    \* the counters "processed" and "failures" in Redis
    failing,  \* calls of Failure between their two INCRs
    drifted,  \* history: the counters have, or will have, a failure without its job
    stored,   \* localStorage.timeInterval, which all tabs share; 0 is undefined
    request,  \* the requests in flight
    faults,   \* the faults so far
    events,   \* the events of the user so far
    page      \* the page: its globals, closures, timers and elements

vars == <<total, failing, drifted, stored, request, faults, events, page>>

Zero == [processed |-> 0, failed |-> 0]
Plus(p, q) == [processed |-> p.processed + q.processed, failed |-> p.failed + q.failed]
Minus(p, q) == [processed |-> p.processed - q.processed, failed |-> p.failed - q.failed]

\* A slot without a request.  A request knows the graph it was sent for and how
\* many of the two counters the server has read for it; torn is history: the
\* reads do not fit together, or the counters did not when they were read.
Free == [graph |-> 0, read |-> 0, totals |-> Zero, torn |-> FALSE]

-----------------------------------------------------------------------------
(* The functions of dashboard.js *)

\* The page while the server renders it; dashboard.js has not run.  Its phase is
\* then the counter that summary.ego reads next.  Faktory = {} knows no totals;
\* counted, early and settled are history: the totals of the first answer plus
\* all points drawn since, whether a resize drew graphs before the page was
\* ready, and whether the interval is as the page set it.
NewPage ==
    [phase |-> "processed", known |-> FALSE, Faktory |-> Zero, graphs |-> 0,
     poller |-> 0, interval |-> 0, timers |-> {}, shown |-> {}, resizing |-> 0,
     slider |-> Default, label |-> Default, dragging |-> FALSE, summary |-> Zero,
     counted |-> Zero, early |-> FALSE, settled |-> FALSE]

clearInterval(p) == [p EXCEPT !.timers = @ \ {p.poller}]

\* A graph of its own for each call, with a poller that draws into it.
realtimeGraph(p, st) ==
    LET n == p.graphs + 1 IN
    [p EXCEPT !.graphs = n, !.poller = n, !.interval = IF st = 0 THEN Default ELSE st,
              !.timers = @ \cup {n}, !.shown = @ \cup {n}]

\* The realtime graph and the history graph beside it, which has no state here.
renderGraphs(p, st) == realtimeGraph(p, st)

resetGraphs(p) == [p EXCEPT !.shown = {}]

setSliderLabel(p, val) == [p EXCEPT !.label = val]

\* Fault: the figures are left alone when no job was processed since.
updateStatsSummaryIdle(p, t) ==
    IF t.processed > p.summary.processed THEN [p EXCEPT !.summary = t] ELSE p

\* All figures of the summary bar come from one answer; two stand for them.
updateStatsSummary(p, t) == [p EXCEPT !.summary = t]

\* Fault: a graph that was drawn anew starts from the raw totals.
PointRaw(p, g, t) == IF g > 1 /\ g = p.poller THEN t ELSE Minus(t, p.Faktory)

\* The point graph g gets.  The branch for i = 0 is never taken: the callback
\* that sent the poll has incremented i before the answer can arrive.  A total
\* minus an undefined one is NaN, which addData takes for 0.
Point(p, g, t) == IF p.known THEN Minus(t, p.Faktory) ELSE Zero

\* The callback of getJSON: the globals and the summary are those of the page,
\* the graph is the one the poll was sent for.  What updateServerStats and
\* updateFooterUTCTime show is left out, as is the beacon.
onStats(p, g, t) ==
    updateStatsSummary(
        [p EXCEPT !.counted = Plus(IF p.known THEN @ ELSE t, Point(p, g, t)),
                  !.known = TRUE, !.Faktory = t], t)

-----------------------------------------------------------------------------
Init ==
    /\ total = Zero
    /\ failing = 0
    /\ drifted = FALSE
    /\ stored \in Intervals \cup {0}
    /\ request = [r \in Requests |-> Free]
    /\ faults = 0
    /\ events = 0
    /\ page = NewPage

-----------------------------------------------------------------------------
(* The server *)

\* A fault: a request or a command fails, or somebody sends FLUSH.
Fault == faults < MaxFaults /\ faults' = faults + 1

\* A job is acknowledged (if its INCR fails nothing changes) ...
Success ==
    /\ total.processed < MaxJobs
    /\ total' = [total EXCEPT !.processed = @ + 1]
    /\ UNCHANGED <<failing, drifted, stored, request, faults, events, page>>

\* ... or fails: it is counted as processed first, then as a failure.  Failure
\* looks at neither INCR's error.
FailureProcessed ==
    /\ failing' = failing + 1
    /\ \/ /\ total.processed < MaxJobs
          /\ total' = [total EXCEPT !.processed = @ + 1]
          /\ UNCHANGED <<drifted, faults>>
       \/ /\ Fault
          /\ drifted' = TRUE
          /\ UNCHANGED total
    /\ UNCHANGED <<stored, request, events, page>>

FailureFailed ==
    /\ failing > 0
    /\ failing' = failing - 1
    /\ \/ /\ total' = [total EXCEPT !.failed = @ + 1]
          /\ UNCHANGED faults
       \/ /\ Fault
          /\ UNCHANGED total
    /\ UNCHANGED <<drifted, stored, request, events, page>>

\* FLUSH deletes the counters, also between two INCRs or two reads.
Flush ==
    /\ Fault
    /\ total' = Zero
    /\ drifted' = (failing > 0)
    /\ request' = [r \in Requests |-> [request[r] EXCEPT !.torn = @ \/ request[r].read = 1]]
    /\ UNCHANGED <<failing, stored, events, page>>

\* Fault: CurrentState reads the two totals in the other order.
ReadOrderSwapped == <<"processed", "failed">>

\* statsHandler: CurrentState reads total_failures first, total_processed next.
ReadOrder == <<"failed", "processed">>

\* One of the two reads; TotalFailures and TotalProcessed return 0 on an error.
StatsRead(r) ==
    LET n == request[r].read + 1 IN
    /\ request[r].graph # 0
    /\ n <= 2
    /\ \/ /\ request' = [request EXCEPT ![r].read = n,
                                        ![r].totals[ReadOrder[n]] = total[ReadOrder[n]],
                                        ![r].torn = @ \/ (n = 1 /\ drifted)]
          /\ UNCHANGED faults
       \/ /\ Fault
          /\ request' = [request EXCEPT ![r].read = n, ![r].torn = TRUE]
    /\ UNCHANGED <<total, failing, drifted, stored, events, page>>

\* summary.ego reads the totals for a fresh page, the jobs processed first.
SummaryRead ==
    LET k == page.phase IN
    /\ k \in {"processed", "failed"}
    /\ \/ /\ page' = [page EXCEPT !.summary[k] = total[k],
                                  !.phase = IF k = "processed" THEN "failed" ELSE "script"]
          /\ UNCHANGED faults
       \/ /\ Fault
          /\ page' = [page EXCEPT !.phase = IF k = "processed" THEN "failed" ELSE "script"]
    /\ UNCHANGED <<total, failing, drifted, stored, request, events>>

-----------------------------------------------------------------------------
(* The browser: one callback or event at a time *)

\* The elements after the script tag are parsed.
Parse ==
    /\ page.phase = "script"
    /\ page' = [page EXCEPT !.phase = "body"]
    /\ UNCHANGED <<total, failing, drifted, stored, request, faults, events>>

\* Fault: the slider is not set to the stored interval.
RestoredNot(p, st) == p

\* The slider and its label take over an interval that was stored before.
Restored(p, st) == IF st = 0 THEN p ELSE setSliderLabel([p EXCEPT !.slider = st], st)

\* The document is ready.
Ready ==
    /\ page.phase = "body"
    /\ page' = [Restored(renderGraphs(page, stored), stored)
                  EXCEPT !.phase = "ready", !.settled = TRUE]
    /\ UNCHANGED <<total, failing, drifted, stored, request, faults, events>>

\* The poller of graph g is due: getJSON.
Poll(g, r) ==
    /\ g \in page.timers
    /\ request[r] = Free
    /\ request' = [request EXCEPT ![r].graph = g]
    /\ UNCHANGED <<total, failing, drifted, stored, faults, events, page>>

\* An answer arrives; nothing ties it to the order of the polls.
Deliver(r) ==
    /\ request[r].read = 2
    /\ request' = [request EXCEPT ![r] = Free]
    /\ page' = onStats(page, request[r].graph, request[r].totals)
    /\ UNCHANGED <<total, failing, drifted, stored, faults, events>>

\* A request fails at any stage: getJSON has no error handler.
Lose(r) ==
    /\ request[r] # Free
    /\ Fault
    /\ request' = [request EXCEPT ![r] = Free]
    /\ UNCHANGED <<total, failing, drifted, stored, events, page>>

\* Something the user does.
Event == events < MaxEvents /\ events' = events + 1

\* The user moves the slider ...
Drag(v) ==
    /\ page.phase = "ready"
    /\ v # page.slider
    /\ Event
    /\ page' = [page EXCEPT !.slider = v, !.dragging = TRUE, !.settled = FALSE]
    /\ UNCHANGED <<total, failing, drifted, stored, request, faults>>

\* ... the pointer moves over it ...
MouseMove ==
    /\ page.phase = "ready"
    /\ page' = setSliderLabel(page, page.slider)
    /\ UNCHANGED <<total, failing, drifted, stored, request, faults, events>>

\* Fault: the old poller is not stopped.
RedrawLeaks(p, st) == renderGraphs(resetGraphs(p), st)

\* Both handlers that draw anew: clearInterval(poller), resetGraphs, renderGraphs.
Redraw(p, st) == renderGraphs(resetGraphs(clearInterval(p)), st)

\* ... and it is released: the change handler.
Change ==
    /\ page.dragging
    /\ stored' = page.slider
    /\ page' = [Redraw(setSliderLabel(page, page.slider), page.slider)
                  EXCEPT !.dragging = FALSE, !.settled = TRUE]
    /\ UNCHANGED <<total, failing, drifted, request, faults, events>>

\* The change handler of another tab: localStorage is shared.
OtherTab(v) ==
    /\ v # stored
    /\ Event
    /\ stored' = v
    /\ page' = [page EXCEPT !.settled = FALSE]
    /\ UNCHANGED <<total, failing, drifted, request, faults>>

\* debounce: the timeout that was set is cleared for the new one.
debounce(n) == 1

\* window.onresize
Resize ==
    /\ page.phase \in {"script", "body", "ready"}
    /\ Event
    /\ page' = [page EXCEPT !.resizing = debounce(@)]
    /\ UNCHANGED <<total, failing, drifted, stored, request, faults>>

\* The debounced callback.  Before #realtime and #history are parsed
\* resetGraphs throws; after that it draws, even if the page is not ready.
ResizeDone ==
    LET q == [page EXCEPT !.resizing = @ - 1] IN
    /\ page.resizing > 0
    /\ \/ /\ page.phase = "script"
          /\ page' = clearInterval(q)
       \/ /\ page.phase = "body"
          /\ page' = [Redraw(q, stored) EXCEPT !.early = TRUE]
       \/ /\ page.phase = "ready"
          /\ page' = Redraw(q, stored)
    /\ UNCHANGED <<total, failing, drifted, stored, request, faults, events>>

-----------------------------------------------------------------------------
Graphs == 1..page.graphs

Next ==
    \/ Success
    \/ FailureProcessed
    \/ FailureFailed
    \/ Flush
    \/ SummaryRead
    \/ \E r \in Requests : StatsRead(r) \/ Deliver(r) \/ Lose(r)
    \/ Parse
    \/ Ready
    \/ \E g \in Graphs, r \in Requests : Poll(g, r)
    \/ \E v \in Intervals : Drag(v) \/ OtherTab(v)
    \/ MouseMove
    \/ Change
    \/ Resize
    \/ ResizeDone

Spec == Init /\ [][Next]_vars

(***************************************************************************)
(* The server renders the page, the browser parses it and fires its        *)
(* timers; the server answers or the request fails, and faults happen      *)
(* finitely often; a call of Failure is carried to its end.  The user does *)
(* as he likes.                                                            *)
(***************************************************************************)
Fairness ==
    /\ WF_vars(SummaryRead)
    /\ WF_vars(Parse)
    /\ WF_vars(Ready)
    /\ WF_vars(\E g \in Graphs, r \in Requests : Poll(g, r))
    /\ \A r \in Requests : WF_vars(StatsRead(r)) /\ WF_vars(Deliver(r))
    /\ WF_vars(FailureFailed)

FairSpec == Spec /\ Fairness

-----------------------------------------------------------------------------
(* Properties *)

Totals == [processed : Int, failed : Int]

TypeOK ==
    /\ total \in [processed : Nat, failed : Nat]
    /\ failing \in Nat
    /\ drifted \in BOOLEAN
    /\ stored \in Intervals \cup {0}
    /\ \A r \in Requests : /\ request[r].graph \in 0..page.graphs
                           /\ request[r].read \in 0..2
                           /\ request[r].totals \in Totals
                           /\ request[r].torn \in BOOLEAN
    /\ page.phase \in {"processed", "failed", "script", "body", "ready"}
    /\ page.poller \in 0..page.graphs
    /\ page.timers \cup page.shown \subseteq Graphs
    /\ page.resizing \in 0..1
    /\ {page.slider, page.label} \subseteq Intervals
    /\ {page.Faktory, page.summary, page.counted} \subseteq Totals
    /\ page.interval \in Intervals \cup {0}

(***************************************************************************)
(* No job is drawn twice and none is left out: what all points of all      *)
(* graphs add up to is what the totals grew by since the first answer,     *)
(* however often the graph was drawn anew, whichever answers were lost,    *)
(* and also when they came out of order (a point may be negative then).    *)
(***************************************************************************)
DrawnOnce == page.known => page.Faktory = page.counted

(***************************************************************************)
(* There is one graph, its poller runs, and no other does, however the     *)
(* slider's and the window's handlers alternate.  The exception is a       *)
(* window that was resized just before the page was ready: the ready       *)
(* handler does not stop the poller that is running then, one such poller  *)
(* runs on for good, and never more than one.  (With the types of the      *)
(* state.)                                                                 *)
(***************************************************************************)
OnePoller ==
    /\ TypeOK
    /\ page.phase = "ready" =>
         /\ page.poller \in page.timers \cap page.shown
         /\ Cardinality(page.timers) <= IF page.early THEN 2 ELSE 1
         /\ ~page.early => page.shown = {page.poller}

(***************************************************************************)
(* The interval on the page is the one it polls at and the one that is     *)
(* stored, unless the slider is being moved or another tab has stored an   *)
(* interval: a redraw after a resize then polls at that one, and the label *)
(* keeps the old one until the next change.                                *)
(***************************************************************************)
LabelHonest ==
    page.settled =>
        /\ page.interval = page.label
        /\ page.interval = page.slider
        /\ page.interval = IF stored = 0 THEN Default ELSE stored

(***************************************************************************)
(* No interleaving of jobs and requests makes an answer of /stats have     *)
(* more failures than jobs processed: Failure counts a job as processed    *)
(* first, CurrentState reads the failures first.  Only a fault does: the   *)
(* INCR of "processed" failed, a read failed, or FLUSH came between the    *)
(* INCRs or the reads.  (The summary of a fresh page is read in the other  *)
(* order and is not covered.)                                              *)
(***************************************************************************)
FailedWithinProcessed ==
    \A r \in Requests : request[r].read = 2 /\ ~request[r].torn =>
        request[r].totals.failed <= request[r].totals.processed

(***************************************************************************)
(* Once the jobs stop, the summary comes to show the true totals and keeps *)
(* them: neither a late answer nor a redraw leaves an old figure there.    *)
(***************************************************************************)
CatchesUp == <>[](page.phase = "ready" /\ page.summary = total)

=============================================================================
