--------------------------- MODULE DashboardProofs ---------------------------
(***************************************************************************)
(* Proofs about Dashboard, for every set of intervals and any number of    *)
(* requests in flight, jobs, redraws, lost answers and Redis errors.       *)
(***************************************************************************)
EXTENDS Dashboard, FiniteSetTheorems, TLAPS

Phases == {"processed", "failed", "script", "body", "ready"}

\* The page with all of its fields.
PageType ==
    [phase : Phases, known : BOOLEAN, Faktory : Totals, graphs : Nat, poller : Nat,
     interval : Intervals \cup {0}, timers : SUBSET Nat, shown : SUBSET Nat,
     resizing : 0..1, slider : Intervals, label : Intervals, dragging : BOOLEAN,
     summary : Totals, counted : Totals, early : BOOLEAN, settled : BOOLEAN]

\* A request in flight.
RequestType == [graph : Nat, read : 0..2, totals : Totals, torn : BOOLEAN]

Types ==
    /\ total \in [processed : Nat, failed : Nat]
    /\ failing \in Nat
    /\ drifted \in BOOLEAN
    /\ stored \in Intervals \cup {0}
    /\ request \in [Requests -> RequestType]
    /\ page \in PageType

\* Requests and timers belong to graphs that were drawn.
GraphsDrawn ==
    /\ page.poller <= page.graphs
    /\ page.timers \subseteq 1..page.graphs
    /\ page.shown \subseteq 1..page.graphs
    /\ \A r \in Requests : request[r].graph <= page.graphs

\* The pollers, in each phase of the page.  Before it is ready there is a graph
\* only if the window was resized; the poller of the last such graph is the one
\* that may run on for good.
Pollers ==
    /\ page.phase # "ready" /\ ~page.early =>
         page.timers = {} /\ page.shown = {} /\ page.poller = 0
    /\ page.phase \in {"processed", "failed", "script"} => ~page.early
    /\ page.phase = "body" /\ page.early =>
         page.timers = {page.poller} /\ page.shown = {page.poller}
    /\ page.phase = "ready" =>
         /\ page.poller \in page.timers
         /\ page.poller \in page.shown
         /\ ~page.early => page.timers = {page.poller} /\ page.shown = {page.poller}
         /\ \E x \in 1..page.graphs : page.timers \subseteq {x, page.poller}

\* The slider and its label, with what they are before the page is ready.
Labels ==
    /\ page.phase # "ready" => ~page.settled /\ page.slider = Default /\ page.label = Default
    /\ page.dragging => page.phase = "ready"
    /\ LabelHonest

\* The failures that are counted, and those of the answers under way, are
\* among the jobs processed, where no fault has come between.
Counts ==
    /\ ~drifted => total.failed + failing <= total.processed
    /\ \A r \in Requests : ~request[r].torn =>
         /\ request[r].read = 1 => request[r].totals.failed <= total.processed
         /\ request[r].read = 2 => request[r].totals.failed <= request[r].totals.processed

\* The inductive invariant.
DashInv ==
    /\ Types
    /\ GraphsDrawn
    /\ Pollers
    /\ Labels
    /\ Counts
    /\ DrawnOnce

-----------------------------------------------------------------------------
(* The functions of the script, field by field *)

\* Sums and differences of totals.
LEMMA TotalsArithmetic ==
    /\ Zero \in Totals
    /\ \A s, t \in Totals : /\ Plus(s, t) \in Totals
                            /\ Minus(s, t) \in Totals
                            /\ Plus(s, Minus(t, s)) = t
                            /\ Plus(s, Zero) = s
  BY DEF Zero, Totals, Plus, Minus

\* Drawing a graph: a poller of its own joins the timers.
LEMMA realtimeGraphFields ==
    ASSUME NEW p \in PageType, NEW st \in Intervals \cup {0}
    PROVE  /\ realtimeGraph(p, st) \in PageType
           /\ realtimeGraph(p, st) =
                [p EXCEPT !.graphs = p.graphs + 1, !.poller = p.graphs + 1,
                          !.interval = IF st = 0 THEN Default ELSE st,
                          !.timers = p.timers \cup {p.graphs + 1},
                          !.shown = p.shown \cup {p.graphs + 1}]
<1> DEFINE v == IF st = 0 THEN Default ELSE st
           n == p.graphs + 1
<1>1. v \in Intervals \cup {0} /\ n \in Nat
  BY DashboardAssumption DEF PageType
<1>2. realtimeGraph(p, st) = [p EXCEPT !.graphs = n, !.poller = n, !.interval = v,
                                       !.timers = p.timers \cup {n}, !.shown = p.shown \cup {n}]
  BY DEF realtimeGraph, PageType
<1>3. p.timers \cup {n} \in SUBSET Nat /\ p.shown \cup {n} \in SUBSET Nat
  BY <1>1 DEF PageType
<1> HIDE DEF v, n
<1>4. realtimeGraph(p, st) \in PageType
  BY <1>1, <1>2, <1>3, ZenonT(60) DEF PageType
<1> QED
  BY <1>2, <1>4 DEF v, n

\* Drawing anew: the global poller is replaced among the timers, and the new
\* graph is the only one that is shown.
LEMMA RedrawFields ==
    ASSUME NEW p \in PageType, NEW st \in Intervals \cup {0}
    PROVE  /\ Redraw(p, st) \in PageType
           /\ Redraw(p, st) =
                [p EXCEPT !.graphs = p.graphs + 1, !.poller = p.graphs + 1,
                          !.interval = IF st = 0 THEN Default ELSE st,
                          !.timers = (p.timers \ {p.poller}) \cup {p.graphs + 1},
                          !.shown = {p.graphs + 1}]
<1> DEFINE q == resetGraphs(clearInterval(p))
<1>1. q \in PageType /\ q = [p EXCEPT !.timers = p.timers \ {p.poller}, !.shown = {}]
  BY DEF resetGraphs, clearInterval, PageType
<1>2. /\ realtimeGraph(q, st) \in PageType
      /\ realtimeGraph(q, st) =
                [q EXCEPT !.graphs = q.graphs + 1, !.poller = q.graphs + 1,
                          !.interval = IF st = 0 THEN Default ELSE st,
                          !.timers = q.timers \cup {q.graphs + 1},
                          !.shown = q.shown \cup {q.graphs + 1}]
  BY <1>1, realtimeGraphFields
<1>3. /\ q.graphs = p.graphs /\ q.timers = p.timers \ {p.poller} /\ q.shown = {}
  BY <1>1 DEF PageType
<1>4. Redraw(p, st) = realtimeGraph(q, st)
  BY DEF Redraw, renderGraphs
<1> HIDE DEF q
<1>5. ASSUME NEW a, NEW b, NEW c, NEW d
      PROVE  [q EXCEPT !.graphs = a, !.poller = a, !.interval = b, !.timers = c, !.shown = d]
               = [p EXCEPT !.graphs = a, !.poller = a, !.interval = b, !.timers = c, !.shown = d]
  BY <1>1 DEF PageType
<1>6. q.shown \cup {q.graphs + 1} = {p.graphs + 1}
  BY <1>3
<1> QED
  BY <1>2, <1>3, <1>4, <1>5, <1>6

\* An answer: the totals and the summary are the answer's, and the points drawn
\* still add up to the totals.
LEMMA onStatsFields ==
    ASSUME NEW p \in PageType, NEW g, NEW t \in Totals
    PROVE  /\ onStats(p, g, t) \in PageType
           /\ \E s \in Totals :
                /\ onStats(p, g, t) = [p EXCEPT !.counted = s, !.known = TRUE,
                                                !.Faktory = t, !.summary = t]
                /\ (p.known => p.Faktory = p.counted) => s = t
<1> DEFINE s == Plus(IF p.known THEN p.counted ELSE t, Point(p, g, t))
<1>1. p.known \in BOOLEAN /\ p.Faktory \in Totals /\ p.counted \in Totals
  BY DEF PageType
<1>2. s \in Totals
  BY <1>1, TotalsArithmetic DEF Point
<1>3. (p.known => p.Faktory = p.counted) => s = t
  BY <1>1, TotalsArithmetic DEF Point
<1>4. onStats(p, g, t) = [p EXCEPT !.counted = s, !.known = TRUE, !.Faktory = t, !.summary = t]
  BY DEF onStats, updateStatsSummary, PageType
<1>5. onStats(p, g, t) \in PageType
  BY <1>2, <1>4 DEF PageType
<1> QED
  BY <1>2, <1>3, <1>4, <1>5

\* The ready handler: a graph is drawn, and the slider shows the stored interval.
LEMMA ReadyFields ==
    ASSUME NEW p \in PageType, NEW st \in Intervals \cup {0}
    PROVE  LET v == IF st = 0 THEN Default ELSE st IN
           /\ Restored(renderGraphs(p, st), st) \in PageType
           /\ Restored(renderGraphs(p, st), st) =
                [p EXCEPT !.graphs = p.graphs + 1, !.poller = p.graphs + 1, !.interval = v,
                          !.timers = p.timers \cup {p.graphs + 1},
                          !.shown = p.shown \cup {p.graphs + 1},
                          !.slider = IF st = 0 THEN p.slider ELSE st,
                          !.label = IF st = 0 THEN p.label ELSE st]
<1> DEFINE q == realtimeGraph(p, st)
<1>1. /\ q \in PageType
      /\ q = [p EXCEPT !.graphs = p.graphs + 1, !.poller = p.graphs + 1,
                       !.interval = IF st = 0 THEN Default ELSE st,
                       !.timers = p.timers \cup {p.graphs + 1},
                       !.shown = p.shown \cup {p.graphs + 1}]
  BY realtimeGraphFields
<1>2. Restored(renderGraphs(p, st), st) = IF st = 0 THEN q ELSE [q EXCEPT !.slider = st, !.label = st]
  BY <1>1 DEF Restored, renderGraphs, setSliderLabel, PageType
<1> HIDE DEF q
<1>3. CASE st = 0
  <2>1. q = [q EXCEPT !.slider = p.slider, !.label = p.label]
    BY <1>1 DEF PageType
  <2> QED
    BY <1>1, <1>2, <1>3, <2>1 DEF PageType
<1>4. CASE st # 0
  <2>1. st \in Intervals /\ Restored(renderGraphs(p, st), st) = [q EXCEPT !.slider = st, !.label = st]
    BY <1>2, <1>4
  <2>2. [q EXCEPT !.slider = st, !.label = st] \in PageType
    BY <1>1, <2>1, ZenonT(60) DEF PageType
  <2>3. [q EXCEPT !.slider = st, !.label = st] =
          [p EXCEPT !.graphs = p.graphs + 1, !.poller = p.graphs + 1, !.interval = st,
                    !.timers = p.timers \cup {p.graphs + 1},
                    !.shown = p.shown \cup {p.graphs + 1},
                    !.slider = st, !.label = st]
    BY <1>1, <1>4 DEF PageType
  <2> QED
    BY <1>4, <2>1, <2>2, <2>3
<1> QED
  BY <1>3, <1>4

-----------------------------------------------------------------------------
(* Types *)

\* The initial page.
LEMMA TypesInit == Init => Types
<1> SUFFICES ASSUME Init PROVE Types
  OBVIOUS
<1>1. Free \in RequestType
  BY TotalsArithmetic DEF Free, RequestType
<1>2. NewPage \in PageType
  BY TotalsArithmetic, DashboardAssumption DEF NewPage, PageType, Phases
<1> QED
  BY <1>1, <1>2 DEF Init, Types, Zero

\* A counter that was read goes to its field of the answer, unless the read
\* failed.
LEMMA StatsReadFields ==
    ASSUME Types, NEW r \in Requests, StatsRead(r)
    PROVE  /\ request' \in [Requests -> RequestType]
           /\ \A q \in Requests \ {r} : request'[q] = request[q]
           /\ request[r].read \in {0, 1}
           /\ request'[r].graph = request[r].graph
           /\ request'[r].read = request[r].read + 1
           /\ ~request'[r].torn =>
                /\ ~request[r].torn
                /\ request[r].read = 0 => ~drifted /\ request'[r].totals.failed = total.failed
                /\ request[r].read = 1 =>
                     /\ request'[r].totals.failed = request[r].totals.failed
                     /\ request'[r].totals.processed = total.processed
<1> DEFINE x == request[r]
           n == x.read + 1
           b == x.torn \/ (n = 1 /\ drifted)
<1>1. request \in [Requests -> RequestType] /\ x \in RequestType /\ x.totals \in Totals
      /\ x.torn \in BOOLEAN
  BY DEF Types, RequestType
<1>2. x.read \in {0, 1} /\ n \in 0..2
  BY <1>1 DEF StatsRead, RequestType
<1>3. ReadOrder[1] = "failed" /\ ReadOrder[2] = "processed"
  BY DEF ReadOrder
<1>4. total["failed"] = total.failed /\ total["processed"] = total.processed
  OBVIOUS
<1>5. total.failed \in Int /\ total.processed \in Int
  BY DEF Types
<1> DEFINE t == [x.totals EXCEPT ![ReadOrder[n]] = total[ReadOrder[n]]]
<1>6. /\ t \in Totals
      /\ x.read = 0 => t.failed = total.failed
      /\ x.read = 1 => t.failed = x.totals.failed /\ t.processed = total.processed
  <2>2. CASE x.read = 0
    <3>1. t = [x.totals EXCEPT !["failed"] = total.failed]
      BY <1>3, <1>4, <2>2
    <3> HIDE DEF t, x
    <3> QED
      BY <1>1, <1>5, <2>2, <3>1 DEF Totals
  <2>3. CASE x.read = 1
    <3>1. t = [x.totals EXCEPT !["processed"] = total.processed]
      BY <1>3, <1>4, <2>3
    <3> HIDE DEF t, x
    <3> QED
      BY <1>1, <1>5, <2>3, <3>1 DEF Totals
  <2> QED
    BY <1>2, <2>2, <2>3
<1>7. \/ request' = [request EXCEPT ![r] = [x EXCEPT !.read = n, !.totals = t, !.torn = b]]
      \/ request' = [request EXCEPT ![r] = [x EXCEPT !.read = n, !.totals = x.totals, !.torn = TRUE]]
  <2>1. ASSUME NEW u \in Totals, NEW c \in BOOLEAN
        PROVE  [x EXCEPT !.read = n, !.torn = c] = [x EXCEPT !.read = n, !.totals = x.totals, !.torn = c]
    BY <1>1 DEF RequestType
  <2>2. \/ request' = [request EXCEPT ![r].read = n, ![r].totals[ReadOrder[n]] = total[ReadOrder[n]],
                                     ![r].torn = @ \/ (n = 1 /\ drifted)]
        \/ request' = [request EXCEPT ![r].read = n, ![r].torn = TRUE]
    BY DEF StatsRead
  <2>3. CASE request' = [request EXCEPT ![r].read = n, ![r].totals[ReadOrder[n]] = total[ReadOrder[n]],
                                        ![r].torn = @ \/ (n = 1 /\ drifted)]
    BY <1>1, <2>3 DEF RequestType
  <2>4. CASE request' = [request EXCEPT ![r].read = n, ![r].torn = TRUE]
    BY <1>1, <2>1, <2>4 DEF RequestType
  <2> QED
    BY <2>2, <2>3, <2>4
<1>8. b \in BOOLEAN /\ (~b => ~x.torn /\ (x.read = 0 => ~drifted))
  <2>1. drifted \in BOOLEAN
    BY DEF Types
  <2>2. x.read = 0 => n = 1
    OBVIOUS
  <2> HIDE DEF n
  <2> QED
    BY <1>1, <2>1, <2>2
<1> HIDE DEF n, t, b
<1>9. ASSUME NEW y \in RequestType, NEW u \in Totals, NEW c \in BOOLEAN
      PROVE  /\ [y EXCEPT !.read = n, !.totals = u, !.torn = c] \in RequestType
             /\ [y EXCEPT !.read = n, !.totals = u, !.torn = c].graph = y.graph
             /\ [y EXCEPT !.read = n, !.totals = u, !.torn = c].read = n
             /\ [y EXCEPT !.read = n, !.totals = u, !.torn = c].totals = u
             /\ [y EXCEPT !.read = n, !.totals = u, !.torn = c].torn = c
  BY <1>2 DEF RequestType
<1>10. n = x.read + 1
  BY DEF n
<1> HIDE DEF x
<1>11. x = request[r]
  BY DEF x
<1>12. CASE request' = [request EXCEPT ![r] = [x EXCEPT !.read = n, !.totals = t, !.torn = b]]
  <2> DEFINE z == [x EXCEPT !.read = n, !.totals = t, !.torn = b]
  <2>1. z \in RequestType /\ z.graph = x.graph /\ z.read = n /\ z.totals = t /\ z.torn = b
    <3>1. x \in RequestType /\ t \in Totals /\ b \in BOOLEAN
      BY <1>1, <1>6, <1>8
    <3> QED
      BY <1>2, <3>1 DEF RequestType
  <2>2. request' = [request EXCEPT ![r] = z]
    BY <1>12
  <2> HIDE DEF z
  <2>3. request' \in [Requests -> RequestType] /\ request'[r] = z
        /\ \A q \in Requests \ {r} : request'[q] = request[q]
    BY <1>1, <2>1, <2>2
  <2> QED
    BY <1>2, <1>6, <1>8, <1>10, <1>11, <2>1, <2>3
<1>13. CASE request' = [request EXCEPT ![r] = [x EXCEPT !.read = n, !.totals = x.totals, !.torn = TRUE]]
  <2> DEFINE z == [x EXCEPT !.read = n, !.totals = x.totals, !.torn = TRUE]
  <2>1. z \in RequestType /\ z.graph = x.graph /\ z.read = n /\ z.torn = TRUE
    BY <1>1, <1>9
  <2>2. request' = [request EXCEPT ![r] = z]
    BY <1>13
  <2> HIDE DEF z
  <2>3. request' \in [Requests -> RequestType] /\ request'[r] = z
        /\ \A q \in Requests \ {r} : request'[q] = request[q]
    BY <1>1, <2>1, <2>2
  <2> QED
    BY <1>2, <1>10, <1>11, <2>1, <2>3
<1> QED
  BY <1>7, <1>12, <1>13

\* FLUSH marks the answers of which one counter was read.
LEMMA FlushFields ==
    ASSUME Types, Flush
    PROVE  /\ request' \in [Requests -> RequestType]
           /\ \A r \in Requests :
                /\ request'[r].graph = request[r].graph
                /\ request'[r].read = request[r].read
                /\ request'[r].totals = request[r].totals
                /\ ~request'[r].torn => ~request[r].torn /\ request[r].read # 1
<1>1. request' = [r \in Requests |-> [request[r] EXCEPT !.torn = @ \/ request[r].read = 1]]
  BY DEF Flush
<1>2. ASSUME NEW r \in Requests
      PROVE  /\ request'[r] \in RequestType
             /\ request'[r].graph = request[r].graph
             /\ request'[r].read = request[r].read
             /\ request'[r].totals = request[r].totals
             /\ ~request'[r].torn => ~request[r].torn /\ request[r].read # 1
  <2>1. request[r] \in RequestType /\ request[r].torn \in BOOLEAN
    BY DEF Types, RequestType
  <2>2. request'[r] = [request[r] EXCEPT !.torn = request[r].torn \/ request[r].read = 1]
    BY <1>1
  <2> QED
    BY <2>1, <2>2 DEF RequestType
<1> QED
  BY <1>1, <1>2

\* The server reads a counter for the summary of a fresh page.
LEMMA SummaryReadStep ==
    ASSUME Types, SummaryRead
    PROVE  /\ page' \in PageType
           /\ page.phase \in {"processed", "failed"} /\ page'.phase \in {"failed", "script"}
           /\ page'.graphs = page.graphs
           /\ page'.poller = page.poller /\ page'.timers = page.timers
           /\ page'.shown = page.shown /\ page'.early = page.early
           /\ page'.dragging = page.dragging /\ page'.settled = page.settled
           /\ page'.interval = page.interval /\ page'.slider = page.slider
           /\ page'.label = page.label /\ page'.known = page.known
           /\ page'.Faktory = page.Faktory /\ page'.counted = page.counted
           /\ UNCHANGED <<total, failing, drifted, stored, request>>
<1> DEFINE k == page.phase
           f == IF k = "processed" THEN "failed" ELSE "script"
           u == [page.summary EXCEPT ![k] = total[k]]
<1>1. page \in PageType /\ page.summary \in Totals /\ k \in {"processed", "failed"}
  BY DEF Types, PageType, SummaryRead
<1>2. f \in {"failed", "script"} /\ f \in Phases
  BY DEF Phases
<1>3. u \in Totals
  <2>1. total \in [processed : Nat, failed : Nat]
    BY DEF Types
  <2>2. CASE k = "processed"
    BY <1>1, <2>1, <2>2 DEF Totals
  <2>3. CASE k = "failed"
    BY <1>1, <2>1, <2>3 DEF Totals
  <2> QED
    BY <1>1, <2>2, <2>3
<1>4. \/ page' = [page EXCEPT !.summary = u, !.phase = f]
      \/ page' = [page EXCEPT !.phase = f]
  BY <1>1 DEF SummaryRead, PageType
<1>5. UNCHANGED <<total, failing, drifted, stored, request>>
  BY DEF SummaryRead
<1> HIDE DEF u, f
<1>6. CASE page' = [page EXCEPT !.summary = u, !.phase = f]
  BY <1>1, <1>2, <1>3, <1>5, <1>6 DEF PageType
<1>7. CASE page' = [page EXCEPT !.phase = f]
  BY <1>1, <1>2, <1>5, <1>7 DEF PageType
<1> QED
  BY <1>4, <1>6, <1>7

\* What a step leaves of the types.
LEMMA TypesStep ==
    ASSUME Types, [Next]_vars
    PROVE  Types'
<1> USE DEF Types
<1>0. Free \in RequestType
  BY TotalsArithmetic DEF Free, RequestType
<1>1. CASE Success
  BY <1>1 DEF Success
<1>2. CASE FailureProcessed
  <2>1. drifted' \in BOOLEAN
    BY <1>2, Zenon DEF FailureProcessed
  <2>2. total' \in [processed : Nat, failed : Nat] /\ failing' \in Nat
    BY <1>2 DEF FailureProcessed
  <2>3. UNCHANGED <<stored, request, page>>
    BY <1>2 DEF FailureProcessed
  <2> QED
    BY <2>1, <2>2, <2>3
<1>3. CASE FailureFailed
  BY <1>3 DEF FailureFailed
<1>17. CASE Flush
  <2>1. request' \in [Requests -> RequestType]
    BY <1>17, FlushFields
  <2>2. (failing > 0) \in BOOLEAN
    OBVIOUS
  <2> QED
    BY <1>17, <2>1, <2>2 DEF Flush, Zero
<1>18. CASE SummaryRead
  BY <1>18, SummaryReadStep
<1>4. ASSUME NEW r \in Requests, StatsRead(r)
      PROVE  Types'
  BY <1>4, StatsReadFields DEF StatsRead
<1>5. ASSUME NEW r \in Requests, Deliver(r)
      PROVE  Types'
  <2>1. request[r].totals \in Totals
    BY DEF RequestType
  <2>2. page' \in PageType
    BY <1>5, <2>1, onStatsFields DEF Deliver
  <2> QED
    BY <1>0, <1>5, <2>2 DEF Deliver
<1>6. ASSUME NEW r \in Requests, Lose(r)
      PROVE  Types'
  BY <1>0, <1>6 DEF Lose
<1>7. CASE Parse
  BY <1>7 DEF Parse, PageType, Phases
<1>8. CASE Ready
  <2>1. Restored(renderGraphs(page, stored), stored) \in PageType
    BY ReadyFields
  <2>2. page' \in PageType
    BY <1>8, <2>1 DEF Ready, PageType, Phases
  <2> QED
    BY <1>8, <2>2 DEF Ready
<1>9. ASSUME NEW g \in Graphs, NEW r \in Requests, Poll(g, r)
      PROVE  Types'
  <2>1. g \in Nat
    BY DEF Graphs, PageType
  <2> QED
    BY <1>9, <2>1 DEF Poll, RequestType
<1>10. ASSUME NEW v \in Intervals, Drag(v)
       PROVE  Types'
  BY <1>10 DEF Drag, PageType
<1>11. ASSUME NEW v \in Intervals, OtherTab(v)
       PROVE  Types'
  BY <1>11 DEF OtherTab, PageType
<1>12. CASE MouseMove
  BY <1>12 DEF MouseMove, setSliderLabel, PageType
<1>13. CASE Change
  <2>1. /\ page.slider \in Intervals
        /\ setSliderLabel(page, page.slider) \in PageType
    BY DEF setSliderLabel, PageType
  <2>2. Redraw(setSliderLabel(page, page.slider), page.slider) \in PageType
    BY <2>1, RedrawFields
  <2>3. page' \in PageType
    BY <1>13, <2>2 DEF Change, PageType
  <2> QED
    BY <1>13, <2>1, <2>3 DEF Change
<1>14. CASE Resize
  BY <1>14 DEF Resize, debounce, PageType
<1>15. CASE ResizeDone
  <2> DEFINE q == [page EXCEPT !.resizing = @ - 1]
  <2>1. q \in PageType
    BY <1>15 DEF ResizeDone, PageType
  <2>2. clearInterval(q) \in PageType
    BY <2>1 DEF clearInterval, PageType
  <2>3. Redraw(q, stored) \in PageType
    BY <2>1, RedrawFields
  <2>4. [Redraw(q, stored) EXCEPT !.early = TRUE] \in PageType
    BY <2>3 DEF PageType
  <2> QED
    BY <1>15, <2>2, <2>3, <2>4 DEF ResizeDone
<1>16. CASE UNCHANGED vars
  BY <1>16 DEF vars
<1> QED
  BY <1>1, <1>2, <1>3, <1>4, <1>5, <1>6, <1>7, <1>8, <1>9, <1>10, <1>11, <1>12, <1>13, <1>14,
     <1>15, <1>16, <1>17, <1>18 DEF Next

-----------------------------------------------------------------------------
(* The steps that draw, as changes of the page's fields *)

\* The document is ready.
LEMMA ReadyStep ==
    ASSUME Types, Ready
    PROVE  LET n == page.graphs + 1 IN
           /\ page.phase = "body" /\ page'.phase = "ready"
           /\ page'.graphs = n /\ page'.poller = n
           /\ page'.timers = page.timers \cup {n} /\ page'.shown = page.shown \cup {n}
           /\ page'.early = page.early /\ page'.dragging = page.dragging
           /\ page'.interval = (IF stored = 0 THEN Default ELSE stored)
           /\ page'.slider = (IF stored = 0 THEN page.slider ELSE stored)
           /\ page'.label = (IF stored = 0 THEN page.label ELSE stored)
           /\ page'.known = page.known /\ page'.Faktory = page.Faktory
           /\ page'.counted = page.counted
<1> DEFINE q == Restored(renderGraphs(page, stored), stored)
<1>1. /\ q \in PageType
      /\ q = [page EXCEPT !.graphs = page.graphs + 1, !.poller = page.graphs + 1,
                          !.interval = IF stored = 0 THEN Default ELSE stored,
                          !.timers = page.timers \cup {page.graphs + 1},
                          !.shown = page.shown \cup {page.graphs + 1},
                          !.slider = IF stored = 0 THEN page.slider ELSE stored,
                          !.label = IF stored = 0 THEN page.label ELSE stored]
  BY ReadyFields DEF Types
<1>2. page.phase = "body" /\ page' = [q EXCEPT !.phase = "ready", !.settled = TRUE]
  BY DEF Ready
<1> HIDE DEF q
<1> QED
  BY <1>1, <1>2 DEF PageType, Types

\* The page after both handlers that draw anew.
LEMMA RedrawStep ==
    ASSUME NEW p \in PageType, NEW st \in Intervals \cup {0}
    PROVE  LET n == p.graphs + 1
               q == Redraw(p, st) IN
           /\ q.phase = p.phase
           /\ q.graphs = n /\ q.poller = n
           /\ q.timers = (p.timers \ {p.poller}) \cup {n} /\ q.shown = {n}
           /\ q.early = p.early /\ q.dragging = p.dragging /\ q.settled = p.settled
           /\ q.interval = (IF st = 0 THEN Default ELSE st)
           /\ q.slider = p.slider /\ q.label = p.label
           /\ q.known = p.known /\ q.Faktory = p.Faktory /\ q.counted = p.counted
<1> DEFINE n == p.graphs + 1
           q == Redraw(p, st)
<1>1. q = [p EXCEPT !.graphs = n, !.poller = n, !.interval = IF st = 0 THEN Default ELSE st,
                    !.timers = (p.timers \ {p.poller}) \cup {n}, !.shown = {n}]
  BY RedrawFields
<1> HIDE DEF q
<1>2. /\ q.phase = p.phase
      /\ q.graphs = n /\ q.poller = n
      /\ q.timers = (p.timers \ {p.poller}) \cup {n} /\ q.shown = {n}
      /\ q.early = p.early /\ q.dragging = p.dragging /\ q.settled = p.settled
      /\ q.interval = (IF st = 0 THEN Default ELSE st)
      /\ q.slider = p.slider /\ q.label = p.label
      /\ q.known = p.known /\ q.Faktory = p.Faktory /\ q.counted = p.counted
  BY <1>1 DEF PageType
<1> QED
  BY <1>2 DEF q

\* The slider is released.
LEMMA ChangeStep ==
    ASSUME Types, Change
    PROVE  LET n == page.graphs + 1 IN
           /\ page.dragging /\ page'.phase = page.phase /\ stored' = page.slider
           /\ page'.graphs = n /\ page'.poller = n
           /\ page'.timers = (page.timers \ {page.poller}) \cup {n} /\ page'.shown = {n}
           /\ page'.early = page.early
           /\ page'.interval = page.slider
           /\ page'.slider = page.slider /\ page'.label = page.slider
           /\ page'.known = page.known /\ page'.Faktory = page.Faktory
           /\ page'.counted = page.counted
<1> DEFINE p == setSliderLabel(page, page.slider)
           q == Redraw(p, page.slider)
<1>1. /\ page.slider \in Intervals \cup {0} /\ page.slider # 0
      /\ p \in PageType
      /\ p = [page EXCEPT !.label = page.slider]
  BY DashboardAssumption DEF setSliderLabel, PageType, Types
<1>2. q \in PageType
  BY <1>1, RedrawFields
<1>3. /\ page.dragging /\ stored' = page.slider
      /\ page' = [q EXCEPT !.dragging = FALSE, !.settled = TRUE]
  BY DEF Change
<1>4. /\ q.phase = p.phase
      /\ q.graphs = p.graphs + 1 /\ q.poller = p.graphs + 1
      /\ q.timers = (p.timers \ {p.poller}) \cup {p.graphs + 1} /\ q.shown = {p.graphs + 1}
      /\ q.early = p.early
      /\ q.interval = (IF page.slider = 0 THEN Default ELSE page.slider)
      /\ q.slider = p.slider /\ q.label = p.label
      /\ q.known = p.known /\ q.Faktory = p.Faktory /\ q.counted = p.counted
  <2> HIDE DEF p
  <2> QED
    BY <1>1, RedrawStep, ZenonT(60)
<1> HIDE DEF q
<1>5. page.phase = p.phase /\ page.graphs = p.graphs /\ page.timers = p.timers
      /\ page.poller = p.poller /\ page.early = p.early /\ p.label = page.slider
      /\ p.slider = page.slider /\ p.known = page.known /\ p.Faktory = page.Faktory
      /\ p.counted = page.counted
  BY <1>1 DEF PageType, Types
<1> HIDE DEF p
<1>6. /\ page'.phase = q.phase /\ page'.graphs = q.graphs /\ page'.poller = q.poller
      /\ page'.timers = q.timers /\ page'.shown = q.shown /\ page'.early = q.early
      /\ page'.interval = q.interval /\ page'.slider = q.slider /\ page'.label = q.label
      /\ page'.known = q.known /\ page'.Faktory = q.Faktory /\ page'.counted = q.counted
  BY <1>2, <1>3 DEF PageType
<1> QED
  BY <1>1, <1>3, <1>4, <1>5, <1>6

\* The window was resized.
LEMMA ResizeDoneStep ==
    ASSUME Types, ResizeDone
    PROVE  LET n == page.graphs + 1 IN
           /\ stored' = stored /\ page'.phase = page.phase
           /\ page'.dragging = page.dragging /\ page'.settled = page.settled
           /\ page'.slider = page.slider /\ page'.label = page.label
           /\ page'.known = page.known /\ page'.Faktory = page.Faktory
           /\ page'.counted = page.counted
           /\ page.phase = "script" =>
                /\ page'.graphs = page.graphs /\ page'.poller = page.poller
                /\ page'.timers = page.timers \ {page.poller} /\ page'.shown = page.shown
                /\ page'.early = page.early /\ page'.interval = page.interval
           /\ page.phase # "script" =>
                /\ page'.graphs = n /\ page'.poller = n
                /\ page'.timers = (page.timers \ {page.poller}) \cup {n} /\ page'.shown = {n}
                /\ page'.early = (page.early \/ page.phase = "body")
                /\ page'.interval = (IF stored = 0 THEN Default ELSE stored)
<1> DEFINE p == [page EXCEPT !.resizing = @ - 1]
           q == Redraw(p, stored)
<1>1. p \in PageType
  BY DEF ResizeDone, PageType, Types
<1>2. /\ q \in PageType
  BY <1>1, RedrawFields DEF Types
<1>3. /\ q.phase = p.phase
      /\ q.graphs = p.graphs + 1 /\ q.poller = p.graphs + 1
      /\ q.timers = (p.timers \ {p.poller}) \cup {p.graphs + 1} /\ q.shown = {p.graphs + 1}
      /\ q.early = p.early /\ q.dragging = p.dragging /\ q.settled = p.settled
      /\ q.interval = (IF stored = 0 THEN Default ELSE stored)
      /\ q.slider = p.slider /\ q.label = p.label
      /\ q.known = p.known /\ q.Faktory = p.Faktory /\ q.counted = p.counted
  BY <1>1, RedrawStep DEF Types
<1>4. /\ stored' = stored
      /\ \/ page.phase = "script" /\ page' = clearInterval(p)
         \/ page.phase = "body" /\ page' = [q EXCEPT !.early = TRUE]
         \/ page.phase = "ready" /\ page' = q
  BY DEF ResizeDone
<1> HIDE DEF q
<1>5. /\ page.phase = p.phase /\ page.graphs = p.graphs /\ page.timers = p.timers
      /\ page.poller = p.poller /\ page.shown = p.shown /\ page.early = p.early
      /\ page.interval = p.interval /\ page.dragging = p.dragging /\ page.settled = p.settled
      /\ page.slider = p.slider /\ page.label = p.label /\ page.known = p.known
      /\ page.Faktory = p.Faktory /\ page.counted = p.counted
  BY DEF PageType, Types
<1> HIDE DEF p
<1>6. CASE page.phase = "script"
  BY <1>1, <1>4, <1>5, <1>6 DEF clearInterval, PageType
<1>7. CASE page.phase = "body"
  BY <1>2, <1>3, <1>4, <1>5, <1>7 DEF PageType
<1>8. CASE page.phase = "ready"
  <2>1. page.early \in BOOLEAN
    BY DEF Types, PageType
  <2> QED
    BY <1>3, <1>4, <1>5, <1>8, <2>1
<1> QED
  BY <1>4, <1>6, <1>7, <1>8

\* An answer is delivered.
LEMMA DeliverStep ==
    ASSUME Types, NEW r \in Requests, Deliver(r)
    PROVE  /\ page'.phase = page.phase /\ page'.graphs = page.graphs
           /\ page'.poller = page.poller /\ page'.timers = page.timers
           /\ page'.shown = page.shown /\ page'.early = page.early
           /\ page'.dragging = page.dragging /\ page'.settled = page.settled
           /\ page'.interval = page.interval /\ page'.slider = page.slider
           /\ page'.label = page.label
           /\ page'.Faktory = request[r].totals
           /\ DrawnOnce => page'.counted = request[r].totals
<1>1. request[r].totals \in Totals /\ page \in PageType
  BY DEF Types, RequestType
<1>2. page' = onStats(page, request[r].graph, request[r].totals)
  BY DEF Deliver
<1> DEFINE t == request[r].totals
           g == request[r].graph
<1> HIDE DEF t, g
<1>3. PICK s \in Totals :
        /\ onStats(page, g, t) = [page EXCEPT !.counted = s, !.known = TRUE, !.Faktory = t,
                                              !.summary = t]
        /\ (page.known => page.Faktory = page.counted) => s = t
  BY <1>1, onStatsFields DEF t
<1> QED
  BY <1>1, <1>2, <1>3 DEF PageType, DrawnOnce, t, g

\* The steps of the server and those that only touch a request.
LEMMA ServerSteps ==
    ASSUME Types, \/ Success \/ FailureProcessed \/ FailureFailed \/ Flush
                  \/ \E r \in Requests : StatsRead(r) \/ Lose(r)
                  \/ \E g \in Graphs, r \in Requests : Poll(g, r)
                  \/ UNCHANGED vars
    PROVE  page' = page /\ stored' = stored
  BY DEF Success, FailureProcessed, FailureFailed, Flush, StatsRead, Lose, Poll, vars

-----------------------------------------------------------------------------
(* The invariant, part by part *)

\* Requests and timers keep belonging to graphs that were drawn.
LEMMA GraphsDrawnStep ==
    ASSUME Types, Types', GraphsDrawn, [Next]_vars
    PROVE  GraphsDrawn'
<1> USE DEF GraphsDrawn
<1>0. /\ page.graphs \in Nat /\ page.poller \in Nat
      /\ request \in [Requests -> RequestType] /\ request' \in [Requests -> RequestType]
      /\ \A r \in Requests : request[r].graph \in Nat
      /\ Free.graph = 0
  BY DEF Types, PageType, RequestType, Free
<1>1. CASE Success \/ FailureProcessed \/ FailureFailed \/ UNCHANGED vars
  BY <1>1 DEF Success, FailureProcessed, FailureFailed, vars
<1>2. ASSUME NEW r \in Requests, StatsRead(r)
      PROVE  GraphsDrawn'
  BY <1>2, StatsReadFields DEF StatsRead
<1>3. ASSUME NEW r \in Requests, Deliver(r)
      PROVE  GraphsDrawn'
  <2>1. \A q \in Requests : request'[q].graph \in {request[q].graph, 0}
    BY <1>0, <1>3 DEF Deliver
  <2> QED
    BY <1>0, <1>3, <2>1, DeliverStep
<1>4. ASSUME NEW r \in Requests, Lose(r)
      PROVE  GraphsDrawn'
  BY <1>0, <1>4 DEF Lose
<1>5. ASSUME NEW g \in Graphs, NEW r \in Requests, Poll(g, r)
      PROVE  GraphsDrawn'
  <2>1. \A q \in Requests : request'[q].graph \in {request[q].graph, g}
    BY <1>0, <1>5 DEF Poll, RequestType
  <2>2. g <= page.graphs
    BY <1>0 DEF Graphs
  <2> QED
    BY <1>0, <1>5, <2>1, <2>2 DEF Poll
<1>6. CASE Parse
  BY <1>6 DEF Parse, Types, PageType
<1>7. CASE Ready
  <2>1. request' = request
    BY <1>7 DEF Ready
  <2> QED
    BY <1>0, <1>7, <2>1, ReadyStep
<1>8. ASSUME NEW v \in Intervals, Drag(v)
      PROVE  GraphsDrawn'
  BY <1>8 DEF Drag, Types, PageType
<1>9. ASSUME NEW v \in Intervals, OtherTab(v)
      PROVE  GraphsDrawn'
  BY <1>9 DEF OtherTab, Types, PageType
<1>10. CASE MouseMove
  BY <1>10 DEF MouseMove, setSliderLabel, Types, PageType
<1>11. CASE Change
  <2>1. request' = request
    BY <1>11 DEF Change
  <2> QED
    BY <1>0, <1>11, <2>1, ChangeStep
<1>12. CASE Resize
  BY <1>12 DEF Resize, Types, PageType
<1>13. CASE ResizeDone
  <2>1. request' = request
    BY <1>13 DEF ResizeDone
  <2>2. CASE page.phase = "script"
    BY <1>0, <1>13, <2>1, <2>2, ResizeDoneStep
  <2>3. CASE page.phase # "script"
    BY <1>0, <1>13, <2>1, <2>3, ResizeDoneStep
  <2> QED
    BY <2>2, <2>3
<1>14. CASE Flush
  <2>1. page' = page
    BY <1>14 DEF Flush
  <2> QED
    BY <1>14, <2>1, FlushFields
<1>15. CASE SummaryRead
  BY <1>15, SummaryReadStep
<1> QED
  BY <1>1, <1>2, <1>3, <1>4, <1>5, <1>6, <1>7, <1>8, <1>9, <1>10, <1>11, <1>12, <1>13, <1>14,
     <1>15 DEF Next

\* One poller, and at most one that was forgotten.
LEMMA PollersStep ==
    ASSUME Types, Types', GraphsDrawn, Labels, Pollers, [Next]_vars
    PROVE  Pollers'
<1> USE DEF Pollers
<1>0. page.graphs \in Nat /\ page.phase \in Phases /\ page.early \in BOOLEAN
  BY DEF Types, PageType
<1>1. CASE \/ Success \/ FailureProcessed \/ FailureFailed \/ Flush
           \/ \E r \in Requests : StatsRead(r) \/ Lose(r)
           \/ \E g \in Graphs, r \in Requests : Poll(g, r)
           \/ UNCHANGED vars
  BY <1>1, ServerSteps
<1>2. ASSUME NEW r \in Requests, Deliver(r)
      PROVE  Pollers'
  BY <1>2, DeliverStep
<1>3. CASE Parse
  BY <1>3 DEF Parse, Types, PageType
<1>4. CASE Ready
  <2> DEFINE n == page.graphs + 1
  <2>1. /\ page'.poller = n /\ page'.timers = page.timers \cup {n}
        /\ page'.shown = page.shown \cup {n} /\ page'.phase = "ready"
        /\ page'.early = page.early /\ page.phase = "body" /\ page'.graphs = n
    BY <1>4, ReadyStep
  <2>2. CASE page.early
    <3>1. page.timers = {page.poller} /\ page.poller \in 1..page.graphs
      BY <2>1, <2>2 DEF GraphsDrawn
    <3>2. page.poller \in 1..page'.graphs /\ page'.timers \subseteq {page.poller, page'.poller}
      BY <1>0, <2>1, <3>1
    <3> QED
      BY <2>1, <2>2, <3>2
  <2>3. CASE ~page.early
    BY <1>0, <2>1, <2>3
  <2> QED
    BY <2>2, <2>3
<1>5. ASSUME NEW v \in Intervals, Drag(v)
      PROVE  Pollers'
  BY <1>5 DEF Drag, Types, PageType
<1>6. ASSUME NEW v \in Intervals, OtherTab(v)
      PROVE  Pollers'
  BY <1>6 DEF OtherTab, Types, PageType
<1>7. CASE MouseMove
  BY <1>7 DEF MouseMove, setSliderLabel, Types, PageType
<1>8. CASE (Change \/ ResizeDone) /\ page.phase = "ready"
  <2> DEFINE n == page.graphs + 1
  <2>1. /\ page'.poller = n /\ page'.timers = (page.timers \ {page.poller}) \cup {n}
        /\ page'.shown = {n} /\ page'.phase = "ready"
        /\ page'.early = page.early /\ page'.graphs = n
    <3>1. CASE Change
      BY <1>8, <3>1, ChangeStep
    <3>2. CASE ResizeDone
      BY <1>0, <1>8, <3>2, ResizeDoneStep
    <3> QED
      BY <1>8, <3>1, <3>2
  <2>2. PICK x \in 1..page.graphs : page.timers \subseteq {x, page.poller}
    BY <1>8
  <2>3. x \in 1..page'.graphs /\ page'.timers \subseteq {x, page'.poller}
    BY <1>0, <2>1, <2>2
  <2>4. ~page.early => page'.timers = {n}
    BY <1>8, <2>1
  <2> QED
    BY <2>1, <2>3, <2>4
<1>9. CASE Resize
  BY <1>9 DEF Resize, Types, PageType
<1>10. CASE ResizeDone /\ page.phase = "body"
  <2>1. page.timers \ {page.poller} = {}
    BY <1>0, <1>10
  <2> QED
    BY <1>0, <1>10, <2>1, ResizeDoneStep
<1>11. CASE ResizeDone /\ page.phase = "script"
  BY <1>11, ResizeDoneStep
<1>12. ResizeDone => page.phase \in {"script", "body", "ready"}
  BY DEF ResizeDone
<1>13. Change => page.phase = "ready"
  BY DEF Change, Labels, Types, PageType
<1>14. CASE SummaryRead
  BY <1>14, SummaryReadStep
<1> QED
  BY <1>1, <1>2, <1>3, <1>4, <1>5, <1>6, <1>7, <1>8, <1>9, <1>10, <1>11, <1>12, <1>13, <1>14
     DEF Next

\* The interval that is shown.
LEMMA LabelsStep ==
    ASSUME Types, Types', Labels, [Next]_vars
    PROVE  Labels'
<1> USE DEF Labels, LabelHonest
<1>0. /\ page.settled \in BOOLEAN /\ page.dragging \in BOOLEAN /\ page.slider \in Intervals
      /\ Default # 0 /\ 0 \notin Intervals
  BY DashboardAssumption DEF Types, PageType
<1>1. CASE \/ Success \/ FailureProcessed \/ FailureFailed \/ Flush
           \/ \E r \in Requests : StatsRead(r) \/ Lose(r)
           \/ \E g \in Graphs, r \in Requests : Poll(g, r)
           \/ UNCHANGED vars
  BY <1>1, ServerSteps
<1>2. ASSUME NEW r \in Requests, Deliver(r)
      PROVE  Labels'
  <2>1. stored' = stored
    BY <1>2 DEF Deliver
  <2> QED
    BY <1>2, <2>1, DeliverStep
<1>3. CASE Parse
  BY <1>3 DEF Parse, Types, PageType
<1>4. CASE Ready
  <2>1. stored' = stored
    BY <1>4 DEF Ready
  <2> QED
    BY <1>4, <2>1, ReadyStep
<1>5. ASSUME NEW v \in Intervals, Drag(v)
      PROVE  Labels'
  BY <1>5 DEF Drag, Types, PageType
<1>6. ASSUME NEW v \in Intervals, OtherTab(v)
      PROVE  Labels'
  BY <1>6 DEF OtherTab, Types, PageType
<1>7. CASE MouseMove
  BY <1>7 DEF MouseMove, setSliderLabel, Types, PageType
<1>8. CASE Change
  BY <1>0, <1>8, ChangeStep
<1>9. CASE Resize
  BY <1>9 DEF Resize, Types, PageType
<1>10. CASE ResizeDone
  BY <1>10, ResizeDoneStep
<1>11. CASE SummaryRead
  BY <1>11, SummaryReadStep
<1> QED
  BY <1>1, <1>2, <1>3, <1>4, <1>5, <1>6, <1>7, <1>8, <1>9, <1>10, <1>11 DEF Next

\* The points that were drawn.
LEMMA DrawnOnceStep ==
    ASSUME Types, DrawnOnce, [Next]_vars
    PROVE  DrawnOnce'
<1> USE DEF DrawnOnce
<1>1. CASE \/ Success \/ FailureProcessed \/ FailureFailed \/ Flush
           \/ \E r \in Requests : StatsRead(r) \/ Lose(r)
           \/ \E g \in Graphs, r \in Requests : Poll(g, r)
           \/ UNCHANGED vars
  BY <1>1, ServerSteps
<1>2. ASSUME NEW r \in Requests, Deliver(r)
      PROVE  DrawnOnce'
  BY <1>2, DeliverStep
<1>3. CASE Parse
  BY <1>3 DEF Parse, Types, PageType
<1>4. CASE Ready
  BY <1>4, ReadyStep
<1>5. ASSUME NEW v \in Intervals, Drag(v)
      PROVE  DrawnOnce'
  BY <1>5 DEF Drag, Types, PageType
<1>6. ASSUME NEW v \in Intervals, OtherTab(v)
      PROVE  DrawnOnce'
  BY <1>6 DEF OtherTab, Types, PageType
<1>7. CASE MouseMove
  BY <1>7 DEF MouseMove, setSliderLabel, Types, PageType
<1>8. CASE Change
  BY <1>8, ChangeStep
<1>9. CASE Resize
  BY <1>9 DEF Resize, Types, PageType
<1>10. CASE ResizeDone
  BY <1>10, ResizeDoneStep
<1>11. CASE SummaryRead
  BY <1>11, SummaryReadStep
<1> QED
  BY <1>1, <1>2, <1>3, <1>4, <1>5, <1>6, <1>7, <1>8, <1>9, <1>10, <1>11 DEF Next

\* The counters, in Redis and in the answers.
LEMMA CountsStep ==
    ASSUME Types, Types', Counts, [Next]_vars
    PROVE  Counts'
<1> USE DEF Counts
<1>0. /\ total \in [processed : Nat, failed : Nat]
      /\ failing \in Nat /\ drifted \in BOOLEAN
      /\ request \in [Requests -> RequestType]
      /\ \A r \in Requests : /\ request[r].totals.failed \in Int
                             /\ request[r].totals.processed \in Int
                             /\ request[r].read \in 0..2
      /\ Free.read = 0
  BY DEF Types, RequestType, Totals, Free
<1>1. CASE Success
  BY <1>0, <1>1 DEF Success
<1>2. CASE FailureProcessed
  BY <1>0, <1>2 DEF FailureProcessed
<1>3. CASE FailureFailed
  BY <1>0, <1>3 DEF FailureFailed
<1>4. ASSUME NEW r \in Requests, StatsRead(r)
      PROVE  Counts'
  <2>1. UNCHANGED <<total, failing, drifted>>
    BY <1>4 DEF StatsRead
  <2>2. /\ \A q \in Requests \ {r} : request'[q] = request[q]
        /\ request[r].read \in {0, 1}
        /\ request'[r].read = request[r].read + 1
        /\ ~request'[r].torn =>
             /\ ~request[r].torn
             /\ request[r].read = 0 => ~drifted /\ request'[r].totals.failed = total.failed
             /\ request[r].read = 1 =>
                  /\ request'[r].totals.failed = request[r].totals.failed
                  /\ request'[r].totals.processed = total.processed
    BY <1>4, StatsReadFields
  <2>3. ASSUME ~request'[r].torn
        PROVE  /\ request'[r].read = 1 => request'[r].totals.failed <= total.processed
               /\ request'[r].read = 2 => request'[r].totals.failed <= request'[r].totals.processed
    <3>1. CASE request[r].read = 0
      BY <1>0, <2>2, <2>3, <3>1
    <3>2. CASE request[r].read = 1
      BY <1>0, <2>2, <2>3, <3>2
    <3> QED
      BY <2>2, <3>1, <3>2
  <2> QED
    BY <2>1, <2>2, <2>3
<1>5. ASSUME NEW r \in Requests, Deliver(r) \/ Lose(r)
      PROVE  Counts'
  <2>1. /\ UNCHANGED <<total, failing, drifted>>
        /\ \A q \in Requests : request'[q] = request[q] \/ request'[q].read = 0
    BY <1>0, <1>5 DEF Deliver, Lose
  <2> QED
    BY <2>1
<1>7. ASSUME NEW g \in Graphs, NEW r \in Requests, Poll(g, r)
      PROVE  Counts'
  <2>1. /\ UNCHANGED <<total, failing, drifted>>
        /\ \A q \in Requests : /\ request'[q].read = request[q].read
                               /\ request'[q].totals = request[q].totals
                               /\ request'[q].torn = request[q].torn
    BY <1>0, <1>7 DEF Poll, RequestType
  <2> QED
    BY <2>1
<1>8. ASSUME UNCHANGED <<total, failing, drifted, request>>
      PROVE  Counts'
  BY <1>8
<1>9. CASE \/ Parse \/ Ready \/ MouseMove \/ Change \/ Resize \/ ResizeDone \/ UNCHANGED vars
           \/ \E v \in Intervals : Drag(v) \/ OtherTab(v)
  <2>1. UNCHANGED <<total, failing, drifted, request>>
    BY <1>9 DEF Parse, Ready, MouseMove, Change, Resize, ResizeDone, vars, Drag, OtherTab
  <2> QED
    BY <1>8, <2>1
<1>10. CASE SummaryRead
  BY <1>8, <1>10, SummaryReadStep
<1>11. CASE Flush
  <2>1. total' = Zero /\ failing' = failing /\ drifted' = (failing > 0)
    BY <1>11 DEF Flush
  <2>2. total'.failed = 0 /\ total'.processed = 0
    BY <2>1 DEF Zero
  <2>3. ~drifted' => failing = 0
    <3>1. ~drifted' => ~(failing > 0)
      BY <2>1, Zenon
    <3> QED
      BY <1>0, <3>1
  <2>4. ~drifted' => total'.failed + failing' <= total'.processed
    BY <2>1, <2>2, <2>3
  <2>5. \A r \in Requests :
          /\ request'[r].read = request[r].read
          /\ request'[r].totals = request[r].totals
          /\ ~request'[r].torn => ~request[r].torn /\ request[r].read # 1
    BY <1>11, FlushFields
  <2> QED
    BY <2>4, <2>5
<1> QED
  BY <1>1, <1>2, <1>3, <1>4, <1>5, <1>7, <1>9, <1>10, <1>11 DEF Next

-----------------------------------------------------------------------------
(* The theorems *)

\* The page as it is loaded satisfies the invariant.
LEMMA DashInit == Init => DashInv
<1> SUFFICES ASSUME Init PROVE DashInv
  OBVIOUS
<1>1. Types
  BY TypesInit
<1>2. /\ page.phase = "processed" /\ ~page.known /\ page.poller = 0 /\ page.graphs = 0
      /\ page.timers = {} /\ page.shown = {} /\ ~page.early /\ ~page.settled
      /\ ~page.dragging /\ page.slider = Default /\ page.label = Default
  BY DEF Init, NewPage
<1>3. /\ \A r \in Requests : request[r].graph = 0 /\ request[r].read = 0
      /\ total = Zero /\ failing = 0 /\ Zero.failed = 0 /\ Zero.processed = 0
  BY DEF Init, Free, Zero
<1> QED
  BY <1>1, <1>2, <1>3 DEF DashInv, GraphsDrawn, Pollers, Labels, LabelHonest, Counts,
                         DrawnOnce

\* Every step keeps it.
LEMMA DashStep == DashInv /\ [Next]_vars => DashInv'
<1> SUFFICES ASSUME DashInv, [Next]_vars PROVE DashInv'
  OBVIOUS
<1> USE DEF DashInv
<1>1. Types'
  BY TypesStep
<1>2. GraphsDrawn'
  BY <1>1, GraphsDrawnStep
<1>3. Pollers'
  BY <1>1, PollersStep
<1>4. Labels'
  BY <1>1, LabelsStep
<1>5. Counts'
  BY <1>1, CountsStep
<1>6. DrawnOnce'
  BY DrawnOnceStep
<1> QED
  BY <1>1, <1>2, <1>3, <1>4, <1>5, <1>6

\* The invariant holds throughout.
LEMMA DashInvariant == Spec => []DashInv
<1>1. Init => DashInv
  BY DashInit
<1>2. DashInv /\ [Next]_vars => DashInv'
  BY DashStep
<1> QED
  BY <1>1, <1>2, PTL DEF Spec

\* The invariant says how many pollers there are.
LEMMA PollersCounted ==
    ASSUME DashInv, page.phase = "ready"
    PROVE  Cardinality(page.timers) <= IF page.early THEN 2 ELSE 1
<1>1. /\ IsFiniteSet({page.poller}) /\ Cardinality({page.poller}) = 1
  BY FS_Singleton
<1>2. CASE ~page.early
  BY <1>1, <1>2 DEF DashInv, Pollers
<1>3. CASE page.early
  <2>1. PICK x \in 1..page.graphs : page.timers \subseteq {x, page.poller}
    BY DEF DashInv, Pollers
  <2> DEFINE S == {page.poller} \cup {x}
  <2>2. /\ IsFiniteSet(S)
        /\ Cardinality(S) = 1 \/ Cardinality(S) = 2
    BY <1>1, FS_AddElement
  <2>3. page.timers \subseteq S
    BY <2>1
  <2>4. /\ IsFiniteSet(page.timers) /\ Cardinality(page.timers) <= Cardinality(S)
    BY <2>2, <2>3, FS_Subset
  <2>5. Cardinality(page.timers) \in Nat
    BY <2>4, FS_CardinalityType
  <2> QED
    BY <1>3, <2>2, <2>4, <2>5
<1> QED
  BY <1>2, <1>3

\* The types that the model states.
LEMMA TypesStated == DashInv => TypeOK
<1> SUFFICES ASSUME DashInv PROVE TypeOK
  OBVIOUS
<1>1. page \in PageType /\ page.graphs \in Nat /\ page.poller \in Nat
  BY DEF DashInv, Types, PageType
<1>2. /\ page.phase \in Phases /\ page.resizing \in 0..1
      /\ page.slider \in Intervals /\ page.label \in Intervals
      /\ page.Faktory \in Totals /\ page.summary \in Totals /\ page.counted \in Totals
      /\ page.interval \in Intervals \cup {0}
  BY <1>1 DEF PageType
<1>3. /\ page.poller \in 0..page.graphs
      /\ page.timers \cup page.shown \subseteq Graphs
  BY <1>1 DEF DashInv, GraphsDrawn, Graphs
<1>4. ASSUME NEW r \in Requests
      PROVE  /\ request[r].graph \in 0..page.graphs
             /\ request[r].read \in 0..2
             /\ request[r].totals \in Totals
             /\ request[r].torn \in BOOLEAN
  BY <1>1 DEF DashInv, Types, RequestType, GraphsDrawn
<1> QED
  BY <1>2, <1>3, <1>4 DEF TypeOK, DashInv, Types, Phases

(***************************************************************************)
(* The points of all graphs add up to what the totals grew by since the    *)
(* first answer (Point and onStats), whatever redraws, lost and late       *)
(* answers there were.                                                     *)
(***************************************************************************)
THEOREM NoJobDrawnTwice == Spec => []DrawnOnce
<1>1. DashInv => DrawnOnce
  BY DEF DashInv
<1> QED
  BY <1>1, DashInvariant, PTL

(***************************************************************************)
(* Once the page is ready the poller of its graph runs, and no other does  *)
(* but the one a resize before that left behind: clearInterval in the      *)
(* handlers that draw anew always has the right poller.                    *)
(***************************************************************************)
THEOREM OnePollerRuns == Spec => []OnePoller
<1>1. DashInv => OnePoller
  <2> SUFFICES ASSUME DashInv PROVE OnePoller
    OBVIOUS
  <2>1. TypeOK
    BY TypesStated
  <2>2. ASSUME page.phase = "ready"
        PROVE  /\ page.poller \in page.timers \cap page.shown
               /\ ~page.early => page.shown = {page.poller}
    BY <2>2 DEF DashInv, Pollers
  <2> QED
    BY <2>1, <2>2, PollersCounted DEF OnePoller
<1> QED
  BY <1>1, DashInvariant, PTL

(***************************************************************************)
(* The interval that the slider's label shows is the stored one and the    *)
(* one the page polls at, unless the slider is held or another tab has     *)
(* stored one (the ready, mousemove, change and resize handlers).          *)
(***************************************************************************)
THEOREM LabelIsHonest == Spec => []LabelHonest
<1>1. DashInv => LabelHonest
  BY DEF DashInv, Labels
<1> QED
  BY <1>1, DashInvariant, PTL

(***************************************************************************)
(* An answer of /stats never has more failures than jobs because of how    *)
(* the jobs and the requests interleave, however many there are at a time: *)
(* the order of the two INCRs in Failure and of the two reads in           *)
(* CurrentState is right.  Errors of Redis and FLUSH are in the            *)
(* specification and are the only exceptions.                              *)
(***************************************************************************)
THEOREM FailuresAmongProcessed == Spec => []FailedWithinProcessed
<1>1. DashInv => FailedWithinProcessed
  BY DEF DashInv, Counts, FailedWithinProcessed
<1> QED
  BY <1>1, DashInvariant, PTL
=============================================================================
