-------------------------------- MODULE Charts --------------------------------
(***************************************************************************)
(* What the dashboard draws (webui/static/dashboard.js): the realtime      *)
(* graph, a window on the points its poller has added, the history graph   *)
(* of the last days, and the legends that follow the pointer.  Which       *)
(* answers there are, in which order they come and which graph they are    *)
(* for is in Dashboard: here a point may be added to any graph at any      *)
(* moment, also to one that was replaced.                                  *)
(*                                                                         *)
(* Colours, sizes, axes, the formatting of figures and the beacon that     *)
(* pulses with every answer are left out.                                  *)
(***************************************************************************)
EXTENDS Integers, Sequences, FiniteSets

CONSTANTS
    Points,      \* the points an answer may add
    MaxPoints,   \* maxDataPoints of the realtime graph (100)
    Days,        \* days of the history graph (30)
    Hours,       \* hours of a day, and of a step of History (24)
    MaxAnswers,  \* bound on the points added
    MaxGraphs    \* bound on the realtime graphs drawn one after the other

ASSUME ChartsAssumption ==
    /\ Points \subseteq [processed : Int, failed : Int]
    /\ MaxPoints \in Nat /\ MaxPoints > 2
    /\ Days \in Nat \ {0} /\ Hours \in Nat \ {0}
    /\ MaxAnswers \in Nat /\ MaxGraphs \in Nat

VARIABLES
    graphs,         \* the realtime graphs since the page was loaded; the last is shown
    legend,         \* #realtime-legend, and the graph it was drawn for (0 = none)
    attrs,          \* the dates in data-processed and data-failed of #history
    history,        \* the dates of each series of the history graph
    historyLegend,  \* #history-legend: the dates of its timestamp and of a line per series
    rendered,       \* history: when the attributes were rendered, in which calendar
    added,          \* history: the points each graph was given
    answers         \* points added so far

vars == <<graphs, legend, attrs, history, historyLegend, rendered, added, answers>>

Zero == [processed |-> 0, failed |-> 0]

-----------------------------------------------------------------------------
(* The realtime graph *)

\* Rickshaw.Series.FixedDuration begins two points short of maxDataPoints, all
\* of them zero ...
FixedDuration == [k \in 1..(MaxPoints - 2) |-> Zero]

\* Fault: a point is dropped as soon as one is added.
addDataEarly(pts, pt) == Append(Tail(pts), pt)

\* ... and addData drops the oldest point of a series that is full.
addData(pts, pt) == Append(IF Len(pts) < MaxPoints THEN pts ELSE Tail(pts), pt)

\* The graph of realtimeGraph, and its Hover: the point under the pointer, 0
\* while there is none.
NewGraph == [points |-> FixedDuration, hover |-> 0]

\* Hover's render, for graph g of gs: the legend is emptied, then gets a line
\* for each series in the order of the series.
HoverRender(gs, g) ==
    LET pt == gs[g].points[gs[g].hover] IN
    [graph |-> g, lines |-> << <<"failed", pt.failed>>, <<"processed", pt.processed>> >>]

\* Fault: graph.render() is left out.
drawnUnseen(gs, g) == legend

\* graph.render() updates the Hover detail of a graph the pointer is on.
drawn(gs, g) == IF gs[g].hover = 0 THEN legend ELSE HoverRender(gs, g)

-----------------------------------------------------------------------------
(* The history graph *)

\* The local calendar: hours are counted from the first of day 0, which is odd
\* hours longer than the others where the clocks are put back (1), shorter where
\* they are put forward (-1).
DayStart(odd, d) == d * Hours + (IF d > 0 THEN odd ELSE 0)
Date(odd, h) ==
    CHOOSE d \in (h \div Hours - 1)..(h \div Hours + 1) : DayStart(odd, d) <= h /\ h < DayStart(odd, d + 1)

\* The days History calls fn with at hour h, from today in steps of 24 hours
\* back, as keys of a map.
History(odd, h) == {Date(odd, h - k * Hours) : k \in 0..(Days - 1)}

\* Fault: the points are left in the order of the unshifts.
createSeriesUnsorted(obj) ==
    [k \in 1..Cardinality(obj) |-> CHOOSE d \in obj : Cardinality({e \in obj : e > d}) = k - 1]

\* createSeries: a point for each date, sorted by date.
createSeries(obj) ==
    [k \in 1..Cardinality(obj) |-> CHOOSE d \in obj : Cardinality({e \in obj : e < d}) = k - 1]

\* graph.render() throws when the series it is to stack are not equally long.
Blank == [processed |-> << >>, failed |-> << >>]
historyGraph ==
    LET series == [processed |-> createSeries(attrs.processed), failed |-> createSeries(attrs.failed)] IN
    IF Len(series.processed) = Len(series.failed) THEN series ELSE Blank

\* The point of a series HoverDetail finds for a pointer at x half days: the
\* nearest one; at the right end of the series, for half a day, the one before
\* the last.
HoverIndex(s, x) ==
    LET n == Len(s)
        at(k) == 2 * s[k]
        left == CHOOSE k \in 1..n : at(k) <= x /\ \A l \in 1..n : at(l) <= x => l <= k
    IN
    IF n = 1 \/ x < at(1) THEN 1
    ELSE IF x >= at(n) THEN IF (n - 1) * (x - at(n)) < s[n] - s[1] THEN n - 1 ELSE n
    ELSE IF x - at(left) < at(left + 1) - x THEN left ELSE left + 1

\* Its Hover: a line per series, of its own point, and the timestamp of one of
\* them, the nearest to the pointer.
historyHover(x, s) ==
    LET date(t) == history[t][HoverIndex(history[t], x)] IN
    [at |-> x, time |-> date(s), failed |-> date("failed"), processed |-> date("processed")]
NoHover == [at |-> 0, time |-> 0, failed |-> 0, processed |-> 0]

-----------------------------------------------------------------------------
\* The attributes are rendered with a call of History each, processedHistory's
\* first, and an hour may end between them.
Init ==
    /\ graphs = << >>
    /\ legend = [graph |-> 0, lines |-> << >>]
    /\ \E odd \in {-1, 0, 1}, h \in 0..((Days + 1) * Hours), later \in {0, 1} :
         /\ rendered = [odd |-> odd, processed |-> h, failed |-> h + later]
         /\ attrs = [processed |-> History(odd, h), failed |-> History(odd, h + later)]
    /\ history = Blank
    /\ historyLegend = NoHover
    /\ added = << >>
    /\ answers = 0

\* renderGraphs, at first or after resetGraphs.  The legends are elements of
\* their own and stay as they are.
renderGraphs ==
    /\ Len(graphs) < MaxGraphs
    /\ graphs' = Append(graphs, NewGraph)
    /\ history' = historyGraph
    /\ added' = Append(added, << >>)
    /\ UNCHANGED <<legend, attrs, historyLegend, rendered, answers>>

\* The end of getJSON's callback, for a poll of graph g.
Answer(g, pt) ==
    LET gs == [graphs EXCEPT ![g].points = addData(graphs[g].points, pt)] IN
    /\ answers < MaxAnswers
    /\ answers' = answers + 1
    /\ graphs' = gs
    /\ legend' = drawn(gs, g)
    /\ added' = [added EXCEPT ![g] = Append(added[g], pt)]
    /\ UNCHANGED <<attrs, history, historyLegend, rendered>>

\* The pointer moves over the graph that is shown, and leaves a graph: one
\* that was replaced under the pointer late or never.
Hover(k) ==
    LET g == Len(graphs)
        gs == [graphs EXCEPT ![g].hover = k]
    IN
    /\ g > 0
    /\ k <= Len(graphs[g].points)
    /\ graphs' = gs
    /\ legend' = HoverRender(gs, g)
    /\ UNCHANGED <<attrs, history, historyLegend, rendered, added, answers>>

MouseOut(g) ==
    /\ graphs[g].hover # 0
    /\ graphs' = [graphs EXCEPT ![g].hover = 0]
    /\ UNCHANGED <<legend, attrs, history, historyLegend, rendered, added, answers>>

\* The pointer moves over the history graph, which reaches from the first date
\* of a series to the last.
HoverHistory(x, s) ==
    /\ history # Blank
    /\ \E t \in DOMAIN history : 2 * history[t][1] <= x
    /\ \E t \in DOMAIN history : x <= 2 * history[t][Len(history[t])]
    /\ historyLegend' = historyHover(x, s)
    /\ UNCHANGED <<graphs, legend, attrs, history, rendered, added, answers>>

Next ==
    \/ renderGraphs
    \/ \E g \in 1..Len(graphs), pt \in Points : Answer(g, pt)
    \/ \E k \in 1..MaxPoints : Hover(k)
    \/ \E g \in 1..Len(graphs) : MouseOut(g)
    \/ \E x \in (-2 * Days)..(2 * (Days + 1)), s \in {"processed", "failed"} : HoverHistory(x, s)

Spec == Init /\ [][Next]_vars

-----------------------------------------------------------------------------
(* Properties *)

Point == Points \cup {Zero}
Line == {"failed", "processed"} \X Int

TypeOK ==
    /\ graphs \in Seq([points : Seq(Point), hover : Nat])
    /\ \A g \in 1..Len(graphs) : graphs[g].hover <= Len(graphs[g].points)
    /\ legend \in [graph : 0..Len(graphs), lines : Seq(Line)]
    /\ added \in Seq(Seq(Points))
    /\ Len(added) = Len(graphs)
    /\ answers \in Nat

(***************************************************************************)
(* The realtime graph is a window on the latest points, with zeros before  *)
(* the first: never longer than maxDataPoints, and no point leaves it      *)
(* before that many have come after it.  (With the types of the state.)    *)
(***************************************************************************)
WindowIsLatest ==
    /\ TypeOK
    /\ \A g \in 1..Len(graphs) :
         LET all == FixedDuration \o added[g]
             pts == graphs[g].points
         IN
         /\ Len(pts) = IF Len(all) < MaxPoints THEN Len(all) ELSE MaxPoints
         /\ \A k \in 1..Len(pts) : pts[k] = all[Len(all) - Len(pts) + k]

(***************************************************************************)
(* The legend does not lag behind the graph it was last drawn from while   *)
(* the pointer is on it: the points move under the pointer, and a late     *)
(* answer may be for a graph that was replaced.                            *)
(***************************************************************************)
LegendCurrent ==
    legend.graph # 0 /\ graphs[legend.graph].hover # 0 => legend = HoverRender(graphs, legend.graph)

(***************************************************************************)
(* What the history graph shows, although History steps back 24 hours of   *)
(* local time and is called twice:                                         *)
(*  - it is drawn, unless one call found the long day twice and the other, *)
(*    an hour later, once, so that the series cannot be stacked;           *)
(*  - each series ends with the day of its call, has a point for each of   *)
(*    the days but one that is found twice, and leaves out no day between  *)
(*    its ends but a short one;                                            *)
(*  - the lines of the legend are of one date, unless the calls fell on    *)
(*    two dates and the pointer is where only one series reaches, or one   *)
(*    of the series left out the short day.                                *)
(***************************************************************************)
Gaps(s) == (s[1]..s[Len(s)]) \ {s[k] : k \in 1..Len(s)}
HistoryHonest ==
    /\ graphs # << >> /\ history = Blank => rendered.odd = 1 /\ rendered.processed # rendered.failed
    /\ history # Blank =>
         \A t \in DOMAIN history :
            LET s == history[t] IN
            /\ s[Len(s)] = Date(rendered.odd, rendered[t])
            /\ Len(s) # Days => Len(s) = Days - 1 /\ rendered.odd = 1 /\ 0 \in attrs[t]
            /\ Gaps(s) \subseteq (IF rendered.odd = -1 THEN {0} ELSE {})
    /\ historyLegend.failed # historyLegend.processed =>
         /\ attrs.processed # attrs.failed
         /\ \E t \in DOMAIN history :
              LET s == history[t] IN
              historyLegend.at < 2 * s[1] \/ historyLegend.at >= 2 * s[Len(s)] \/ Gaps(s) # {}

=============================================================================
