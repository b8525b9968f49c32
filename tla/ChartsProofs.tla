---------------------------- MODULE ChartsProofs ----------------------------
(***************************************************************************)
(* Proofs about the realtime graph of Charts, for every size of the window *)
(* and set of points, and any number of answers and graphs.  The history   *)
(* graph is left to TLC.                                                   *)
(***************************************************************************)
EXTENDS Charts, TLAPS

-----------------------------------------------------------------------------
(* The window of the realtime graph *)

\* The points of a graph are the last ones of the zeros and what was added.
Window(pts, new) ==
    LET all == FixedDuration \o new IN
    /\ Len(pts) = IF Len(all) < MaxPoints THEN Len(all) ELSE MaxPoints
    /\ \A k \in 1..Len(pts) : pts[k] = all[Len(all) - Len(pts) + k]

\* The zeros a graph begins with, two short of a full window.
LEMMA FixedDurationType ==
    /\ FixedDuration \in Seq(Point)
    /\ Len(FixedDuration) = MaxPoints - 2
    /\ Window(FixedDuration, << >>)
<1>1. MaxPoints - 2 \in Nat /\ MaxPoints - 2 < MaxPoints /\ MaxPoints \in Nat
  BY ChartsAssumption
<1>2. /\ FixedDuration \in [1..(MaxPoints - 2) -> Point]
      /\ FixedDuration \in Seq(Point)
      /\ Len(FixedDuration) = MaxPoints - 2
  BY <1>1 DEF FixedDuration, Point
<1>3. FixedDuration \o << >> = FixedDuration
  BY <1>2
<1> QED
  BY <1>1, <1>2, <1>3 DEF Window

\* addData keeps points, and moves the window on by the point it adds: when the
\* series is full the oldest point leaves it, and only then.
LEMMA addDataMovesWindow ==
    ASSUME NEW pts \in Seq(Point), NEW new \in Seq(Points), NEW pt \in Points,
           Window(pts, new)
    PROVE  /\ addData(pts, pt) \in Seq(Point)
           /\ Len(addData(pts, pt)) >= Len(pts)
           /\ Window(addData(pts, pt), Append(new, pt))
<1> DEFINE all == FixedDuration \o new
           all2 == FixedDuration \o Append(new, pt)
           p2 == addData(pts, pt)
<1>1. /\ MaxPoints \in Nat /\ MaxPoints > 2
      /\ Points \subseteq Point
  BY ChartsAssumption DEF Point
<1>2. FixedDuration \in Seq(Point) /\ new \in Seq(Point) /\ pt \in Point
  BY <1>1, FixedDurationType
<1>3. /\ all \in Seq(Point) /\ all2 = Append(all, pt)
      /\ Len(all2) = Len(all) + 1 /\ Len(all) \in Nat
      /\ \A k \in 1..Len(all) : all2[k] = all[k]
      /\ all2[Len(all) + 1] = pt
  BY <1>2
<1>4. /\ Len(pts) = IF Len(all) < MaxPoints THEN Len(all) ELSE MaxPoints
      /\ \A k \in 1..Len(pts) : pts[k] = all[Len(all) - Len(pts) + k]
  BY DEF Window
<1> HIDE DEF all, all2
<1>5. CASE Len(pts) < MaxPoints
  <2>1. /\ p2 = Append(pts, pt) /\ p2 \in Seq(Point) /\ Len(p2) = Len(pts) + 1
        /\ \A k \in 1..Len(pts) : p2[k] = pts[k]
        /\ p2[Len(pts) + 1] = pt
    BY <1>2, <1>5 DEF addData
  <2>2. /\ Len(all) < MaxPoints /\ Len(pts) = Len(all) /\ Len(pts) \in Nat
        /\ Len(p2) = Len(all2)
        /\ Len(p2) = IF Len(all2) < MaxPoints THEN Len(all2) ELSE MaxPoints
    BY <1>1, <1>3, <1>4, <1>5, <2>1
  <2>3. ASSUME NEW k \in 1..Len(p2)
        PROVE  p2[k] = all2[Len(all2) - Len(p2) + k]
    <3>1. Len(all2) - Len(p2) + k = k
      BY <1>3, <2>2
    <3>2. CASE k = Len(p2)
      BY <3>1, <3>2, <1>3, <2>1, <2>2
    <3>3. CASE k # Len(p2)
      <4>1. k \in 1..Len(pts) /\ Len(all) - Len(pts) + k = k
        BY <3>3, <2>1, <2>2
      <4> QED
        BY <4>1, <3>1, <1>3, <1>4, <2>1, <2>2
    <3> QED
      BY <3>2, <3>3
  <2> HIDE DEF p2
  <2>4. Len(p2) >= Len(pts)
    BY <2>1, <2>2
  <2> QED
    BY <2>1, <2>2, <2>3, <2>4 DEF Window, p2, all2
<1>6. CASE ~ (Len(pts) < MaxPoints)
  <2>1. /\ Len(pts) = MaxPoints /\ ~ (Len(all) < MaxPoints) /\ pts # << >>
        /\ Len(pts) \in Nat /\ Len(pts) > 0
    BY <1>1, <1>3, <1>4, <1>6
  <2>2. /\ Tail(pts) \in Seq(Point) /\ Len(Tail(pts)) = Len(pts) - 1
        /\ \A k \in 1..(Len(pts) - 1) : Tail(pts)[k] = pts[k + 1]
    BY <2>1
  <2>3. /\ p2 = Append(Tail(pts), pt) /\ p2 \in Seq(Point) /\ Len(p2) = Len(pts)
        /\ \A k \in 1..(Len(pts) - 1) : p2[k] = pts[k + 1]
        /\ p2[Len(pts)] = pt
    BY <1>2, <1>6, <2>1, <2>2 DEF addData
  <2> HIDE DEF p2
  <2>4. Len(p2) = IF Len(all2) < MaxPoints THEN Len(all2) ELSE MaxPoints
    BY <1>1, <1>3, <2>1, <2>3
  <2>5. ASSUME NEW k \in 1..Len(p2)
        PROVE  p2[k] = all2[Len(all2) - Len(p2) + k]
    <3>1. CASE k = Len(pts)
      <4>1. Len(all2) - Len(p2) + k = Len(all) + 1
        BY <3>1, <1>3, <2>1, <2>3
      <4> QED
        BY <4>1, <3>1, <1>3, <2>3
    <3>2. CASE k # Len(pts)
      <4>1. /\ k \in 1..(Len(pts) - 1)
            /\ k + 1 \in 1..Len(pts)
            /\ Len(all2) - Len(p2) + k = Len(all) - Len(pts) + (k + 1)
            /\ Len(all) - Len(pts) + (k + 1) \in 1..Len(all)
        <5>1. /\ k \in 1..Len(pts) /\ k # Len(pts) /\ Len(pts) \in Nat /\ Len(all) \in Nat
              /\ Len(pts) <= Len(all) /\ Len(all2) = Len(all) + 1 /\ Len(p2) = Len(pts)
          BY <3>2, <1>1, <1>3, <2>1, <2>3
        <5> QED
          BY <5>1
      <4> QED
        BY <4>1, <1>3, <1>4, <2>3
    <3> QED
      BY <3>1, <3>2
  <2>6. Len(p2) >= Len(pts)
    BY <2>1, <2>3
  <2> QED
    BY <2>3, <2>4, <2>5, <2>6 DEF Window, p2, all2
<1> QED
  BY <1>5, <1>6

-----------------------------------------------------------------------------
(* The inductive invariant *)

Windows == \A g \in 1..Len(graphs) : Window(graphs[g].points, added[g])

ChartsInv == TypeOK /\ Windows /\ LegendCurrent

\* An element of a sequence is one of the set it is over.
LEMMA Element ==
    ASSUME NEW S, NEW s \in Seq(S), NEW k \in 1..Len(s)
    PROVE  s[k] \in S
OBVIOUS

\* A line per series, of the point under the pointer.
LEMMA HoverRenderType ==
    ASSUME NEW gs \in Seq([points : Seq(Point), hover : Nat]), NEW g \in 1..Len(gs),
           gs[g].hover \in 1..Len(gs[g].points)
    PROVE  HoverRender(gs, g) \in [graph : 1..Len(gs), lines : Seq(Line)]
<1>1. /\ gs[g] \in [points : Seq(Point), hover : Nat]
      /\ gs[g].points \in Seq(Point)
  <2>1. gs[g] \in [points : Seq(Point), hover : Nat]
    BY Element
  <2> QED
    BY <2>1
<1>2. PICK pt : pt = gs[g].points[gs[g].hover]
  OBVIOUS
<1>3. pt \in Point
  BY <1>1, <1>2
<1>4. pt \in [processed : Int, failed : Int]
  BY <1>3, ChartsAssumption DEF Point, Zero
<1>5. <<"failed", pt.failed>> \in Line /\ <<"processed", pt.processed>> \in Line
  BY <1>4 DEF Line
<1>6. HoverRender(gs, g) = [graph |-> g, lines |-> << <<"failed", pt.failed>>, <<"processed", pt.processed>> >>]
  BY <1>2 DEF HoverRender
<1> QED
  BY <1>5, <1>6

\* Replacing an element of a sequence.
LEMMA Replaced ==
    ASSUME NEW S, NEW s \in Seq(S), NEW k \in 1..Len(s), NEW e \in S
    PROVE  /\ [s EXCEPT ![k] = e] \in Seq(S)
           /\ Len([s EXCEPT ![k] = e]) = Len(s)
           /\ [s EXCEPT ![k] = e][k] = e
           /\ \A i \in 1..Len(s) : i # k => [s EXCEPT ![k] = e][i] = s[i]
OBVIOUS

Graph == [points : Seq(Point), hover : Nat]

\* The page is loaded.
LEMMA ChartsInit == Init => ChartsInv
<1> SUFFICES ASSUME Init PROVE ChartsInv
  OBVIOUS
<1>1. TypeOK
  BY DEF Init, TypeOK, Graph
<1>2. Windows /\ LegendCurrent
  BY DEF Init, Windows, LegendCurrent
<1> QED
  BY <1>1, <1>2 DEF ChartsInv

\* A graph more: the legend is still about a graph that is there.
LEMMA renderGraphsStep ==
    ASSUME ChartsInv, renderGraphs
    PROVE  ChartsInv'
<1>1. /\ graphs \in Seq(Graph) /\ added \in Seq(Seq(Points)) /\ Len(added) = Len(graphs)
      /\ legend \in [graph : 0..Len(graphs), lines : Seq(Line)]
      /\ answers \in Nat
      /\ \A g \in 1..Len(graphs) : graphs[g].hover <= Len(graphs[g].points)
      /\ Windows /\ LegendCurrent
  BY DEF ChartsInv, TypeOK, Graph
<1>2. /\ graphs' = Append(graphs, NewGraph) /\ added' = Append(added, << >>)
      /\ UNCHANGED <<legend, answers>>
  BY DEF renderGraphs
<1>3. /\ NewGraph \in Graph /\ NewGraph.points = FixedDuration /\ NewGraph.hover = 0
      /\ << >> \in Seq(Points)
  BY FixedDurationType DEF NewGraph, Graph
<1>4. /\ graphs' \in Seq(Graph) /\ Len(graphs') = Len(graphs) + 1 /\ Len(graphs) \in Nat
      /\ \A g \in 1..Len(graphs) : graphs'[g] = graphs[g]
      /\ graphs'[Len(graphs) + 1] = NewGraph
  BY <1>1, <1>2, <1>3
<1>5. /\ added' \in Seq(Seq(Points)) /\ Len(added') = Len(graphs) + 1
      /\ \A g \in 1..Len(graphs) : added'[g] = added[g]
      /\ added'[Len(graphs) + 1] = << >>
  BY <1>1, <1>2, <1>3
<1>6. TypeOK'
  <2>1. ASSUME NEW g \in 1..Len(graphs')
        PROVE  graphs'[g].hover <= Len(graphs'[g].points)
    <3>1. g \in 1..Len(graphs) \/ g = Len(graphs) + 1
      BY <1>4
    <3>2. 0 <= Len(FixedDuration)
      BY FixedDurationType
    <3> QED
      BY <3>1, <3>2, <1>1, <1>3, <1>4
  <2>2. legend' \in [graph : 0..Len(graphs'), lines : Seq(Line)]
    BY <1>1, <1>2, <1>4
  <2> QED
    BY <2>1, <2>2, <1>1, <1>2, <1>4, <1>5 DEF TypeOK, Graph
<1>7. Windows'
  <2>1. ASSUME NEW g \in 1..Len(graphs')
        PROVE  Window(graphs'[g].points, added'[g])
    <3>1. g \in 1..Len(graphs) \/ g = Len(graphs) + 1
      BY <1>4
    <3> QED
      BY <3>1, <1>1, <1>3, <1>4, <1>5, FixedDurationType DEF Windows
  <2> QED
    BY <2>1 DEF Windows
<1>8. LegendCurrent'
  <2>1. legend.graph # 0 => legend.graph \in 1..Len(graphs)
    BY <1>1, <1>4
  <2> QED
    BY <2>1, <1>1, <1>2, <1>4 DEF LegendCurrent, HoverRender
<1> QED
  BY <1>6, <1>7, <1>8 DEF ChartsInv

\* Graph g becomes e, and is given the points in new.  Only the legend drawn for
\* it can be out of date then.
LEMMA GraphReplaced ==
    ASSUME ChartsInv, NEW g \in 1..Len(graphs), NEW e \in Graph, NEW new \in Seq(Points),
           e.hover <= Len(e.points), Window(e.points, new),
           graphs' = [graphs EXCEPT ![g] = e],
           added' = [added EXCEPT ![g] = new],
           answers' \in Nat,
           legend' = (IF e.hover = 0 THEN legend ELSE HoverRender(graphs', g))
    PROVE  ChartsInv'
<1>1. /\ graphs \in Seq(Graph) /\ added \in Seq(Seq(Points)) /\ Len(added) = Len(graphs)
      /\ legend \in [graph : 0..Len(graphs), lines : Seq(Line)]
      /\ \A h \in 1..Len(graphs) : graphs[h].hover <= Len(graphs[h].points)
      /\ Windows /\ LegendCurrent
  BY DEF ChartsInv, TypeOK, Graph
<1>2. /\ graphs' \in Seq(Graph) /\ Len(graphs') = Len(graphs) /\ graphs'[g] = e
      /\ \A h \in 1..Len(graphs) : h # g => graphs'[h] = graphs[h]
  BY <1>1, Replaced
<1>3. g \in 1..Len(added)
  BY <1>1
<1>4. /\ added' \in Seq(Seq(Points)) /\ Len(added') = Len(added) /\ added'[g] = new
      /\ \A h \in 1..Len(added) : h # g => added'[h] = added[h]
  BY <1>1, <1>3, Replaced
<1>5. ASSUME NEW h \in 1..Len(graphs')
      PROVE  graphs'[h].hover <= Len(graphs'[h].points) /\ Window(graphs'[h].points, added'[h])
  <2>1. CASE h = g
    BY <2>1, <1>2, <1>4
  <2>2. CASE h # g
    BY <2>2, <1>1, <1>2, <1>4 DEF Windows
  <2> QED
    BY <2>1, <2>2
<1>6. legend' \in [graph : 0..Len(graphs'), lines : Seq(Line)]
  <2>1. CASE e.hover = 0
    BY <2>1, <1>1, <1>2
  <2>2. CASE e.hover # 0
    <3>1. e.hover \in 1..Len(e.points)
      <4>1. e.hover \in Nat /\ Len(e.points) \in Nat
        BY DEF Graph
      <4> QED
        BY <4>1, <2>2
    <3>2. g \in 1..Len(graphs') /\ graphs' \in Seq([points : Seq(Point), hover : Nat])
      BY <1>2 DEF Graph
    <3>3. graphs'[g].hover \in 1..Len(graphs'[g].points)
      BY <3>1, <1>2
    <3>4. HoverRender(graphs', g) \in [graph : 1..Len(graphs'), lines : Seq(Line)]
      BY <3>2, <3>3, HoverRenderType
    <3> QED
      BY <3>4, <2>2
  <2> QED
    BY <2>1, <2>2
<1>7. TypeOK'
  BY <1>1, <1>2, <1>4, <1>5, <1>6 DEF TypeOK, Graph
<1>8. Windows'
  BY <1>5 DEF Windows
<1>9. LegendCurrent'
  <2>1. CASE e.hover = 0
    <3>1. CASE legend.graph = g
      BY <2>1, <3>1, <1>2 DEF LegendCurrent
    <3>2. CASE legend.graph # g
      <4>1. legend.graph # 0 => legend.graph \in 1..Len(graphs)
        BY <1>1
      <4> QED
        BY <4>1, <3>2, <2>1, <1>1, <1>2 DEF LegendCurrent, HoverRender
    <3> QED
      BY <3>1, <3>2
  <2>2. CASE e.hover # 0
    <3>1. legend' = HoverRender(graphs', g) /\ legend'.graph = g
      BY <2>2 DEF HoverRender
    <3> QED
      BY <3>1 DEF LegendCurrent
  <2> QED
    BY <2>1, <2>2
<1> QED
  BY <1>7, <1>8, <1>9 DEF ChartsInv

\* The graph and what it was given, as the steps find them.
LEMMA GraphFacts ==
    ASSUME ChartsInv, NEW g \in 1..Len(graphs)
    PROVE  /\ graphs[g] \in Graph /\ graphs[g].points \in Seq(Point) /\ graphs[g].hover \in Nat
           /\ graphs[g].hover <= Len(graphs[g].points)
           /\ added[g] \in Seq(Points)
           /\ Window(graphs[g].points, added[g])
           /\ added \in Seq(Seq(Points)) /\ answers \in Nat
           /\ [added EXCEPT ![g] = added[g]] = added
<1>1. /\ graphs \in Seq(Graph) /\ added \in Seq(Seq(Points)) /\ g \in 1..Len(added)
      /\ graphs[g].hover <= Len(graphs[g].points)
      /\ answers \in Nat /\ Windows
  BY DEF ChartsInv, TypeOK, Graph
<1>2. graphs[g] \in Graph /\ added[g] \in Seq(Points)
  BY <1>1, Element
<1>3. graphs[g].points \in Seq(Point) /\ graphs[g].hover \in Nat
  BY <1>2 DEF Graph
<1>4. [added EXCEPT ![g] = added[g]] = added
  BY <1>1
<1> QED
  BY <1>1, <1>2, <1>3, <1>4 DEF Windows

\* A point is added to a graph, and drawn.
LEMMA AnswerStep ==
    ASSUME ChartsInv, NEW g \in 1..Len(graphs), NEW pt \in Points, Answer(g, pt)
    PROVE  ChartsInv'
<1>1. PICK e : e = [graphs[g] EXCEPT !.points = addData(graphs[g].points, pt)]
  OBVIOUS
<1>2. addData(graphs[g].points, pt) \in Seq(Point)
  BY GraphFacts, addDataMovesWindow
<1>3. /\ e \in Graph /\ e.points = addData(graphs[g].points, pt) /\ e.hover = graphs[g].hover
  BY <1>1, <1>2, GraphFacts DEF Graph
<1>4. Append(added[g], pt) \in Seq(Points)
  BY GraphFacts
<1>5. Window(e.points, Append(added[g], pt))
  BY <1>3, GraphFacts, addDataMovesWindow
<1>6. e.hover <= Len(e.points)
  <2>1. /\ graphs[g].hover \in Nat /\ graphs[g].hover <= Len(graphs[g].points)
        /\ Len(graphs[g].points) \in Nat
    BY GraphFacts
  <2>2. Len(e.points) >= Len(graphs[g].points) /\ Len(e.points) \in Nat
    BY <1>2, <1>3, GraphFacts, addDataMovesWindow
  <2> QED
    BY <2>1, <2>2, <1>3
<1>7. /\ graphs' = [graphs EXCEPT ![g] = e]
      /\ added' = [added EXCEPT ![g] = Append(added[g], pt)]
      /\ answers' = answers + 1
      /\ legend' = drawn(graphs', g)
  BY <1>1 DEF Answer
<1>8. legend' = (IF e.hover = 0 THEN legend ELSE HoverRender(graphs', g))
  <2>1. graphs'[g] = e
    BY <1>3, <1>7 DEF ChartsInv, TypeOK
  <2> QED
    BY <2>1, <1>7 DEF drawn
<1>9. answers' \in Nat
  BY <1>7, GraphFacts
<1> QED
  BY <1>3, <1>4, <1>5, <1>6, <1>7, <1>8, <1>9, GraphReplaced

\* The pointer moves over the graph that is shown.
LEMMA HoverStep ==
    ASSUME ChartsInv, NEW k \in 1..MaxPoints, Hover(k)
    PROVE  ChartsInv'
<1>1. PICK g : g = Len(graphs)
  OBVIOUS
<1>2. g \in 1..Len(graphs)
  BY <1>1 DEF Hover, ChartsInv, TypeOK
<1>3. PICK e : e = [graphs[g] EXCEPT !.hover = k]
  OBVIOUS
<1>4. k \in Nat /\ k # 0
  BY ChartsAssumption
<1>5. e \in Graph /\ e.points = graphs[g].points /\ e.hover = k
  BY <1>2, <1>3, <1>4, GraphFacts DEF Graph
<1>6. /\ graphs' = [graphs EXCEPT ![g] = e]
      /\ k <= Len(graphs[g].points)
      /\ legend' = HoverRender(graphs', g)
      /\ UNCHANGED <<added, answers>>
  BY <1>1, <1>3 DEF Hover
<1>7. added' = [added EXCEPT ![g] = added[g]]
  BY <1>2, <1>6, GraphFacts
<1>8. legend' = (IF e.hover = 0 THEN legend ELSE HoverRender(graphs', g))
  BY <1>4, <1>5, <1>6
<1>9. /\ Window(e.points, added[g]) /\ e.hover <= Len(e.points) /\ answers' \in Nat
      /\ added[g] \in Seq(Points)
  BY <1>2, <1>5, <1>6, GraphFacts
<1> QED
  BY <1>2, <1>5, <1>6, <1>7, <1>8, <1>9, GraphReplaced

\* The pointer leaves a graph, and the legend stays as it is.
LEMMA MouseOutStep ==
    ASSUME ChartsInv, NEW g \in 1..Len(graphs), MouseOut(g)
    PROVE  ChartsInv'
<1>1. PICK e : e = [graphs[g] EXCEPT !.hover = 0]
  OBVIOUS
<1>2. e \in Graph /\ e.points = graphs[g].points /\ e.hover = 0
  BY <1>1, GraphFacts DEF Graph
<1>3. /\ graphs' = [graphs EXCEPT ![g] = e]
      /\ UNCHANGED <<legend, added, answers>>
  BY <1>1 DEF MouseOut
<1>4. added' = [added EXCEPT ![g] = added[g]]
  BY <1>3, GraphFacts
<1>5. legend' = (IF e.hover = 0 THEN legend ELSE HoverRender(graphs', g))
  BY <1>2, <1>3
<1>6. /\ Window(e.points, added[g]) /\ answers' \in Nat /\ added[g] \in Seq(Points)
  BY <1>2, <1>3, GraphFacts
<1>7. e.hover <= Len(e.points)
  <2>1. Len(graphs[g].points) \in Nat
    BY GraphFacts
  <2> QED
    BY <2>1, <1>2
<1> QED
  BY <1>2, <1>3, <1>4, <1>5, <1>6, <1>7, GraphReplaced

\* The pointer moves over the history graph.
LEMMA HoverHistoryStep ==
    ASSUME ChartsInv, NEW x, NEW s, HoverHistory(x, s)
    PROVE  ChartsInv'
<1>1. UNCHANGED <<graphs, legend, added, answers>>
  BY DEF HoverHistory
<1> QED
  BY <1>1 DEF ChartsInv, TypeOK, Windows, LegendCurrent, HoverRender

\* Every step keeps the invariant.
LEMMA ChartsStep == ChartsInv /\ [Next]_vars => ChartsInv'
<1> SUFFICES ASSUME ChartsInv, [Next]_vars PROVE ChartsInv'
  OBVIOUS
<1>1. CASE renderGraphs
  BY <1>1, renderGraphsStep
<1>2. ASSUME NEW g \in 1..Len(graphs), NEW pt \in Points, Answer(g, pt) PROVE ChartsInv'
  BY <1>2, AnswerStep
<1>3. ASSUME NEW k \in 1..MaxPoints, Hover(k) PROVE ChartsInv'
  BY <1>3, HoverStep
<1>4. ASSUME NEW g \in 1..Len(graphs), MouseOut(g) PROVE ChartsInv'
  BY <1>4, MouseOutStep
<1>5. ASSUME NEW x \in (-2 * Days)..(2 * (Days + 1)), NEW s \in {"processed", "failed"},
             HoverHistory(x, s)
      PROVE  ChartsInv'
  BY <1>5, HoverHistoryStep
<1>6. CASE UNCHANGED vars
  BY <1>6 DEF vars, ChartsInv, TypeOK, Windows, LegendCurrent, HoverRender
<1> QED
  BY <1>1, <1>2, <1>3, <1>4, <1>5, <1>6 DEF Next

\* The inductive invariant.
LEMMA ChartsAlways == Spec => []ChartsInv
  BY ChartsInit, ChartsStep, PTL DEF Spec

-----------------------------------------------------------------------------
(* The theorems *)

\* Each realtime graph is a window on the latest points, for every size of the
\* window, however many answers there are and in whatever order they come.
THEOREM WindowsFollow == Spec => []WindowIsLatest
<1>1. ChartsInv => WindowIsLatest
  BY DEF ChartsInv, Windows, Window, WindowIsLatest
<1> QED
  BY <1>1, ChartsAlways, PTL

\* The legend shows the point that is under the pointer, also after late
\* answers for a graph that was replaced.
THEOREM LegendFollows == Spec => []LegendCurrent
<1>1. ChartsInv => LegendCurrent
  BY DEF ChartsInv
<1> QED
  BY <1>1, ChartsAlways, PTL

=============================================================================
