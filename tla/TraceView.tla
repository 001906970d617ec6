------------------------------ MODULE TraceView ------------------------------
(***************************************************************************)
(* A trace on the screen: a TraceDirective provides it, which may be one of *)
(* the layers of a UnionTracesDirective, and horizontal_trace.component.ts, *)
(* or its counterpart of the React client, lays it out, keeps the layout   *)
(* for as long as the trace is the same, draws it, and turns brushing,     *)
(* zooming and scrolling into a time range that the layers are asked for.  *)
(*                                                                         *)
(* UnionTracesDirective does not provide a TraceProvider, so the component *)
(* takes the first layer for its source; the union is told to those who    *)
(* subscribe to the directive itself.                                      *)
(***************************************************************************)
EXTENDS TraceData

CONSTANTS
  Scenes,      \* what there may be: the client, the responses of each layer, the inputs
  Windows,     \* the widths of the component
  BrushPx,     \* where a brush may start or end
  ScrollPx     \* how far one scroll goes

VARIABLES
  scene,       \* the index of what there is
  inputs,      \* how many inputs there were
  asking,      \* the layers that have asked, and whose DataQuery has not sent it
  due,         \* the requests under way
  sent,        \* how many requests for each layer there were
  answered,    \* the one among them that was answered last, or 0
  history,     \* the traces of each layer, which its ReplaySubject keeps
  present,     \* the layers that there are
  zoom,        \* the zoom_start and zoom_end that the last brush told
  union,       \* what the UnionTracesDirective said last, or NoTrace
  provided,    \* the layer that the component subscribed to is there
  trace,       \* the trace of the component, or NoTrace
  window, chartWidth,
  cats, spans, \* renderedCategories and renderedSpans, or Undefined
  lit,         \* which rendered spans and edges are highlighted
  hot,         \* the time that the highlight reaction matches
  marker,      \* xAxisMarkerVal
  calledOut,   \* the category ID that is called out
  band,        \* called-out-category-band
  dom,         \* what the chart shows
  pending,     \* redrawDebouncer waits; in React, a render is due
  alive

requestVars == <<asking, due, sent, answered>>
layerVars == <<requestVars, history, present, union, provided>>
cacheVars == <<chartWidth, cats, spans, lit, dom>>
inputVars == <<zoom, hot, marker, calledOut>>
vars == <<scene, inputs, layerVars, inputVars, trace, window, cacheVars, band, pending, alive>>

Undefined == [undefined |-> TRUE]
NoTrace ==
  [axis |-> [category |-> "none", type |-> "none", min |-> 0, max |-> 0], categories |-> <<>>]
Reset == [min |-> 0, max |-> 0]
Nothing == 0  \* no time and no marker
NoDrawing == [spans |-> <<>>, edges |-> <<>>, lit |-> {}, axis |-> NoTrace.axis, width |-> 0,
              height |-> 0, rule |-> {}]
TheScene == Scenes[scene]
React == TheScene.client = "react"
Layers == DOMAIN TheScene.layers
ChartLayer == 1  \* @ContentChild(TraceProvider): the first <trace>

Init ==
  /\ scene \in DOMAIN Scenes /\ inputs = 0
  /\ asking = Layers /\ due = {}
  /\ sent = [l \in Layers |-> 0] /\ answered = sent
  /\ history = [l \in Layers |-> <<>>]
  /\ present = Layers /\ union = NoTrace /\ provided = TRUE
  /\ zoom = Reset /\ trace = NoTrace
  /\ window \in Windows /\ chartWidth = 0
  /\ cats = Undefined /\ spans = Undefined /\ lit = {}
  /\ hot = Nothing /\ marker = Nothing /\ calledOut = "none"
  /\ band = {} /\ dom = NoDrawing
  /\ pending = TRUE       \* ngAfterViewInit resizes
  /\ alive = TRUE

-------------------------------------------------------------------------------
(* The providers *)

LayersInOrder(layers) == SetToSortSeq(layers, <)
\* combineLatest: nothing before each layer has a trace; then a union of the
\* latest, or an error in its place.
Latest(layers, latest) ==
  LET traces == Each(LayersInOrder(layers), LAMBDA l : latest[l])
  IN IF Unites(traces) THEN <<UnionTraces(traces)>> ELSE <<>>
AllHaveTraces(layers, hist) == layers # {} /\ \A l \in layers : hist[l] # <<>>

BadOnTraceKeepsSpans(emitted) ==
  IF emitted = <<>> \/ ~alive THEN UNCHANGED <<trace, pending, cacheVars>>
  ELSE /\ trace' = Last(emitted)
       /\ cats' = Undefined /\ pending' = TRUE
       /\ UNCHANGED <<chartWidth, dom, lit, spans>>
\* The component keeps the trace, ends the subscriptions of the old view,
\* forgets its layout, and asks for a redraw.
OnTrace(emitted) ==
  IF emitted = <<>> \/ ~alive THEN UNCHANGED <<trace, pending, cacheVars>>
  ELSE /\ trace' = Last(emitted)
       /\ pending' = TRUE
       /\ IF React THEN UNCHANGED <<cats, spans, lit>>
          ELSE cats' = Undefined /\ spans' = Undefined /\ lit' = {}
       /\ UNCHANGED <<chartWidth, dom>>

Tell(emitted) == union' = IF emitted = <<>> THEN union ELSE Last(emitted)

\* The timer of a DataQuery: a request carries the zoom of the moment it is sent.
Send(l) ==
  /\ l \in asking
  /\ asking' = asking \ {l}
  /\ sent' = [sent EXCEPT ![l] = @ + 1]
  /\ due' = due \union {[layer |-> l, number |-> sent'[l], zoom |-> zoom]}
  /\ UNCHANGED <<scene, inputs, answered, history, present, union, provided, inputVars, trace, window,
                 cacheVars, band, pending, alive>>

\* A data source answers, in any order, with the part of a trace that was asked for.
Answer(request) ==
  /\ due' = due \ {request}
  /\ answered' = [answered EXCEPT ![request.layer] = request.number]
  /\ \E t \in TheScene.layers[request.layer] :
       LET axis == IF request.zoom = Reset THEN t.axis
                   ELSE [t.axis EXCEPT !.min = request.zoom.min, !.max = request.zoom.max]
           got == TraceFrom(axis, t.nodes)
           hist == [history EXCEPT ![request.layer] = Append(@, got)]
       IN /\ history' = hist
          /\ Tell(IF Cardinality(Layers) > 1 /\ AllHaveTraces(present, hist)
                  THEN Latest(present, [k \in Layers |-> IF hist[k] = <<>> THEN NoTrace ELSE Last(hist[k])])
                  ELSE <<>>)
          /\ OnTrace(IF request.layer = ChartLayer /\ provided THEN <<got>> ELSE <<>>)
  /\ UNCHANGED <<scene, inputs, asking, sent, present, provided, inputVars, window, band, alive>>

\* A request fails, or the response leaves the series out.
Fail(request) ==
  /\ due' = due \ {request}
  /\ UNCHANGED <<scene, inputs, asking, sent, answered, history, present, union, provided, inputVars,
                 trace, window, cacheVars, band, pending, alive>>

\* The layers change, and are subscribed to anew.  Each ReplaySubject says all
\* its traces again, those of the last layer once the other layers have said
\* theirs, and each union on the way is told.  A layer that leaves cancels its
\* series; one that comes is a new one, which the component does not look for.
Replayed(layers, hist) ==
  LET last == Max(layers)
      latest(k) == [l \in Layers |-> IF l = last THEN hist[l][k]
                                     ELSE IF hist[l] = <<>> THEN NoTrace ELSE Last(hist[l])]
  IN IF ~AllHaveTraces(layers, hist) THEN <<>>
     ELSE FlattenSeq([k \in DOMAIN hist[last] |-> Latest(layers, latest(k))])

RefreshLayers ==
  /\ inputs < TheScene.inputs /\ alive /\ Cardinality(Layers) > 1
  /\ inputs' = inputs + 1
  /\ \E l \in Layers :
       IF l \in present
       THEN /\ present' = present \ {l} /\ asking' = asking \ {l}
            /\ due' = {request \in due : request.layer # l}
            /\ history' = [history EXCEPT ![l] = <<>>]
            /\ provided' = (provided /\ l # ChartLayer)
       ELSE /\ present' = present \union {l} /\ asking' = asking \union {l}
            /\ UNCHANGED <<due, history, provided>>
  /\ Tell(Replayed(present', history'))
  /\ UNCHANGED <<scene, sent, answered, inputVars, trace, window, cacheVars, band, pending, alive>>

-------------------------------------------------------------------------------
(* Drawing *)

Matches(rendered, time) ==
  {<<"span", k>> : k \in {i \in DOMAIN rendered.spans : rendered.spans[i].start = time}}
    \union {<<"edge", k>> : k \in {i \in DOMAIN rendered.edges : rendered.edges[i].time = time}}

\* Where a time is on the x-axis, and the time at a place on it, which is a
\* Date, in whole milliseconds.
XScale(time) ==
  ((time - trace.axis.min) * chartWidth') \div (trace.axis.max - trace.axis.min)
Invert(px) ==
  trace.axis.min + (px * (trace.axis.max - trace.axis.min)) \div chartWidth

\* The line of a marker that is gone stays.
Rule ==
  IF marker' = Nothing THEN dom.rule
  ELSE IF trace.axis.min # trace.axis.max /\ XScale(marker') \in 0 .. chartWidth'
       THEN {XScale(marker')} ELSE {}

Draw(rendered) ==
  dom' = [spans |-> rendered.spans, edges |-> rendered.edges, lit |-> lit', axis |-> trace.axis,
          width |-> chartWidth', height |-> cats'.height, rule |-> Rule]

\* redraw().  The layout of a trace is made once, and each span and edge is
\* then watched for its highlight; what it throws is reported.
Redraw ==
  IF trace = NoTrace THEN UNCHANGED cacheVars
  ELSE /\ cats' = IF cats = Undefined THEN renderCategoryHierarchy(trace) ELSE cats
       /\ chartWidth' = window - cats'.width
       /\ IF spans # Undefined
          THEN lit' = Matches(spans, hot') /\ UNCHANGED spans /\ Draw(spans)
          ELSE \E rendered \in {renderHorizontalTraceSpans(trace, chartWidth')} :
                 IF rendered.thrown THEN UNCHANGED <<spans, lit, dom>>
                 ELSE spans' = rendered /\ lit' = Matches(rendered, hot') /\ Draw(rendered)

\* The React component lays out anew what depends on a property that changed, and
\* draws nothing where there is no room or no layout.
Render ==
  /\ cats' = renderCategoryHierarchy(trace)
  /\ chartWidth' = Greater(0, window - cats'.width)
  /\ lit' = {}
  /\ \E rendered \in {renderHorizontalTraceSpans(trace, chartWidth')} :
       IF chartWidth' > 0 /\ ~rendered.thrown
       THEN /\ spans' = rendered
            /\ dom' = [spans |-> rendered.spans, edges |-> rendered.edges, lit |-> {}, rule |-> {},
                       axis |-> trace.axis, width |-> chartWidth', height |-> cats'.height]
       ELSE spans' = Undefined /\ dom' = NoDrawing

RedrawDebounced ==
  /\ pending /\ alive
  /\ pending' = FALSE
  /\ UNCHANGED <<scene, inputs, layerVars, inputVars, trace, window, band, alive>>
  /\ IF React /\ trace # NoTrace THEN Render ELSE Redraw

-------------------------------------------------------------------------------
(* The user *)

Input == inputs < TheScene.inputs /\ inputs' = inputs + 1

Resize ==
  /\ Input /\ alive
  /\ window' \in Windows \ {window}
  /\ pending' = TRUE
  /\ UNCHANGED <<scene, layerVars, inputVars, trace, cacheVars, band, alive>>

\* What is highlighted changes.  Those who watch redraw if it is news to them,
\* also when the component is gone: the subscriptions of its view are not ended.
Highlight ==
  /\ Input /\ ~React
  /\ hot' \in {s.start : s \in ToSet(dom.spans)} \ {hot}
  /\ UNCHANGED <<scene, layerVars, zoom, marker, calledOut, trace, window, band, pending, alive>>
  /\ IF spans # Undefined /\ Matches(spans, hot') # lit THEN Redraw ELSE UNCHANGED cacheVars

\* update_vertical_rule: no redraw for a marker that is taken away.
UpdateVerticalRule ==
  /\ Input /\ ~React /\ alive
  /\ marker' \in {Nothing} \union {s.start : s \in ToSet(dom.spans)} /\ marker' # marker
  /\ UNCHANGED <<scene, layerVars, zoom, hot, calledOut, trace, window, band, pending, alive>>
  /\ IF marker' # Nothing THEN Redraw ELSE UNCHANGED cacheVars

\* update_called_out_category: a band is drawn for the layout that there is.
UpdateCalledOutCategory ==
  /\ Input /\ ~React /\ alive
  /\ calledOut' \in {c.id : c \in UNION {ToSet(x) : x \in {t.categories : t \in {trace}}}} \union {"none"}
  /\ calledOut' # calledOut
  /\ band' = IF cats = Undefined THEN {}
             ELSE {[y0 |-> c.y0, y1 |-> c.y1, width |-> chartWidth]
                    : c \in {d \in ToSet(cats.cats) : d.id = calledOut'}}
  /\ UNCHANGED <<scene, layerVars, zoom, hot, marker, trace, window, cacheVars, pending, alive>>

\* A Value that is set to what it is tells nobody.
ZoomTo(range) ==
  /\ zoom' = range
  /\ asking' = IF range = zoom THEN asking ELSE present
Zooming == UNCHANGED <<scene, due, sent, answered, history, present, union, provided, hot, marker,
                       calledOut, trace, window, cacheVars, band, pending, alive>>
InteractiveChart == Input /\ ~React /\ alive /\ trace # NoTrace /\ chartWidth > 0

\* brush() of an extent.  Clearing the brush ends a brush of nothing, which resets
\* the zoom before the new range is told; an axis of no Dates throws after that.
brush(from, to) ==
  IF trace.axis.type = "timestamp"
  THEN zoom' = [min |-> Invert(from), max |-> Invert(to)] /\ asking' = present
  ELSE ZoomTo(Reset)
Brush ==
  /\ InteractiveChart
  /\ \E from, to \in BrushPx : from < to /\ to <= chartWidth /\ brush(from, to)
  /\ Zooming
ResetZoom == Input /\ ~React /\ alive /\ trace # NoTrace /\ ZoomTo(Reset) /\ Zooming

moveChart(from, to) ==
  /\ trace.axis.type = "timestamp"
  /\ ZoomTo([min |-> Invert(from), max |-> Invert(to)])
ScrollChart ==
  /\ InteractiveChart
  /\ \E direction \in {-1, 1} : moveChart(direction * ScrollPx, chartWidth + direction * ScrollPx)
  /\ Zooming
\* A fifth of the range, about the mouse.
ZoomChart ==
  /\ InteractiveChart
  /\ \E direction \in {-1, 1} : \E mouse \in BrushPx \ {0} :
       /\ mouse <= chartWidth
       /\ moveChart((-direction * mouse) \div 5, chartWidth + (direction * (chartWidth - mouse)) \div 5)
  /\ Zooming

Destroy ==
  /\ Input /\ alive
  /\ alive' = FALSE /\ pending' = FALSE /\ asking' = {} /\ due' = {}
  /\ dom' = IF React THEN NoDrawing ELSE dom
  /\ UNCHANGED <<scene, sent, answered, history, present, union, provided, inputVars, trace, window, chartWidth, cats, spans, lit, band>>

Next ==
  \/ \E l \in Layers : Send(l)
  \/ \E request \in due : Answer(request) \/ Fail(request)
  \/ RefreshLayers
  \/ RedrawDebounced
  \/ Resize \/ Highlight \/ UpdateVerticalRule \/ UpdateCalledOutCategory
  \/ Brush \/ ResetZoom \/ ScrollChart \/ ZoomChart
  \/ Destroy

Spec == Init /\ [][Next]_vars
-------------------------------------------------------------------------------
(* What the union promises, trace.go: each category path of a layer, with  *)
(* all its spans.                                                          *)

RECURSIVE SpansByPath(_, _)
SpansByPath(categories, path) ==
  FlattenSeq(Each(categories, LAMBDA c :
    <<[path |-> Append(path, c.id), name |-> c.name, is |-> "category", of |-> <<>>]>>
    \o Each(c.spans, LAMBDA s :
         [path |-> Append(path, c.id), name |-> c.name, is |-> "span", of |-> s])
    \o SpansByPath(c.categories, Append(path, c.id))))

Content(t) == SpansByPath(t.categories, <<>>)
Count(x, seq) == Cardinality({k \in DOMAIN seq : seq[k] = x})
Shown == {Last(history[l]) : l \in present}
Consistent ==
  /\ \A t, u \in Shown : AxesUnite(t.axis, u.axis)
  /\ \A t, u \in Shown : \A x \in ToSet(Content(t)), y \in ToSet(Content(u)) :
       x.path = y.path => x.name = y.name

\* The union of several layers has every category path of every layer and every
\* span at its path, each once, on an axis that spans the axes of the layers,
\* whichever of the layers came last, went away or was replayed.
UnionHasEverything ==
  (Cardinality(Layers) > 1 /\ alive /\ AllHaveTraces(present, history) /\ Consistent) =>
    LET parts == FlattenSeq(Each(LayersInOrder(present), LAMBDA l : Content(Last(history[l]))))
        whole == Content(union)
    IN /\ \A x \in ToSet(parts) \union ToSet(whole) :
            IF x.is = "span" THEN Count(x, parts) = Count(x, whole)
            ELSE Count(x, parts) > 0 /\ Count(x, whole) > 0
       /\ \A t \in Shown : union.axis.min <= t.axis.min /\ t.axis.max <= union.axis.max
       /\ union.axis.min \in {t.axis.min : t \in Shown}
       /\ union.axis.max \in {t.axis.max : t \in Shown}

Laid == cats # Undefined /\ spans # Undefined

\* A span is in the stripe of its category, and in no stripe but those of the
\* categories that are above it in the hierarchy.
InTheirStripes ==
  \A s \in ToSet(spans.spans) : \A c \in ToSet(cats.cats) :
    /\ c.at = s.at => c.y0 <= s.y0 /\ s.y1 <= c.y1
    /\ ~IsPrefix(c.at, s.at) => s.y1 <= c.y0 \/ c.y1 <= s.y0

\* An edge goes from the row of the one node to the row of the other, and none is
\* missing whose nodes are both there, whatever their order.
EdgesJoinTheirSpans ==
  LET Owns(s, id) == \E k \in DOMAIN s.edgeNodes : s.edgeNodes[k].id = id
      all == ToSet(spans.spans)
  IN /\ {<<e.from, e.to>> : e \in ToSet(spans.edges)}
          = UNION {UNION {{<<n.id, to>> : to \in {x \in ToSet(n.ends) : \E s \in all : Owns(s, x)}}
                          : n \in ToSet(r.edgeNodes)} : r \in all}
     /\ \A e \in ToSet(spans.edges) :
          /\ \E s \in all : Owns(s, e.from) /\ s.y0 <= e.y0 /\ e.y0 < s.y1
          /\ \E s \in all : Owns(s, e.to) /\ s.y0 <= e.y1 /\ e.y1 < s.y1

\* The two layouts of a trace agree, though each goes down the categories on its
\* own, with headers, paddings and minimum widths to add up alike.
LayoutIsSound ==
  Laid => /\ InTheirStripes /\ EdgesJoinTheirSpans
          /\ \A s \in ToSet(spans.spans) : s.y1 <= cats.height
          /\ Len(spans.spans) >= Cardinality({x \in ToSet(Content(trace)) : x.is = "span"})

Rows(seq) == Each(seq, LAMBDA s : <<s.at, s.start, s.y0, s.y1>>)

\* The newest of the requests for the chart was answered, and last.
ChartIsCurrent ==
  provided /\ ChartLayer \notin asking /\ answered[ChartLayer] = sent[ChartLayer]

\* Once no redraw is due the chart shows the trace that its layer got last, in the
\* room that there is, with the highlights of now, unless the layout threw; and
\* for the range that was zoomed to last, unless an answer to an earlier zoom came
\* late. The React component draws exactly what a new one would.
TraceAtRestDrawn ==
  alive /\ ~pending /\ trace # NoTrace =>
    \A fresh \in {renderHorizontalTraceSpans(trace, dom.width)} :
       \/ fresh.thrown
       \/ React /\ dom = NoDrawing /\ window <= renderCategoryHierarchy(trace).width
       \/ /\ provided => trace = Last(history[ChartLayer])
          /\ Rows(dom.spans) = Rows(fresh.spans)
          /\ React => dom.spans = fresh.spans /\ dom.edges = fresh.edges
          /\ dom.lit = IF React THEN {} ELSE Matches(fresh, hot)
          /\ dom.axis = trace.axis
          /\ dom.width = window - renderCategoryHierarchy(trace).width
          /\ ChartIsCurrent /\ zoom # Reset => dom.axis.min = zoom.min /\ dom.axis.max = zoom.max
          /\ ChartIsCurrent /\ zoom = Reset =>
               dom.axis \in {t.axis : t \in TheScene.layers[ChartLayer]}

\* horizontal_trace.component.ts:114: "Presents a view of trace data in which the
\* x-axis is trace time and spans extend horizontally": a span is where the x-axis
\* below it has its start.
AxisInStep ==
  (~pending /\ alive) =>
    \A s \in ToSet(dom.spans) : s.x0 = DomainToRange(dom.axis, s.start, dom.width)
===============================================================================
