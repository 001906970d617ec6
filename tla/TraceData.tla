------------------------------ MODULE TraceData ------------------------------
(***************************************************************************)
(* Traces: what a data source builds with trace.go and trace_edge.go, the  *)
(* Trace that trace.ts makes of it, the union of several, and the two      *)
(* layouts of renderers.ts, of the categories and of the spans, which each *)
(* go down the trace on their own and must agree.                          *)
(***************************************************************************)
EXTENDS Integers, SequencesExt

CONSTANT Settings  \* the render settings, in pixels

Each(seq, Op(_)) == [k \in DOMAIN seq |-> Op(seq[k])]
Indices(seq) == [k \in DOMAIN seq |-> k]

-------------------------------------------------------------------------------
(* The server: nodes in the order in which they are added; parent 0 is the *)
(* trace.                                                                  *)

AddCategory(nodes, parent, id, name) ==
  Append(nodes, [kind |-> "category", parent |-> parent, id |-> id, name |-> name])
AddSpan(nodes, parent, start, end) ==
  Append(nodes, [kind |-> "span", parent |-> parent, start |-> start, end |-> end])
AddSubspan(nodes, parent, start, end) ==
  Append(nodes, [kind |-> "subspan", parent |-> parent, start |-> start, end |-> end])
AddEdgeNode(nodes, parent, id, time, ends) ==
  Append(nodes, [kind |-> "edge", parent |-> parent, id |-> id, time |-> time, ends |-> ends])

-------------------------------------------------------------------------------
(* The client: nodes become a Trace *)

Children(nodes, i, kind) ==
  SelectSeq(Indices(nodes), LAMBDA j : nodes[j].parent = i /\ nodes[j].kind = kind)

RECURSIVE SpanFrom(_, _)
SpanFrom(nodes, i) ==
  [start |-> nodes[i].start, end |-> nodes[i].end,
   edgeNodes |-> Each(Children(nodes, i, "edge"), LAMBDA j :
     [id |-> nodes[j].id, time |-> nodes[j].time, ends |-> nodes[j].ends]),
   children |-> Each(Children(nodes, i, "span"), LAMBDA j : SpanFrom(nodes, j)),
   subspans |-> Each(Children(nodes, i, "subspan"), LAMBDA j : SpanFrom(nodes, j))]

RECURSIVE CategoryFrom(_, _)
CategoryFrom(nodes, i) ==
  [id |-> nodes[i].id, name |-> nodes[i].name,
   categories |-> Each(Children(nodes, i, "category"), LAMBDA j : CategoryFrom(nodes, j)),
   spans |-> Each(Children(nodes, i, "span"), LAMBDA j : SpanFrom(nodes, j))]

TraceFrom(axis, nodes) ==
  [axis |-> axis,
   categories |-> Each(Children(nodes, 0, "category"), LAMBDA i : CategoryFrom(nodes, i))]

-------------------------------------------------------------------------------
(* Unions.  The categories that have the same ID under the same parent are *)
(* one, at the place of the first.                                         *)

SameID(cats, id) == SelectSeq(cats, LAMBDA c : c.id = id)
FirstOfID(cats, k) == \A j \in 1 .. k - 1 : cats[j].id # cats[k].id
IDs(cats) ==
  Each(SelectSeq(Indices(cats), LAMBDA k : FirstOfID(cats, k)), LAMBDA k : cats[k].id)
Subcategories(cats) == FlattenSeq(Each(cats, LAMBDA c : c.categories))

RECURSIVE UnionCategories(_)
BadUnionCategoriesFirst(cats) ==
  Each(IDs(cats), LAMBDA id :
    LET same == SameID(cats, id)
    IN [id |-> id, name |-> same[1].name,
        categories |-> UnionCategories(Subcategories(same)), spans |-> same[1].spans])
UnionCategories(cats) ==
  Each(IDs(cats), LAMBDA id :
    LET same == SameID(cats, id)
    IN [id |-> id, name |-> same[1].name,
        categories |-> UnionCategories(Subcategories(same)),
        spans |-> FlattenSeq(Each(same, LAMBDA c : c.spans))])

\* Categories with one ID and two definitions cannot be one.
RECURSIVE DefinitionsAgree(_)
DefinitionsAgree(cats) ==
  \A id \in ToSet(IDs(cats)) :
    LET same == SameID(cats, id)
    IN (\A k \in DOMAIN same : same[k].name = same[1].name) /\ DefinitionsAgree(Subcategories(same))

Lesser(x, y) == IF x < y THEN x ELSE y
Greater(x, y) == IF x > y THEN x ELSE y

\* Axes of different things, or of different types, cannot be one.
AxesUnite(a, b) == a.category = b.category /\ a.type = b.type
UnionAxis(a, b) ==
  [category |-> a.category, type |-> a.type,
   min |-> Lesser(a.min, b.min), max |-> Greater(a.max, b.max)]

Unites(traces) ==  \* the union throws unless
  /\ \A i, j \in DOMAIN traces : AxesUnite(traces[i].axis, traces[j].axis)
  /\ Len(traces) > 1 => DefinitionsAgree(Subcategories(traces))

\* One trace is returned as it is; more are merged one after the other.
Merge(t, u) ==
  [axis |-> UnionAxis(t.axis, u.axis), categories |-> UnionCategories(t.categories \o u.categories)]
UnionTraces(traces) == FoldLeft(Merge, Head(traces), Tail(traces))

-------------------------------------------------------------------------------
(* The layout of the categories.  at is where a category or span is        *)
(* declared.                                                               *)

Greatest(n, seq) == FoldLeft(Greater, n, seq)

RECURSIVE spanTreeDepthPx(_)
spanTreeDepthPx(span) ==
  Settings.spanWidth
    + Greatest(0, Each(span.children, LAMBDA c : Settings.spanPadding + spanTreeDepthPx(c)))

RECURSIVE addCategoryForHorizontalSpans(_, _, _, _, _)
addCategoryForHorizontalSpans(cat, at, x0, x1, y0) ==
  LET own == Greatest(Settings.header, Each(cat.spans, spanTreeDepthPx))
      Below(acc, k) ==
        LET sub == addCategoryForHorizontalSpans(cat.categories[k], Append(at, k),
                     x0 + Settings.margin, x1, y0 + acc.depth + Settings.padding)
        IN [depth |-> acc.depth + Settings.padding + sub.depth, cats |-> acc.cats \o sub.cats]
      all == FoldLeft(Below, [depth |-> own, cats |-> <<>>], Indices(cat.categories))
      depth == Greater(all.depth, Settings.minWidth)
  IN [depth |-> depth,
      cats |-> <<[at |-> at, id |-> cat.id, x0 |-> x0, x1 |-> x1, y0 |-> y0, y1 |-> y0 + depth]>>
                 \o all.cats]

RECURSIVE categoryHeight(_)
categoryHeight(cat) == 1 + Greatest(0, Each(cat.categories, categoryHeight))

renderCategoryHierarchy(trace) ==
  LET x1 == Greatest(Settings.baseWidth, Each(trace.categories, LAMBDA c :
              Settings.baseWidth + categoryHeight(c) * Settings.margin))
      Below(acc, k) ==
        LET sub == addCategoryForHorizontalSpans(trace.categories[k], <<k>>, 0, x1, acc.height)
        IN [height |-> acc.height + sub.depth, cats |-> acc.cats \o sub.cats]
      all == FoldLeft(Below, [height |-> 0, cats |-> <<>>], Indices(trace.categories))
  IN [cats |-> all.cats, height |-> all.height,
      width |-> IF all.cats = <<>> THEN 0 ELSE x1]

-------------------------------------------------------------------------------
(* The layout of the spans *)

NaN == -1000  \* 0 / 0; no pixel has this number

\* Math.round of the clamped part of the axis, times the width.
DomainToRange(axis, time, width) ==
  LET extent == axis.max - axis.min
      offset == Greater(0, Lesser(extent, time - axis.min))
  IN IF extent # 0 THEN (2 * offset * width + extent) \div (2 * extent)
     ELSE IF time = axis.min THEN NaN ELSE IF time > axis.min THEN width ELSE 0

RECURSIVE addHorizontalSpan(_, _, _, _, _)
addHorizontalSpan(span, at, y0, axis, width) ==
  <<[at |-> at, start |-> span.start,
     x0 |-> DomainToRange(axis, span.start, width), y0 |-> y0,
     x1 |-> DomainToRange(axis, span.end, width), y1 |-> y0 + Settings.spanWidth,
     edgeNodes |-> Each(span.edgeNodes, LAMBDA n :
       [id |-> n.id, ends |-> n.ends, time |-> n.time,
        x |-> DomainToRange(axis, n.time, width), y |-> y0 + Settings.spanWidth \div 2])]>>
  \o FlattenSeq(Each(span.children, LAMBDA c :
       addHorizontalSpan(c, at, y0 + Settings.spanWidth + Settings.spanPadding, axis, width)))
  \o FlattenSeq(Each(span.subspans, LAMBDA s : addHorizontalSpan(s, at, y0, axis, width)))

Lowest(spans) == Each(spans, LAMBDA s : s.y1)

RECURSIVE addHorizontalCategorySpans(_, _, _, _, _)
BadCategorySpansWithoutMinimum(cat, at, y0, axis, width) ==
  LET own == FlattenSeq(Each(cat.spans, LAMBDA s : addHorizontalSpan(s, at, y0, axis, width)))
      Below(acc, k) ==
        LET sub == addHorizontalCategorySpans(cat.categories[k], Append(at, k),
                     acc.y1 + Settings.padding, axis, width)
        IN [y1 |-> sub.y1, spans |-> acc.spans \o sub.spans]
  IN FoldLeft(Below, [y1 |-> Greatest(y0 + Settings.header, Lowest(own)), spans |-> own],
              Indices(cat.categories))
addHorizontalCategorySpans(cat, at, y0, axis, width) ==
  LET own == FlattenSeq(Each(cat.spans, LAMBDA s : addHorizontalSpan(s, at, y0, axis, width)))
      Below(acc, k) ==
        LET sub == addHorizontalCategorySpans(cat.categories[k], Append(at, k),
                     acc.y1 + Settings.padding, axis, width)
        IN [y1 |-> sub.y1, spans |-> acc.spans \o sub.spans]
      all == FoldLeft(Below, [y1 |-> Greatest(y0 + Settings.header, Lowest(own)), spans |-> own],
                      Indices(cat.categories))
  IN [all EXCEPT !.y1 = Greater(@, y0 + Settings.minWidth)]

EdgeNodes(spans) == FlattenSeq(Each(spans, LAMBDA s : s.edgeNodes))
EdgesFrom(n, nodes) ==
  Each(SelectSeq(n.ends, LAMBDA id : \E k \in DOMAIN nodes : nodes[k].id = id), LAMBDA id :
    LET end == nodes[CHOOSE k \in DOMAIN nodes : nodes[k].id = id]
    IN [from |-> n.id, to |-> id, time |-> n.time, x0 |-> n.x, y0 |-> n.y, x1 |-> end.x, y1 |-> end.y])

\* An ID of two edge nodes is an error, and so is a span of a double axis, for
\* which there is no render ID.  An endpoint that is not there is left out.
Throws == [spans |-> <<>>, edges |-> <<>>, thrown |-> TRUE]
WithEdges(spans, nodes, axis) ==
  IF \/ \E i, j \in DOMAIN nodes : i # j /\ nodes[i].id = nodes[j].id
     \/ axis.type = "double" /\ spans # <<>>
  THEN Throws
  ELSE [spans |-> spans, edges |-> FlattenSeq(Each(nodes, LAMBDA n : EdgesFrom(n, nodes))),
        thrown |-> FALSE]

AllSpans(trace, width) ==
  LET Below(acc, k) ==
        LET sub == addHorizontalCategorySpans(trace.categories[k], <<k>>, acc.y1, trace.axis, width)
        IN [y1 |-> sub.y1, spans |-> acc.spans \o sub.spans]
  IN FoldLeft(Below, [y1 |-> 0, spans |-> <<>>], Indices(trace.categories)).spans

renderHorizontalTraceSpans(trace, width) ==
  LET Rendered(spans) == WithEdges(spans, EdgeNodes(spans), trace.axis)
  IN Rendered(AllSpans(trace, width))
===============================================================================
