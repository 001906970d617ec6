----------------------------- MODULE MCTraceView -----------------------------
(* Instances of TraceView: every trace of a few nodes in one layer, and     *)
(* scenes with two layers whose traces overlap, clash and join by edges.    *)
EXTENDS TraceView

MCSettings == [header |-> 3, padding |-> 1, margin |-> 1, minWidth |-> 5, baseWidth |-> 2,
               spanWidth |-> 2, spanPadding |-> 1]

Axis == [category |-> "time", type |-> "timestamp", min |-> 10, max |-> 14]
Doubles == [Axis EXCEPT !.type = "double"]
Moment == [Axis EXCEPT !.max = 10]

CONSTANT MaxNodes

Extents == {<<10, 14>>, <<11, 11>>}
OfKind(nodes, kinds) == {i \in DOMAIN nodes : nodes[i].kind \in kinds}
Grow(nodes) ==
  {AddCategory(nodes, i, id, "A") : i \in OfKind(nodes, {"category"}) \union {0}, id \in {"a", "b"}}
  \union {AddSpan(nodes, i, e[1], e[2]) : i \in OfKind(nodes, {"category", "span"}), e \in Extents}
  \union {AddSubspan(nodes, i, e[1], e[2]) : i \in OfKind(nodes, {"span"}), e \in {<<11, 11>>}}
  \union {AddEdgeNode(nodes, i, id, 12, ends) : i \in OfKind(nodes, {"span", "subspan"}),
            id \in {"m", "n"}, ends \in {<<"m">>, <<"n", "o">>}}
RECURSIVE AllOf(_)
AllOf(n) == IF n = 0 THEN {<<>>} ELSE UNION {Grow(nodes) : nodes \in AllOf(n - 1)}
Small == {[axis |-> axis, nodes |-> nodes] : axis \in {Axis, Moment, Doubles}, nodes \in UNION {AllOf(n) : n \in 0 .. MaxNodes}}

\* A category with a subcategory that has a subcategory, spans with children.
Deep ==
  LET a == AddCategory(<<>>, 0, "a", "A")
      b == AddCategory(a, 1, "b", "B")
      c == AddCategory(b, 2, "c", "C")
      s == AddSpan(AddSpan(AddSpan(c, 1, 10, 12), 4, 10, 11), 2, 12, 14)
      d == AddCategory(s, 0, "d", "D")
      t == AddSpan(AddSpan(d, 7, 11, 13), 3, 10, 14)
  IN AddEdgeNode(AddEdgeNode(t, 5, "m", 11, <<"n", "o">>), 9, "n", 12, <<"m">>)
Other ==
  LET a == AddCategory(AddCategory(<<>>, 0, "d", "D"), 0, "a", "A")
      b == AddCategory(a, 2, "b", "B")
      s == AddSpan(AddSpan(b, 3, 10, 12), 1, 13, 14)
  IN AddEdgeNode(AddSubspan(s, 4, 11, 12), 6, "o", 12, <<"n">>)
Clash == AddCategory(<<>>, 0, "a", "Z")        \* another definition of a
Twin == AddEdgeNode(Deep, 4, "m", 10, <<>>)   \* with two edge nodes m

Of(seq) == [nodes |-> seq, axis |-> Axis]
Late == [Axis EXCEPT !.min = 12, !.max = 16]
Alien == [Axis EXCEPT !.category = "wall"]    \* an axis of something else

MCScenes ==
  <<[client |-> "angular", inputs |-> 0, layers |-> <<Small>>],
    [client |-> "react", inputs |-> 0, layers |-> <<Small>>],
    [client |-> "angular", inputs |-> 2, layers |-> <<{Of(Deep), Of(Twin), Of(Other)}>>],
    [client |-> "angular", inputs |-> 2,
     layers |-> <<{Of(Deep)}, {[Of(Other) EXCEPT !.axis = Late]}>>],
    [client |-> "angular", inputs |-> 1,
     layers |-> <<{Of(Deep), Of(Clash)}, {Of(Other), [Of(Other) EXCEPT !.axis = Alien]}>>],
    [client |-> "react", inputs |-> 2, layers |-> <<{Of(Deep), Of(Other)}>>]>>
===============================================================================
