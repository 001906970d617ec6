------------------------------- MODULE XYChart -------------------------------
(***************************************************************************)
(* XY charts on both sides of a response.  xy_chart.go writes a node with  *)
(* two axes (continuous_axis.go), then a node for each series with its     *)
(* points; xy_chart.ts and continuous_axis.ts read them for a LineChart.   *)
(***************************************************************************)
EXTENDS DataNodes, Integers, SequencesExt

AxisTypes == {"timestamp", "duration", "double"}

-----------------------------------------------------------------------------
(* The builder.                                                            *)

\* New{type}Axis(): from the lowest to the highest extent, in whatever order.
NewAxis(type, id, extents) ==
  With(With(With(Define(id), Property("axis_type", type)),
            Property("axis_min", Min(extents))), Property("axis_max", Max(extents)))

\* WithPoint(): the coordinates go by the IDs of the axes.
Point(xID, yID, x, y) == Node(With(Property(xID, x), Property(yID, y)), <<>>)

AddSeries(id, points) == Node(Define(id), points)

NewChart(xAxis, yAxis, series) ==
  Node(NoProperties, <<Node(NoProperties, <<Node(xAxis, <<>>), Node(yAxis, <<>>)>>)>> \o series)

-----------------------------------------------------------------------------
(* The reader.                                                             *)

\* getAxis() and Axis.fromProperties().
IsAxis(node) ==
  /\ DefinesCategory(node) /\ Has(node, "axis_type") /\ Has(node, "axis_min") /\ Has(node, "axis_max")
  /\ node.properties["axis_type"] \in AxisTypes
GetAxis(node) ==
  [type |-> node.properties["axis_type"], id |-> DefinedCategory(node),
   min |-> node.properties["axis_min"], max |-> node.properties["axis_max"]]

AxisContains(axis, value) == axis.min <= value /\ value <= axis.max

\* What fromNode() and the constructors of series do not throw at.
IsChart(node) ==
  /\ node.children # <<>>
  /\ Len(node.children[1].children) = 2
  /\ \A axis \in ToSet(node.children[1].children) : IsAxis(axis)
  /\ \A series \in ToSet(Tail(node.children)) : DefinesCategory(series)

ChartAxis(node, i) == GetAxis(node.children[1].children[i])
XAxis(node) == ChartAxis(node, 1)
YAxis(node) == ChartAxis(node, 2)

SeriesOf(node) == ToSet(Tail(node.children))

\* The points that a LineChart draws for a series, along its axes.
PointsOf(node, series) ==
  [i \in DOMAIN series.children |->
     [x |-> series.children[i].properties[XAxis(node).id],
      y |-> series.children[i].properties[YAxis(node).id]]]
=============================================================================
