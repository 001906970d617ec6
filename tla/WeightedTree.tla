----------------------------- MODULE WeightedTree -----------------------------
(***************************************************************************)
(* Weighted trees: what server/go/weighted_tree/weighted_tree.go writes    *)
(* into a response, and how client/core/src/weighted_tree lays it out.     *)
(* A tree is a sequence of nodes; parents come before their children, and  *)
(* Nil is the tree itself.  Widths are in units of weight: the code        *)
(* divides each by the weight of the whole tree.                           *)
(***************************************************************************)
EXTENDS Integers, Sequences, FiniteSetsExt

NoParent == 0

Node(data, parent, selfMagnitude) ==
  Append(data, [parent |-> parent, self |-> selfMagnitude, payload |-> FALSE])
Payload(data, parent) == Append(data, [parent |-> parent, self |-> 0, payload |-> TRUE])

\* children() in payload.ts: a payload is no part of the structure.
BadStructural(data) == DOMAIN data
structural(data) == {i \in DOMAIN data : ~data[i].payload}

\* A node with those above it, and with those below it.
Lineage(data, i) ==
  LET up[j \in DOMAIN data] == {j} \union (IF data[j].parent = NoParent THEN {} ELSE up[data[j].parent])
  IN up[i]
Family(data, i) == {j \in structural(data) : i \in Lineage(data, j)}

\* The constructor of TreeNode adds up what a node and those below it weigh.
Weighing(data, nodes) == MapThenSumSet(LAMBDA j : data[j].self, nodes)
totalWeight(data, i) == Weighing(data, Family(data, i))

\* The constructor of Tree: the width of the picture, in units of weight.
wholeWeight(data) ==
  MapThenSumSet(LAMBDA i : totalWeight(data, i), {i \in structural(data) : data[i].parent = NoParent})

\* renderTreeNodes() goes through siblings in their order and through the family
\* of each before the next: what is left of a frame is the families of its elder
\* siblings and of those of its parents, and ids number frames in that order.
Elders(data, i) == {j \in structural(data) : data[j].parent = data[i].parent /\ j < i}
LeftOf(data, i) ==
  UNION {Family(data, e) : e \in UNION {Elders(data, a) : a \in Lineage(data, i)}}
Row(data, i) == Cardinality(Lineage(data, i))

\* renderTree(): a frame of row r goes from y = r - 1 to y = r; those of a
\* bottom-up tree are flipped around the vertical midpoint.
renderTree(data, topDown) ==
  LET height == Max({0} \union {Row(data, i) : i \in structural(data)})
      Top(i) == IF topDown THEN Row(data, i) - 1 ELSE height - Row(data, i)
      Left(i) == Weighing(data, LeftOf(data, i))
  IN [i \in structural(data) |->
        [x0 |-> Left(i), x1 |-> Left(i) + totalWeight(data, i), y0 |-> Top(i), y1 |-> Top(i) + 1,
         id |-> Cardinality(LeftOf(data, i)) + Row(data, i) - 1]]

Height(drawn) == IF DOMAIN drawn = {} THEN 0 ELSE Max({drawn[i].y1 : i \in DOMAIN drawn})
=============================================================================
