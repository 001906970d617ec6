------------------------------- MODULE TreeView -------------------------------
(***************************************************************************)
(* From a weighted tree on the server to frames on the screen: a data      *)
(* source walks a tree and writes what the walk returns into a response;   *)
(* the component of weighted_tree.component.ts lays it out and draws it.   *)
(***************************************************************************)
EXTENDS TreeWalk, WeightedTree

CONSTANTS
  Again,     \* the walk options of the later asks
  Self,      \* the self-magnitude of a TreeNode: [path -> Nat]
  MaxAsks,   \* how often the component's series is asked for
  MaxInputs  \* how often a user resizes the window or calls a TreeNode out

ASSUME InputsAssumption == MaxAsks \in Nat /\ MaxInputs \in Nat

\* Trees are finite and have a root, and with a node those above it.
ASSUME TreesAssumption ==
  /\ Walks \subseteq walkOptions /\ Again \subseteq walkOptions
  /\ \A w \in Walks : /\ IsFiniteSet(w.tree) /\ <<>> \in w.tree
                      /\ \A tn \in w.tree : PrefixesOf(tn) \subseteq w.tree /\ Self[tn] \in Nat

VARIABLES
  asks, inputs,
  response,   \* the response that is on its way, or NoResponse
  shown,      \* the response of the latest tree, with the TreeNodes of its nodes
  frames,     \* treeNodes: the tree laid out
  pending,    \* redrawDebouncer waits
  dom,        \* the frames in the document
  calledOut,  \* the TreeNode that the highlight reaction matches
  watching,   \* the subscriptions to highlights: id and TreeNodes of a frame
  lit,        \* the ids of the highlighted frames in the document
  alive       \* ngOnDestroy has not run

serverVars == <<walkVars, asks, response>>
viewVars == <<shown, frames, pending, dom, watching, lit, alive>>
vars == <<serverVars, viewVars, inputs, calledOut>>

NoResponse == [data |-> <<>>, topDown |-> TRUE, tns |-> <<>>, ask |-> 0]
Nowhere == <<0>>

Init ==
  /\ WalkInit /\ asks = 1 /\ inputs = 0
  /\ response = NoResponse /\ shown = NoResponse
  /\ frames = <<>> /\ dom = <<>>
  /\ pending = TRUE     \* ngAfterViewInit resizes
  /\ calledOut = Nowhere /\ watching = {} /\ lit = {} /\ alive = TRUE

-------------------------------------------------------------------------------
(* The data source *)

Walk == WalkNext /\ UNCHANGED <<asks, inputs, response, viewVars, calledOut>>

\* One Node for each SubtreeNode, in an order that puts parents first, and
\* perhaps a payload in the first.
SelfOf(tns) == FoldSet(LAMBDA tn, sum : Self[tn] + sum, 0, tns)
MergedRoot == wo.mergePrefixes # {}
NodeAbove(i) == IF MergedRoot THEN 1 + subtree[i].parent ELSE subtree[i].parent
Nodes ==
  LET build[i \in 0 .. Len(subtree)] ==
        IF i = 0 THEN IF MergedRoot THEN Node(<<>>, NoParent, 0) ELSE <<>>
        ELSE Node(build[i - 1], NodeAbove(i), SelfOf(subtree[i].tns))
  IN build[Len(subtree)]
TreeNodesOf ==
  (IF MergedRoot THEN <<root.tns>> ELSE <<>>) \o [i \in DOMAIN subtree |-> subtree[i].tns]

BuildResponse ==
  /\ status = "done" /\ response = NoResponse
  /\ \E topDown, withPayload \in BOOLEAN :
       response' = [data |-> IF withPayload /\ Nodes # <<>> THEN Payload(Nodes, 1) ELSE Nodes,
                    topDown |-> topDown, tns |-> TreeNodesOf, ask |-> asks]
  /\ status' = "answered"
  /\ UNCHANGED <<wo, heap, subtree, root, added, asks, inputs, viewVars, calledOut>>

\* The series is asked for again, with other options.
AskAgain ==
  /\ status \in {"answered", "failed", "panicked"} /\ asks < MaxAsks /\ alive
  /\ asks' = asks + 1
  /\ \E opts \in Again : wo' = [opts EXCEPT !.tree = wo.tree]
  /\ status' = "new" /\ heap' = {} /\ subtree' = <<>> /\ added' = 0
  /\ root' = [tns |-> {}, prefix |-> FALSE]
  /\ UNCHANGED <<inputs, response, viewVars, calledOut>>

-------------------------------------------------------------------------------
(* The component *)

BadOnResponseKeepsWatching ==
  /\ response # NoResponse /\ alive
  /\ shown' = response
  /\ frames' = renderTree(response.data, response.topDown)
  /\ response' = NoResponse /\ pending' = TRUE
  /\ UNCHANGED <<walkVars, asks, inputs, dom, calledOut, watching, lit, alive>>
\* The series emits a response: the tree is laid out anew, and the highlights of
\* the old one end, as they do with each request to redraw.
OnResponse ==
  /\ response # NoResponse /\ alive
  /\ shown' = response
  /\ frames' = renderTree(response.data, response.topDown)
  /\ response' = NoResponse /\ pending' = TRUE /\ watching' = {}
  /\ UNCHANGED <<walkVars, asks, inputs, dom, calledOut, lit, alive>>

Lost ==  \* the component is gone
  /\ response # NoResponse /\ ~alive
  /\ response' = NoResponse
  /\ UNCHANGED <<walkVars, asks, inputs, viewVars, calledOut>>

\* window:resize
Resize ==
  /\ alive /\ inputs < MaxInputs
  /\ inputs' = inputs + 1
  /\ pending' = TRUE /\ watching' = {}
  /\ UNCHANGED <<serverVars, shown, frames, dom, calledOut, lit, alive>>

Matches(i) == calledOut \in shown.tns[i]

\* redraw(): the document shows the frames, each without a highlight, and then
\* the highlight of each is subscribed to, which tells its state at once.
Redraw ==
  /\ dom' = frames
  /\ lit' = {frames[i].id : i \in {j \in DOMAIN frames : Matches(j)}}
  /\ watching' = watching \union {[id |-> frames[i].id, tns |-> shown.tns[i]] : i \in DOMAIN frames}

RedrawDebounced ==
  /\ alive /\ pending
  /\ pending' = FALSE
  /\ IF shown = NoResponse THEN UNCHANGED <<dom, lit, watching>> ELSE Redraw
  /\ UNCHANGED <<serverVars, inputs, shown, frames, calledOut, alive>>

\* The ResizeObserver redraws without a delay.
RedrawObserved ==
  /\ alive /\ shown # NoResponse /\ inputs < MaxInputs
  /\ inputs' = inputs + 1
  /\ Redraw
  /\ UNCHANGED <<serverVars, pending, shown, frames, calledOut, alive>>

\* A Value that the highlight reaction follows changes: the subscribers change
\* the frames with the ids of their tree nodes.
CallOut(tn) ==
  /\ alive /\ inputs < MaxInputs /\ tn # calledOut
  /\ inputs' = inputs + 1 /\ calledOut' = tn
  /\ LET on == {w \in watching : tn \in w.tns}
         ids(ws) == {w.id : w \in ws}
     IN lit' = (lit \ ids(watching \ on)) \union ids(on)
  /\ UNCHANGED <<serverVars, shown, frames, pending, dom, watching, alive>>

Destroy ==
  /\ alive /\ alive' = FALSE
  /\ pending' = FALSE /\ watching' = {}
  /\ UNCHANGED <<serverVars, inputs, shown, frames, dom, calledOut, lit>>

Next ==
  \/ Walk \/ BuildResponse \/ AskAgain
  \/ OnResponse \/ Lost \/ Resize \/ RedrawDebounced \/ RedrawObserved \/ Destroy
  \/ \E tn \in wo.tree : CallOut(tn)

Spec == Init /\ [][Next]_vars
-------------------------------------------------------------------------------
(* Properties *)

Weights(tns) == FoldSet(LAMBDA tn, sum : Weight[tn] + sum, 0, tns)
NotPrefix(nodes) == {n \in nodes : ~n.prefix}

\* A walk without MaxNodes returns what its options describe, whatever the order
\* of its visits: each TreeNode in sight is in one SubtreeNode, together with
\* those that share its path, below the nearest one that is shown, and no error
\* of Children() is lost on the way (walk.go, Walk and visit).
WalkIsWholeView ==
  status = "done" /\ wo.maxNodes = unspecifiedOption /\ MergesCleanly =>
    /\ Returned = Described
    /\ Len(subtree) = Cardinality(Described)
    /\ \A n \in Returned : n.tns \intersect wo.broken = {}

\* CompareFn may be any.  Those of the tests compare what a TreeNode and all below
\* it add up to, as the heaviest-first order of the package's comment has it.
WeightsAreTotal ==
  \A w \in Walks : \A tn \in w.tree :
    Weight[tn] = FoldSet(LAMBDA d, sum : Self[d] + sum, 0, {d \in w.tree : IsPrefix(tn, d)})

\* A walk with MaxNodes returns as many nodes as it may, and of those in sight the
\* heaviest: none that it left out weighs more than one it returned, if weights
\* are total ones, so that a node weighs at least what those below it do.
HeaviestKept ==
  status = "done" /\ wo.maxNodes # unspecifiedOption /\ MergesCleanly =>
    LET kept == NotPrefix(Returned) wanted == NotPrefix(Described) IN
    /\ kept \subseteq wanted
    /\ Cardinality({i \in DOMAIN subtree : ~subtree[i].prefix}) =
         IF Cardinality(wanted) < wo.maxNodes THEN Cardinality(wanted) ELSE wo.maxNodes
    /\ \A n \in kept, out \in wanted \ kept : Weights(n.tns) >= Weights(out.tns)

\* What a frame covers: its node and what those below cover.
Covered(i) ==
  LET below[k \in DOMAIN shown.data] ==
        {k} \union UNION {below[j] : j \in {c \in DOMAIN frames : shown.data[c].parent = k}}
  IN below[i]

\* Each SubtreeNode gets a frame.  A frame lies in the columns of the one above it
\* in the tree and in the row next to it; frames side by side do not overlap;
\* what a frame covers is what it and those below it weigh; ids count the frames
\* (weighted_tree.ts, renderTree).
FramesNest ==
  LET up(i) == shown.data[i].parent
      Above(f, g) == IF shown.topDown THEN f.y1 = g.y0 ELSE g.y1 = f.y0
  IN /\ DOMAIN frames = DOMAIN shown.tns
     /\ {frames[i].id : i \in DOMAIN frames} = 0 .. Cardinality(DOMAIN frames) - 1
     /\ \A i \in DOMAIN frames :
          /\ frames[i].y0 >= 0 /\ frames[i].y1 <= Height(frames)
          /\ frames[i].x0 >= 0 /\ frames[i].x1 <= wholeWeight(shown.data)
          /\ frames[i].x1 - frames[i].x0 = FoldSet(LAMBDA j, sum : shown.data[j].self + sum, 0, Covered(i))
          /\ up(i) # NoParent =>
               /\ Above(frames[up(i)], frames[i])
               /\ frames[up(i)].x0 <= frames[i].x0 /\ frames[i].x1 <= frames[up(i)].x1
          /\ \A j \in DOMAIN frames : i # j /\ frames[i].y0 = frames[j].y0 =>
               frames[i].x1 <= frames[j].x0 \/ frames[j].x1 <= frames[i].x0

\* When no redraw is due the document shows the latest tree, and of its frames
\* those are highlighted that match what is called out now, though highlights
\* come and go by subscriptions of frames that are no more
\* (weighted_tree.component.ts, redraw and redrawDebouncer).
AtRestDrawn ==
  alive /\ ~pending /\ shown # NoResponse =>
    dom = frames /\ lit = {frames[i].id : i \in {j \in DOMAIN frames : Matches(j)}}
=============================================================================
