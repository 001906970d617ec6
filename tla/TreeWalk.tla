------------------------------- MODULE TreeWalk -------------------------------
(***************************************************************************)
(* Walk() of server/go/weighted_tree/walk.go: a heaviest-first traversal   *)
(* of a weighted tree that returns a view of it.  A TreeNode is its path,  *)
(* and a tree a set of paths closed under prefixes.                        *)
(***************************************************************************)
EXTENDS Integers, SequencesExt, FiniteSets

CONSTANTS
  Walks,   \* the trees and walk options of one call, see walkOptions
  Weight   \* what CompareFn orders TreeNodes by: [path -> Nat]

VARIABLES
  wo,       \* walkOptions, with the tree: does not change
  status,   \* "new", "walking", "done", "failed", "panicked"
  heap,     \* walkHeap: a set of walkHeapEntries
  subtree,  \* the SubtreeNodes in the order in which they are made
  root,     \* of subtreeRoot: the TreeNodes, and is it within the prefix?
  added     \* addedNodes

walkVars == <<wo, status, heap, subtree, root, added>>

unspecifiedOption == -1
Nil == 0   \* no parent
NoNode == <<0>>  \* a nil prefixTreeNode

Path == Seq(Nat \ {0})  \* of scopes; none is 0, because of NoNode
walkOptions ==
  [tree : SUBSET Path, broken : SUBSET Path,  \* the TreeNodes whose Children() fail
   mergePrefixes : SUBSET Path, pathPrefixes : SUBSET Path, elidePrefix : BOOLEAN,
   maxDepth : Nat \union {unspecifiedOption}, maxNodes : Nat \union {unspecifiedOption},
   filteredIn : SUBSET Path, elided : SUBSET Path]

-------------------------------------------------------------------------------
(* Prefix trees: the set of the paths of their nodes. *)

PrefixesOf(path) == {SubSeq(path, 1, k) : k \in 0 .. Len(path)}

\* addPath with leaves that can have children: the union of all paths.
PathTree(paths) == UNION {PrefixesOf(p) : p \in paths}

\* addPath with leaves that cannot: a path beyond a leaf ends at that leaf, and
\* a new leaf loses its children, whichever is added first.
MergeTree(paths) ==
  PathTree({p \in paths : \A q \in paths : ~IsStrictPrefix(q, p)})

PrefixChildren(ptree, ptn) == {p \in ptree : ptn # NoNode /\ p # <<>> /\ Front(p) = ptn}
OnPrefix(ptree, ptn) == PrefixChildren(ptree, ptn) # {}
Descend(ptree, ptn, scope) ==
  IF ptn # NoNode /\ Append(ptn, scope) \in ptree THEN Append(ptn, scope) ELSE NoNode

-------------------------------------------------------------------------------
(* One entry of the heap.  tns are its TreeNodes, ptn its prefixTreeNode,   *)
(* parent the index of its parent in subtree.                               *)

EntryWeight(e) == FoldSet(LAMBDA tn, sum : Weight[tn] + sum, 0, e.tns)

\* The TreeNodes below tn on the way to which all are filtered in, on the prefix
\* tree and elided: elided ones stand for their children, on the same ptn.
Below(ptn, tn) ==
  LET next == PrefixChildren(PathTree(wo.pathPrefixes), ptn)
  IN {d \in wo.tree : IsStrictPrefix(tn, d)
        /\ \A k \in Len(tn) + 1 .. Len(d) :
             /\ SubSeq(d, 1, k) \in wo.filteredIn
             /\ next # {} => Append(ptn, d[k]) \in next
             /\ k < Len(d) => SubSeq(d, 1, k) \in wo.elided}
treeNodeChildren(ptn, tn) == Below(ptn, tn) \ wo.elided

\* The TreeNodes whose Children() that takes: tn and the elided ones below it.
Asked(ptn, tn) == {tn} \union (Below(ptn, tn) \intersect wo.elided)

newWalkHeapRoot == [path |-> <<>>, tns |-> {<<>>}, parent |-> Nil,
                    ptn |-> IF wo.pathPrefixes = {} THEN NoNode ELSE <<>>]

newWalkHeapEntry(ptn, scope, tns, parent, parentPath) ==
  [path |-> Append(parentPath, scope), tns |-> tns, parent |-> parent,
   ptn |-> Descend(PathTree(wo.pathPrefixes), ptn, scope)]

\* One entry for each scope among the last ones of the TreeNodes.
EntriesByScope(ptn, tns, parent, parentPath) ==
  {newWalkHeapEntry(ptn, scope, {tn \in tns : Last(tn) = scope}, parent, parentPath) :
     scope \in {Last(tn) : tn \in tns}}

BadChildEntriesTwins(e, parent, path) ==
  UNION {EntriesByScope(e.ptn, treeNodeChildren(e.ptn, tn), parent, path) : tn \in e.tns}
childEntries(e, parent, path) ==
  EntriesByScope(e.ptn, UNION {treeNodeChildren(e.ptn, tn) : tn \in e.tns}, parent, path)

\* SubtreeNodes above an entry up to the first that lies within the prefix.
AncestorsBelowPrefix(parent) ==
  LET up[i \in 0 .. Len(subtree)] ==
        IF i = Nil \/ (i # Nil /\ subtree[i].prefix) THEN 0 ELSE 1 + up[subtree[i].parent]
  IN up[parent]
TooDeep(e) ==
  wo.maxDepth # unspecifiedOption /\ 1 + AncestorsBelowPrefix(e.parent) > wo.maxDepth

IsPrefixEntry(e) == OnPrefix(PathTree(wo.pathPrefixes), e.ptn)
IsReturned(e) == ~wo.elidePrefix \/ ~IsPrefixEntry(e) \/ e.parent = Nil

-------------------------------------------------------------------------------
(* Walk() *)

\* The TreeNodes at the leaves of the merge prefix tree.  Children() comes in
\* the order of scopes; its first error ends the search, and is dropped.
LexBefore(p, q) ==
  \/ IsStrictPrefix(p, q)
  \/ \E k \in 1 .. Len(p) : k <= Len(q) /\ p[k] < q[k] /\ SubSeq(p, 1, k - 1) = SubSeq(q, 1, k - 1)
MergeLeaves(mtree, tree) == {p \in mtree : PrefixChildren(mtree, p) = {} /\ p \in tree}
FoundLeaves(mtree) ==
  {p \in MergeLeaves(mtree, wo.tree) :
     ~\E b \in wo.broken \intersect wo.tree \intersect mtree :
        OnPrefix(mtree, b) /\ LexBefore(b, p)}

WalkInit ==
  /\ wo \in Walks
  /\ status = "new" /\ heap = {} /\ subtree = <<>> /\ added = 0
  /\ root = [tns |-> {}, prefix |-> FALSE]

\* MergePrefix() without any scope names the root, which has no last scope.
StartMerge ==
  /\ status = "new" /\ wo.mergePrefixes # {}
  /\ LET mtree == MergeTree(wo.mergePrefixes)
         ptn == IF wo.pathPrefixes = {} THEN NoNode ELSE <<>>
     IN IF mtree = {<<>>}
        THEN status' = "panicked" /\ UNCHANGED <<heap, root>>
        ELSE /\ status' = "walking"
             /\ heap' = EntriesByScope(ptn, FoundLeaves(mtree), Nil, <<>>)
             /\ root' = [root EXCEPT !.prefix = wo.pathPrefixes # {}]
  /\ UNCHANGED <<wo, subtree, added>>

StartAtRoot ==
  /\ status = "new" /\ wo.mergePrefixes = {}
  /\ status' = "walking" /\ heap' = {newWalkHeapRoot}
  /\ UNCHANGED <<wo, subtree, root, added>>

BadMoreToVisitOffByOne ==
  heap # {} /\ (wo.maxNodes = unspecifiedOption \/ added <= wo.maxNodes)
MoreToVisit == heap # {} /\ (wo.maxNodes = unspecifiedOption \/ added < wo.maxNodes)

Heaviest == {e \in heap : \A f \in heap : EntryWeight(e) >= EntryWeight(f)}

\* One round of the loop: pop the heaviest entry and visit it.
Skip(e) ==
  /\ TooDeep(e)
  /\ heap' = heap \ {e}
  /\ UNCHANGED <<status, subtree, root, added>>

Fail(e) ==
  /\ ~TooDeep(e)
  /\ \E tn \in e.tns : Asked(e.ptn, tn) \intersect wo.broken # {}
  /\ status' = "failed"
  /\ UNCHANGED <<heap, subtree, root, added>>

Return(e) ==
  LET stn == [parent |-> e.parent, path |-> e.path, tns |-> e.tns, prefix |-> IsPrefixEntry(e)]
  IN /\ subtree' = Append(subtree, stn)
     /\ heap' = (heap \ {e}) \union childEntries(e, Len(subtree'), e.path)
     /\ root' = IF e.parent # Nil THEN root
                ELSE [tns |-> root.tns \union e.tns,
                      prefix |-> IF wo.mergePrefixes = {} THEN stn.prefix ELSE root.prefix]
     /\ added' = IF stn.prefix THEN added ELSE added + 1

\* The entry lies within an elided prefix: its parent stands for it.
Elide(e) ==
  /\ heap' = (heap \ {e}) \union childEntries(e, e.parent, subtree[e.parent].path)
  /\ added' = IF subtree[e.parent].prefix THEN added ELSE added + 1
  /\ UNCHANGED <<subtree, root>>

Visit(e) ==
  /\ status = "walking" /\ MoreToVisit /\ e \in Heaviest
  /\ \/ Skip(e)
     \/ Fail(e)
     \/ /\ ~TooDeep(e)
        /\ \A tn \in e.tns : Asked(e.ptn, tn) \intersect wo.broken = {}
        /\ IF IsReturned(e) THEN Return(e) ELSE Elide(e)
        /\ UNCHANGED status
  /\ UNCHANGED wo

Finish ==
  /\ status = "walking" /\ ~MoreToVisit
  /\ status' = "done"
  /\ UNCHANGED <<wo, heap, subtree, root, added>>

WalkNext == StartMerge \/ StartAtRoot \/ (\E e \in heap : Visit(e)) \/ Finish

-------------------------------------------------------------------------------
(* The view that the options describe, without any order of visits.         *)

Starts == IF wo.mergePrefixes = {} THEN {<<>>}
          ELSE MergeLeaves(MergeTree(wo.mergePrefixes), wo.tree)

\* What is left of the path from a start to tn without the elided nodes.
VisiblePath(start, tn) ==
  LET kept == {k \in Len(start) + 1 .. Len(tn) : SubSeq(tn, 1, k) \notin wo.elided}
      visible[k \in Len(start) .. Len(tn)] ==
        IF k = Len(start) THEN IF start = <<>> THEN <<>> ELSE <<Last(start)>>
        ELSE IF k \in kept THEN Append(visible[k - 1], tn[k]) ELSE visible[k - 1]
  IN visible[Len(tn)]

\* Is the path kept by the path prefixes?  Beyond their leaves all are.
KeptByPrefixes(path) ==
  wo.pathPrefixes = {} \/ path \in PathTree(wo.pathPrefixes)
  \/ \E p \in wo.pathPrefixes : IsStrictPrefix(p, path) /\ ~OnPrefix(PathTree(wo.pathPrefixes), p)

\* The TreeNodes in sight, with their visible paths.
InSight ==
  {[tn |-> st[2], path |-> VisiblePath(st[1], st[2])] : st \in
     {st \in Starts \X wo.tree :
        /\ IsPrefix(st[1], st[2])
        /\ st[2] = st[1] \/ st[2] \notin wo.elided
        /\ \A k \in Len(st[1]) + 1 .. Len(st[2]) :
             /\ SubSeq(st[2], 1, k) \in wo.filteredIn
             /\ KeptByPrefixes(Append(VisiblePath(st[1], SubSeq(st[2], 1, k - 1)), st[2][k]))}}

\* One node for each visible path, but for those within an elided prefix and
\* those too deep: more than maxDepth from the last node within the prefix.
Described ==
  LET sight == InSight
      paths == {n.path : n \in sight}
      within == {p \in paths : OnPrefix(PathTree(wo.pathPrefixes), p)}
      tops == {p \in paths : ~\E q \in paths : IsStrictPrefix(q, p)}
      Depth(p) == Cardinality({q \in paths : IsPrefix(q, p) /\ ~\E w \in within \ {p} : IsPrefix(q, w) /\ IsPrefix(w, p)})
      view == {p \in paths :
                 /\ wo.elidePrefix => p \in tops \/ p \notin within
                 /\ wo.maxDepth # unspecifiedOption =>
                      \A q \in paths : IsPrefix(q, p) => Depth(q) <= wo.maxDepth}
      NodesAt(p) == {n.tn : n \in {m \in sight : m.path = p}}
      ParentOf(p) == {q \in view : IsStrictPrefix(q, p) /\ ~\E r \in view : IsStrictPrefix(q, r) /\ IsStrictPrefix(r, p)}
  IN {[tns |-> NodesAt(p), prefix |-> p \in within, parent |-> UNION {NodesAt(q) : q \in ParentOf(p)}] : p \in view}
Returned ==
  {[tns |-> subtree[i].tns, prefix |-> subtree[i].prefix,
    parent |-> IF subtree[i].parent = Nil THEN {} ELSE subtree[subtree[i].parent].tns] :
     i \in DOMAIN subtree}

\* Where no MergePrefix runs into an error, nor into the path prefixes.
MergesCleanly ==
  wo.mergePrefixes = {} \/
    /\ wo.broken = {}
    /\ \A p \in Starts : KeptByPrefixes(<<Last(p)>>)
=============================================================================
