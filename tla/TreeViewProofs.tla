---------------------------- MODULE TreeViewProofs ----------------------------
(***************************************************************************)
(* Proofs about TreeView, for any trees, walk options and number of asks:  *)
(* that at rest the document shows the latest tree with the highlights of  *)
(* now, that a walk returns parents before their children, that the frames *)
(* of what it returns nest, and that it returns what its options describe: *)
(* all of it without MaxNodes, the heaviest of it with them.               *)
(***************************************************************************)
EXTENDS TreeView, Inductions, SequenceTheorems

(***************************************************************************)
(* The document.  What is watched are frames of the tree that is shown,    *)
(* also while a redraw is due; so a change of what is called out reaches   *)
(* no frame that is no more.  When none is due all frames are watched and  *)
(* only frames are lit.                                                    *)
(***************************************************************************)
Watched == {[id |-> frames[i].id, tns |-> shown.tns[i]] : i \in DOMAIN frames}
LitNow == {frames[i].id : i \in {j \in DOMAIN frames : Matches(j)}}

AtRest == alive /\ ~pending /\ shown # NoResponse

DocumentInv ==
  /\ watching \subseteq Watched
  /\ AtRest => dom = frames /\ watching = Watched /\ lit = LitNow

LEMMA InitialDocument == Init => DocumentInv
BY DEF Init, DocumentInv, AtRest

\* A step that leaves what is shown and watched alone, or ends the watching and
\* leaves a redraw due.
LEMMA QuietKeeps ==
  ASSUME DocumentInv, UNCHANGED <<shown, frames, pending, dom, watching, lit, alive, calledOut>>
  PROVE  DocumentInv'
BY DEF DocumentInv, Watched, LitNow, AtRest, Matches

LEMMA DueKeeps ==
  ASSUME watching' = {}, pending' \/ ~alive'
  PROVE  DocumentInv'
BY DEF DocumentInv, AtRest

\* A redraw shows, watches and lights the frames of what is shown.
LEMMA RedrawKeeps ==
  ASSUME DocumentInv, Redraw, UNCHANGED <<shown, frames, calledOut>>
  PROVE  DocumentInv'
<1>1. Watched' = Watched /\ LitNow' = LitNow
  BY DEF Watched, LitNow, Matches
<1>2. dom' = frames /\ watching' = watching \union Watched /\ lit' = LitNow
  BY DEF Redraw, Watched, LitNow
<1> QED BY <1>1, <1>2 DEF DocumentInv

\* Those who watch bring their frames in line with what is called out; no two
\* of one frame disagree, for all have the TreeNodes that are shown.
LEMMA CallOutKeeps ==
  ASSUME DocumentInv, NEW tn, CallOut(tn)
  PROVE  DocumentInv'
<1>1. Watched' = Watched /\ UNCHANGED <<shown, frames, pending, dom, watching, alive>>
  BY DEF CallOut, Watched
<1>2. SUFFICES ASSUME AtRest
               PROVE  lit' = LitNow'
  BY <1>1 DEF DocumentInv, AtRest
<1>3. watching = Watched /\ lit \subseteq {w.id : w \in watching}
  <2>1. watching = Watched /\ lit = LitNow
    BY <1>2 DEF DocumentInv
  <2>2. \A i \in DOMAIN frames : frames[i].id \in {w.id : w \in Watched}
    <3>1. TAKE i \in DOMAIN frames
    <3> DEFINE w == [id |-> frames[i].id, tns |-> shown.tns[i]]
    <3>2. w \in Watched /\ w.id = frames[i].id
      BY DEF Watched
    <3> QED BY <3>2
  <2> QED BY <2>1, <2>2 DEF LitNow
<1> DEFINE on == {w \in watching : tn \in w.tns}
<1>4. lit' = (lit \ {w.id : w \in watching \ on}) \union {w.id : w \in on}
  BY DEF CallOut
<1>5. lit' = {w.id : w \in on}
  BY <1>3, <1>4
<1>6. LitNow' = {frames[i].id : i \in {j \in DOMAIN frames : tn \in shown.tns[j]}}
  BY <1>1 DEF LitNow, Matches, CallOut
<1>7. {w.id : w \in on} = {frames[i].id : i \in {j \in DOMAIN frames : tn \in shown.tns[j]}}
  <2>1. ASSUME NEW w \in on
        PROVE  w.id \in {frames[i].id : i \in {j \in DOMAIN frames : tn \in shown.tns[j]}}
    BY <1>3, <2>1 DEF Watched
  <2>2. ASSUME NEW i \in DOMAIN frames, tn \in shown.tns[i]
        PROVE  frames[i].id \in {w.id : w \in on}
    <3> DEFINE w == [id |-> frames[i].id, tns |-> shown.tns[i]]
    <3>1. w \in on /\ w.id = frames[i].id
      BY <1>3, <2>2 DEF Watched
    <3> QED BY <3>1
  <2> QED BY <2>1, <2>2
<1> QED BY <1>5, <1>6, <1>7

LEMMA NextKeepsDocument ==
  ASSUME DocumentInv, [Next]_vars
  PROVE  DocumentInv'
<1>1. CASE Walk
  BY <1>1, QuietKeeps DEF Walk, viewVars
<1>2. CASE BuildResponse
  BY <1>2, QuietKeeps DEF BuildResponse, viewVars
<1>3. CASE AskAgain
  BY <1>3, QuietKeeps DEF AskAgain, viewVars
<1>4. CASE OnResponse
  BY <1>4, DueKeeps DEF OnResponse
<1>5. CASE Lost
  BY <1>5, QuietKeeps DEF Lost, viewVars
<1>6. CASE Resize
  BY <1>6, DueKeeps DEF Resize
<1>7. CASE RedrawDebounced
  <2>1. CASE shown = NoResponse
    BY <1>7, <2>1 DEF RedrawDebounced, DocumentInv, AtRest, Watched
  <2>2. CASE shown # NoResponse
    BY <1>7, <2>2, RedrawKeeps DEF RedrawDebounced
  <2> QED BY <2>1, <2>2
<1>8. CASE RedrawObserved
  BY <1>8, RedrawKeeps DEF RedrawObserved
<1>9. CASE Destroy
  BY <1>9, DueKeeps DEF Destroy
<1>10. CASE \E tn \in wo.tree : CallOut(tn)
  BY <1>10, CallOutKeeps
<1>11. CASE UNCHANGED vars
  BY <1>11, QuietKeeps DEF vars, viewVars
<1> QED BY <1>1, <1>2, <1>3, <1>4, <1>5, <1>6, <1>7, <1>8, <1>9, <1>10, <1>11 DEF Next

(***************************************************************************)
(* weighted_tree.component.ts: when no redraw is due, the document shows   *)
(* the latest tree and highlights the frames that match what is called out *)
(* now, however responses, resizes and call-outs came together.            *)
(***************************************************************************)
THEOREM ShowsLatestTree == Spec => []AtRestDrawn
<1>1. Init => DocumentInv
  BY InitialDocument
<1>2. DocumentInv /\ [Next]_vars => DocumentInv'
  BY NextKeepsDocument
<1>3. DocumentInv => AtRestDrawn
  BY DEF DocumentInv, AtRestDrawn, AtRest, LitNow
<1> QED BY <1>1, <1>2, <1>3, PTL DEF Spec

-----------------------------------------------------------------------------
(* The walk *)

\* A SubtreeNode has its parent, or the subtree's root, before itself: what is
\* written into the response and added up by the client goes by this order.
ParentsFirst == \A i \in DOMAIN subtree : subtree[i].parent \in 0 .. i - 1

(***************************************************************************)
(* The inductive invariant: entries that wait have parents that were made. *)
(***************************************************************************)
WalkInv ==
  /\ Len(subtree) \in Nat /\ DOMAIN subtree = 1 .. Len(subtree)
  /\ \A e \in heap : e.parent \in 0 .. Len(subtree)
  /\ ParentsFirst

LEMMA EntryParent ==
  ASSUME NEW ptn, NEW tns, NEW parent, NEW path, NEW e \in EntriesByScope(ptn, tns, parent, path)
  PROVE  e.parent = parent
BY DEF EntriesByScope, newWalkHeapEntry

LEMMA ReturnKeeps ==
  ASSUME WalkInv, NEW e \in heap, Return(e)
  PROVE  WalkInv'
<1> DEFINE stn == [parent |-> e.parent, path |-> e.path, tns |-> e.tns, prefix |-> IsPrefixEntry(e)]
           n == Len(subtree)
<1>1. subtree' = Append(subtree, stn) /\ n \in Nat /\ e.parent \in 0 .. n
  BY DEF Return, WalkInv
<1>2. Len(subtree') = n + 1 /\ DOMAIN subtree' = 1 .. n + 1
  BY <1>1
<1>3. \A i \in 1 .. n : subtree'[i] = subtree[i]
  BY <1>1
<1>4. subtree'[n + 1].parent = e.parent
  BY <1>1
<1>5. \A f \in heap' : f \in heap \/ f.parent = n + 1
  BY <1>2, EntryParent DEF Return, childEntries
<1>6. ParentsFirst'
  BY <1>1, <1>2, <1>3, <1>4 DEF ParentsFirst, WalkInv
<1> QED BY <1>1, <1>2, <1>5, <1>6 DEF WalkInv

\* An elided entry leaves its children to its parent.
LEMMA ElideKeeps ==
  ASSUME WalkInv, NEW e \in heap, Elide(e)
  PROVE  WalkInv'
<1>1. UNCHANGED subtree /\ e.parent \in 0 .. Len(subtree)
  BY DEF Elide, WalkInv
<1>2. \A f \in heap' : f \in heap \/ f.parent = e.parent
  BY EntryParent DEF Elide, childEntries
<1> QED BY <1>1, <1>2 DEF WalkInv, ParentsFirst

LEMMA NextKeepsWalk ==
  ASSUME WalkInv, [Next]_vars
  PROVE  WalkInv'
<1>1. CASE heap' \subseteq heap /\ UNCHANGED subtree
  BY <1>1 DEF WalkInv, ParentsFirst
<1>2. CASE StartMerge
  <2>1. UNCHANGED subtree /\ \A e \in heap' : e \in heap \/ e.parent = 0
    BY <1>2, EntryParent DEF StartMerge, Nil
  <2> QED BY <2>1 DEF WalkInv, ParentsFirst
<1>3. CASE StartAtRoot
  <2>1. UNCHANGED subtree /\ \A e \in heap' : e.parent = 0
    BY <1>3 DEF StartAtRoot, newWalkHeapRoot, Nil
  <2> QED BY <2>1 DEF WalkInv, ParentsFirst
<1>4. ASSUME NEW e \in heap, Visit(e)
      PROVE  WalkInv'
  BY <1>1, <1>4, ReturnKeeps, ElideKeeps DEF Visit, Skip, Fail
<1>5. CASE Finish
  BY <1>1, <1>5 DEF Finish
<1>6. CASE AskAgain
  <2>1. heap' = {} /\ subtree' = <<>>
    BY <1>6 DEF AskAgain
  <2> QED BY <2>1 DEF WalkInv, ParentsFirst
<1>7. CASE Walk
  BY <1>2, <1>3, <1>4, <1>5, <1>7 DEF Walk, WalkNext
<1>8. CASE BuildResponse
  BY <1>1, <1>8 DEF BuildResponse
<1>9. CASE UNCHANGED serverVars
  BY <1>1, <1>9 DEF serverVars, walkVars
<1>10. CASE OnResponse \/ Lost
  BY <1>1, <1>10 DEF OnResponse, Lost, walkVars
<1>11. CASE Resize \/ RedrawDebounced \/ RedrawObserved \/ Destroy \/ \E tn \in wo.tree : CallOut(tn)
  BY <1>9, <1>11 DEF Resize, RedrawDebounced, RedrawObserved, Destroy, CallOut
<1>12. CASE UNCHANGED vars
  BY <1>9, <1>12 DEF vars
<1> QED BY <1>6, <1>7, <1>8, <1>10, <1>11, <1>12 DEF Next

(***************************************************************************)
(* Walk(): whatever the options and weights, parents come before their     *)
(* children in what it returns.                                            *)
(***************************************************************************)
THEOREM WalksDown == Spec => []ParentsFirst
<1>1. Init => WalkInv
  BY DEF Init, WalkInit, WalkInv, ParentsFirst
<1>2. WalkInv /\ [Next]_vars => WalkInv'
  BY NextKeepsWalk
<1>3. WalkInv => ParentsFirst
  BY DEF WalkInv
<1> QED BY <1>1, <1>2, <1>3, PTL DEF Spec

-----------------------------------------------------------------------------
(* Trees: the nodes of a response, parents first.  Who is above whom, and where
   two nodes part, decides what lies left of each. *)

\* A tree of n nodes, perhaps with a payload behind them.
Tree(data, n) ==
  /\ n \in Nat
  /\ DOMAIN data \in {1 .. n, 1 .. n + 1}
  /\ \A i \in DOMAIN data : data[i].parent \in 0 .. i - 1 /\ data[i].self \in Nat
  /\ \A i \in 1 .. n : data[i].payload = FALSE
  /\ n + 1 \in DOMAIN data => data[n + 1].payload = TRUE

Higher(data, i) == IF data[i].parent = NoParent THEN {} ELSE Lineage(data, data[i].parent)

LEMMA TreeBasics ==
  ASSUME NEW data, NEW n, Tree(data, n)
  PROVE  /\ n \in Nat
         /\ 1 .. n \subseteq DOMAIN data
         /\ structural(data) = 1 .. n
         /\ \A i \in 1 .. n : data[i].parent \in 0 .. i - 1 /\ data[i].self \in Nat
<1>1. n \in Nat /\ 1 .. n \subseteq DOMAIN data /\ DOMAIN data \subseteq 1 .. n + 1
  BY DEF Tree
<1>2. \A i \in 1 .. n : data[i].parent \in 0 .. i - 1 /\ data[i].self \in Nat
  BY <1>1 DEF Tree
<1>3. ASSUME NEW i \in DOMAIN data
      PROVE  ~data[i].payload <=> i \in 1 .. n
  <2>1. CASE i \in 1 .. n
    BY <2>1 DEF Tree
  <2>2. CASE i \notin 1 .. n
    <3>1. i = n + 1
      BY <1>1, <2>2
    <3>2. data[n + 1].payload = TRUE
      BY <3>1 DEF Tree
    <3>3. QED  BY <2>2, <3>1, <3>2
  <2>3. QED  BY <2>1, <2>2
<1>4. structural(data) = 1 .. n
  BY <1>1, <1>3 DEF structural
<1>5. QED  BY <1>1, <1>2, <1>4

\* The sets that with a node have the node above it: their least one is the
\* lineage.
LEMMA LineageIs ==
  ASSUME NEW data, NEW n, Tree(data, n), NEW i \in 1 .. n
  PROVE  Lineage(data, i) = {i} \union Higher(data, i)
<1> DEFINE D == DOMAIN data
           Closed(A) == \A k \in A : data[k].parent # NoParent => data[k].parent \in A
           Least(j) == {k \in D : \A A \in SUBSET D : j \in A /\ Closed(A) => k \in A}
           f == [j \in D |-> Least(j)]
<1>1. \A j \in D : data[j].parent # NoParent => data[j].parent \in D
  BY DEF Tree, NoParent
<1>2. ASSUME NEW j \in D
      PROVE  f[j] = {j} \union (IF data[j].parent = NoParent THEN {} ELSE f[data[j].parent])
  <2>1. CASE data[j].parent = NoParent
    <3>1. {j} \in SUBSET D /\ Closed({j})
      BY <2>1
    <3>2. Least(j) = {j}
      <4> HIDE DEF Closed
      <4>1. QED  BY <3>1
    <3>3. QED  BY <2>1, <3>2
  <2>2. CASE data[j].parent # NoParent
    <3> DEFINE p == data[j].parent
               B == {j} \union Least(p)
    <3>1. p \in D
      BY <1>1, <2>2
    <3>2. Least(p) \subseteq Least(j)
      BY <2>2, <3>1
    <3>3. p \in Least(p)
      BY <3>1
    <3>4. Closed(Least(p))
      BY <1>1
    <3>5. B \in SUBSET D /\ j \in B /\ Closed(B)
      <4> HIDE DEF Least
      <4>1. Least(p) \subseteq D
        BY DEF Least
      <4>2. QED  BY <3>3, <3>4, <4>1
    <3>6. Least(j) \subseteq B
      <4> HIDE DEF Closed, B
      <4>1. QED  BY <3>5
    <3>7. j \in Least(j)
      OBVIOUS
    <3>8. Least(j) = {j} \union Least(p)
      <4> HIDE DEF Least
      <4>1. QED  BY <3>2, <3>6, <3>7
    <3>9. f[j] = Least(j) /\ f[p] = Least(p)
      <4> HIDE DEF Least
      <4>1. QED  BY <3>1
    <3> HIDE DEF Least, f
    <3>10. QED  BY <2>2, <3>8, <3>9
  <2>3. QED  BY <2>1, <2>2
<1> DEFINE Is(up) == up = [j \in DOMAIN data |-> {j} \union (IF data[j].parent = NoParent THEN {} ELSE up[data[j].parent])]
<1>3. Is(f)
  <2>1. f = [j \in DOMAIN data |-> f[j]]
    OBVIOUS
  <2> HIDE DEF f
  <2>2. QED  BY <1>2, <2>1, Zenon
<1>4. \A j : Lineage(data, j) = (CHOOSE up : Is(up))[j]
  BY DEF Lineage
<1>5. PICK up : Is(up) /\ \A j : Lineage(data, j) = up[j]
  <2>1. Is(CHOOSE up : Is(up))
    <3> HIDE DEF f, Is
    <3>1. QED  BY <1>3
  <2> HIDE DEF Is
  <2>2. QED  BY <1>4, <2>1
<1>6. i \in DOMAIN data
  BY TreeBasics
<1>7. up[i] = {i} \union (IF data[i].parent = NoParent THEN {} ELSE up[data[i].parent])
  BY <1>5, <1>6
<1>8. QED  BY <1>5, <1>7 DEF Higher

LEMMA LineageBelow ==
  ASSUME NEW data, NEW n, Tree(data, n)
  PROVE  \A i \in 1 .. n : i \in Lineage(data, i) /\ Lineage(data, i) \subseteq 1 .. i
<1> DEFINE T == {i \in 1 .. n : Lineage(data, i) \subseteq 1 .. i}
<1>1. ASSUME NEW i \in 1 .. n, \A j \in 1 .. i - 1 : j \in T
      PROVE  i \in T
  <2>1. data[i].parent \in 0 .. i - 1
    BY TreeBasics
  <2>2. Lineage(data, i) = {i} \union Higher(data, i)
    BY LineageIs
  <2>3. CASE data[i].parent = NoParent
    BY <2>2, <2>3 DEF Higher
  <2>4. CASE data[i].parent # NoParent
    <3>1. data[i].parent \in 1 .. i - 1
      BY <2>1, <2>4 DEF NoParent
    <3>2. Lineage(data, data[i].parent) \subseteq 1 .. data[i].parent
      BY <1>1, <3>1
    <3>3. Higher(data, i) \subseteq 1 .. i
      BY <2>4, <3>1, <3>2 DEF Higher
    <3>4. QED  BY <2>2, <3>3
  <2>5. QED  BY <2>3, <2>4
<1>2. n \in Nat
  BY DEF Tree
<1>3. \A i \in 1 .. n : i \in T
  <2> HIDE DEF T
  <2>1. QED  BY <1>1, <1>2, ByEarlier
<1>4. \A i \in 1 .. n : i \in Lineage(data, i)
  BY LineageIs
<1>5. QED  BY <1>3, <1>4

\* What is above a node is what is above its parent.
LEMMA GoUp ==
  ASSUME NEW data, NEW n, Tree(data, n), NEW i \in 1 .. n, NEW a \in Lineage(data, i), a # i
  PROVE  /\ data[i].parent \in 1 .. n /\ data[i].parent < i /\ data[i].parent # NoParent
         /\ a \in Lineage(data, data[i].parent)
<1>1. a \in Higher(data, i)
  BY LineageIs
<1>2. data[i].parent # NoParent /\ a \in Lineage(data, data[i].parent)
  BY <1>1 DEF Higher
<1>3. data[i].parent \in 0 .. i - 1 /\ n \in Nat
  BY TreeBasics
<1>4. QED  BY <1>2, <1>3 DEF NoParent

LEMMA GoDown ==
  ASSUME NEW data, NEW n, Tree(data, n), NEW i \in 1 .. n, data[i].parent # NoParent
  PROVE  /\ data[i].parent \in 1 .. n /\ data[i].parent < i
         /\ Lineage(data, i) = {i} \union Lineage(data, data[i].parent)
<1>1. data[i].parent \in 0 .. i - 1 /\ n \in Nat
  BY TreeBasics
<1>2. QED  BY <1>1, LineageIs DEF Higher, NoParent

LEMMA InLineage ==
  ASSUME NEW data, NEW n, Tree(data, n), NEW i \in 1 .. n, NEW a \in Lineage(data, i)
  PROVE  a \in 1 .. n /\ a <= i
<1>1. Lineage(data, i) \subseteq 1 .. i /\ n \in Nat
  BY LineageBelow, TreeBasics
<1>2. QED  BY <1>1

LEMMA LineageOfAbove ==
  ASSUME NEW data, NEW n, Tree(data, n)
  PROVE  \A i \in 1 .. n : \A a \in Lineage(data, i) : Lineage(data, a) \subseteq Lineage(data, i)
<1> DEFINE T == {i \in 1 .. n : \A a \in Lineage(data, i) : Lineage(data, a) \subseteq Lineage(data, i)}
<1>1. ASSUME NEW i \in 1 .. n, \A j \in 1 .. i - 1 : j \in T
      PROVE  i \in T
  <2>1. SUFFICES ASSUME NEW a \in Lineage(data, i), a # i
                 PROVE  Lineage(data, a) \subseteq Lineage(data, i)
    OBVIOUS
  <2> DEFINE p == data[i].parent
  <2>2. p \in 1 .. n /\ p < i /\ p # NoParent /\ a \in Lineage(data, p)
    BY <2>1, GoUp
  <2>3. p \in T
    <3> HIDE DEF T
    <3>1. p \in 1 .. i - 1
      BY <2>2
    <3>2. QED  BY <1>1, <3>1
  <2>4. Lineage(data, i) = {i} \union Lineage(data, p)
    BY <2>2, GoDown
  <2>5. QED  BY <2>2, <2>3, <2>4
<1>2. n \in Nat
  BY DEF Tree
<1>3. \A i \in 1 .. n : i \in T
  <2> HIDE DEF T
  <2>1. QED  BY <1>1, <1>2, ByEarlier
<1>4. QED  BY <1>3

\* Of two nodes of a lineage one is above the other.
LEMMA LineageIsChain ==
  ASSUME NEW data, NEW n, Tree(data, n)
  PROVE  \A i \in 1 .. n : \A a, b \in Lineage(data, i) : a <= b => a \in Lineage(data, b)
<1> DEFINE T == {i \in 1 .. n : \A a, b \in Lineage(data, i) : a <= b => a \in Lineage(data, b)}
<1>1. ASSUME NEW i \in 1 .. n, \A j \in 1 .. i - 1 : j \in T
      PROVE  i \in T
  <2>1. SUFFICES ASSUME NEW a \in Lineage(data, i), NEW b \in Lineage(data, i), a <= b
                 PROVE  a \in Lineage(data, b)
    OBVIOUS
  <2>2. CASE b = i
    BY <2>2
  <2>3. CASE b # i
    <3> DEFINE p == data[i].parent
    <3>1. a # i
      BY <2>1, <2>3, InLineage
    <3>2. p \in 1 .. n /\ p < i /\ a \in Lineage(data, p) /\ b \in Lineage(data, p)
      BY <2>3, <3>1, GoUp
    <3>3. p \in T
      <4> HIDE DEF T
      <4>1. p \in 1 .. i - 1
        BY <3>2
      <4>2. QED  BY <1>1, <4>1
    <3>4. QED  BY <2>1, <3>2, <3>3
  <2>4. QED  BY <2>2, <2>3
<1>2. n \in Nat
  BY DEF Tree
<1>3. \A i \in 1 .. n : i \in T
  <2> HIDE DEF T
  <2>1. QED  BY <1>1, <1>2, ByEarlier
<1>4. QED  BY <1>3

\* No two of them are siblings.
LEMMA NoSiblings ==
  ASSUME NEW data, NEW n, Tree(data, n), NEW i \in 1 .. n,
         NEW a \in Lineage(data, i), NEW b \in Lineage(data, i), data[a].parent = data[b].parent
  PROVE  a = b
<1>1. \A x, y \in Lineage(data, i) : data[x].parent = data[y].parent => ~(x < y)
  <2>1. SUFFICES ASSUME NEW x \in Lineage(data, i), NEW y \in Lineage(data, i),
                        data[x].parent = data[y].parent, x < y
                 PROVE  FALSE
    OBVIOUS
  <2>2. x \in 1 .. n /\ y \in 1 .. n /\ n \in Nat
    BY InLineage, TreeBasics
  <2>3. x \in Lineage(data, y)
    BY <2>1, <2>2, LineageIsChain
  <2>4. data[y].parent \in 1 .. n /\ x \in Lineage(data, data[y].parent)
    BY <2>1, <2>2, <2>3, GoUp
  <2>5. x <= data[y].parent
    BY <2>4, InLineage
  <2>6. data[x].parent \in 0 .. x - 1
    BY <2>2, TreeBasics
  <2>7. QED  BY <2>1, <2>2, <2>5, <2>6
<1>2. a \in 1 .. n /\ b \in 1 .. n
  BY InLineage
<1>3. ~(a < b) /\ ~(b < a)
  BY <1>1
<1>4. QED  BY <1>2, <1>3

\* From a node above, or from the tree itself, one child leads to a node.
LEMMA ChildTowards ==
  ASSUME NEW data, NEW n, Tree(data, n), NEW p
  PROVE  \A j \in 1 .. n :
           p = NoParent \/ (p \in Lineage(data, j) /\ p # j) =>
             \E b \in Lineage(data, j) : data[b].parent = p
<1> DEFINE Leads(j) == \E b \in Lineage(data, j) : data[b].parent = p
           T == {j \in 1 .. n : p = NoParent \/ (p \in Lineage(data, j) /\ p # j) => Leads(j)}
<1>1. ASSUME NEW j \in 1 .. n, \A k \in 1 .. j - 1 : k \in T
      PROVE  j \in T
  <2>1. SUFFICES ASSUME p = NoParent \/ (p \in Lineage(data, j) /\ p # j)
                 PROVE  Leads(j)
    OBVIOUS
  <2> DEFINE q == data[j].parent
  <2>2. CASE q = p
    BY <2>2, LineageBelow
  <2>3. CASE q # p
    <3>1. q # NoParent
      BY <2>1, <2>3, GoUp
    <3>2. q \in 1 .. n /\ q < j /\ Lineage(data, j) = {j} \union Lineage(data, q)
      BY <3>1, GoDown
    <3>3. p = NoParent \/ (p \in Lineage(data, q) /\ p # q)
      BY <2>1, <2>3, <3>2
    <3>4. q \in T
      <4> HIDE DEF T
      <4>1. q \in 1 .. j - 1
        BY <3>2
      <4>2. QED  BY <1>1, <4>1
    <3>5. Leads(q)
      BY <3>3, <3>4
    <3>6. QED  BY <3>2, <3>5
  <2>4. QED  BY <2>2, <2>3
<1>2. n \in Nat
  BY DEF Tree
<1>3. \A j \in 1 .. n : j \in T
  <2> HIDE DEF T
  <2>1. QED  BY <1>1, <1>2, ByEarlier
<1>4. QED  BY <1>3

\* Nodes of which neither is above the other are below different siblings.
LEMMA Parting ==
  ASSUME NEW data, NEW n, Tree(data, n), NEW j \in 1 .. n
  PROVE  \A i \in 1 .. n :
           i \notin Lineage(data, j) /\ j \notin Lineage(data, i) =>
             \E a \in Lineage(data, i), b \in Lineage(data, j) :
               a # b /\ data[a].parent = data[b].parent
<1> DEFINE Part(i) == \E a \in Lineage(data, i), b \in Lineage(data, j) :
                        a # b /\ data[a].parent = data[b].parent
           T == {i \in 1 .. n : i \notin Lineage(data, j) /\ j \notin Lineage(data, i) => Part(i)}
<1>1. ASSUME NEW i \in 1 .. n, \A k \in 1 .. i - 1 : k \in T
      PROVE  i \in T
  <2>1. SUFFICES ASSUME i \notin Lineage(data, j), j \notin Lineage(data, i)
                 PROVE  Part(i)
    OBVIOUS
  <2> DEFINE p == data[i].parent
  <2>2. i \in Lineage(data, i)
    BY LineageBelow
  <2>3. CASE p = NoParent
    <3>1. PICK b \in Lineage(data, j) : data[b].parent = p
      BY <2>3, ChildTowards
    <3>2. QED  BY <2>1, <2>2, <3>1
  <2>4. CASE p # NoParent
    <3>1. p \in 1 .. n /\ p < i /\ Lineage(data, i) = {i} \union Lineage(data, p)
      BY <2>4, GoDown
    <3>2. p \in Lineage(data, p) /\ p # j
      BY <2>1, <3>1, LineageBelow
    <3>3. CASE p \in Lineage(data, j)
      <4>1. PICK b \in Lineage(data, j) : data[b].parent = p
        BY <3>2, <3>3, ChildTowards
      <4>2. QED  BY <2>1, <2>2, <4>1
    <3>4. CASE p \notin Lineage(data, j)
      <4>1. p \in T
        <5> HIDE DEF T
        <5>1. p \in 1 .. i - 1
          BY <3>1
        <5>2. QED  BY <1>1, <5>1
      <4>2. Part(p)
        BY <2>1, <3>1, <3>4, <4>1
      <4>3. QED  BY <3>1, <4>2
    <3>5. QED  BY <3>3, <3>4
  <2>5. QED  BY <2>3, <2>4
<1>2. n \in Nat
  BY DEF Tree
<1>3. \A i \in 1 .. n : i \in T
  <2> HIDE DEF T
  <2>1. QED  BY <1>1, <1>2, ByEarlier
<1>4. QED  BY <1>3

-----------------------------------------------------------------------------
(* What lies left of a node: the families of the elder siblings of those above. *)

LEMMA FamilyIs ==
  ASSUME NEW data, NEW n, Tree(data, n), NEW i
  PROVE  \A k : k \in Family(data, i) <=> k \in 1 .. n /\ i \in Lineage(data, k)
BY TreeBasics DEF Family

LEMMA LeftIs ==
  ASSUME NEW data, NEW n, Tree(data, n), NEW i \in 1 .. n
  PROVE  \A k : k \in LeftOf(data, i) <=>
           k \in 1 .. n /\ \E a \in Lineage(data, i), e \in Lineage(data, k) :
                             data[e].parent = data[a].parent /\ e < a
<1>1. ASSUME NEW k \in LeftOf(data, i)
      PROVE  k \in 1 .. n /\ \E a \in Lineage(data, i), e \in Lineage(data, k) :
                               data[e].parent = data[a].parent /\ e < a
  <2>1. PICK a \in Lineage(data, i) : \E e \in Elders(data, a) : k \in Family(data, e)
    BY DEF LeftOf
  <2>2. PICK e \in Elders(data, a) : k \in Family(data, e)
    BY <2>1
  <2>3. k \in 1 .. n /\ e \in Lineage(data, k)
    BY <2>2, FamilyIs
  <2>4. data[e].parent = data[a].parent /\ e < a
    BY <2>2 DEF Elders
  <2>5. QED  BY <2>3, <2>4
<1>2. ASSUME NEW k \in 1 .. n, NEW a \in Lineage(data, i), NEW e \in Lineage(data, k),
             data[e].parent = data[a].parent, e < a
      PROVE  k \in LeftOf(data, i)
  <2>1. k \in Family(data, e)
    BY FamilyIs
  <2>2. e \in 1 .. n
    BY InLineage
  <2>3. e \in Elders(data, a)
    BY <1>2, <2>2, TreeBasics DEF Elders
  <2>4. QED  BY <2>1, <2>3 DEF LeftOf
<1>3. QED  BY <1>1, <1>2

\* A node has its family, and neither that nor what is above it to its left.
LEMMA LeftIsAside ==
  ASSUME NEW data, NEW n, Tree(data, n), NEW i \in 1 .. n
  PROVE  /\ LeftOf(data, i) \subseteq 1 .. n /\ Family(data, i) \subseteq 1 .. n
         /\ i \in Family(data, i)
         /\ LeftOf(data, i) \intersect Family(data, i) = {}
         /\ LeftOf(data, i) \intersect Lineage(data, i) = {}
<1>1. i \in Family(data, i) /\ LeftOf(data, i) \subseteq 1 .. n /\ Family(data, i) \subseteq 1 .. n
  BY FamilyIs, LeftIs, LineageBelow
<1>2. ASSUME NEW k \in LeftOf(data, i)
      PROVE  i \notin Lineage(data, k) /\ k \notin Lineage(data, i)
  <2>1. PICK a \in Lineage(data, i), e \in Lineage(data, k) :
               data[e].parent = data[a].parent /\ e < a
    BY LeftIs
  <2>2. k \in 1 .. n
    BY <1>1
  <2>3. a \in 1 .. n /\ e \in 1 .. n /\ a # e
    BY <2>1, <2>2, InLineage
  <2>4. ASSUME i \in Lineage(data, k)
        PROVE  FALSE
    <3>1. a \in Lineage(data, k)
      BY <2>2, <2>4, LineageOfAbove
    <3>2. QED  BY <2>1, <2>2, <2>3, <3>1, NoSiblings
  <2>5. ASSUME k \in Lineage(data, i)
        PROVE  FALSE
    <3>1. e \in Lineage(data, i)
      BY <2>5, LineageOfAbove
    <3>2. QED  BY <2>1, <2>3, <3>1, NoSiblings
  <2>6. QED  BY <2>4, <2>5
<1>3. \A k \in Family(data, i) : i \in Lineage(data, k)
  BY FamilyIs
<1>4. QED  BY <1>1, <1>2, <1>3

\* A node and what is left of it are, above what is left of its parent, of the
\* parent's family.
LEMMA WithinParent ==
  ASSUME NEW data, NEW n, Tree(data, n), NEW i \in 1 .. n, data[i].parent # NoParent
  PROVE  LET p == data[i].parent IN
           /\ LeftOf(data, p) \subseteq LeftOf(data, i)
           /\ LeftOf(data, i) \union Family(data, i) \subseteq LeftOf(data, p) \union Family(data, p)
<1> DEFINE p == data[i].parent
<1>1. p \in 1 .. n /\ Lineage(data, i) = {i} \union Lineage(data, p) /\ p \in Lineage(data, p)
  BY GoDown, LineageBelow
<1>2. LeftOf(data, p) \subseteq LeftOf(data, i)
  BY <1>1, LeftIs
<1>3. ASSUME NEW k \in LeftOf(data, i), k \notin LeftOf(data, p)
      PROVE  k \in Family(data, p)
  <2>1. k \in 1 .. n
    BY LeftIs
  <2>2. PICK a \in Lineage(data, i), e \in Lineage(data, k) :
               data[e].parent = data[a].parent /\ e < a
    BY LeftIs
  <2>3. a = i
    BY <1>1, <1>3, <2>1, <2>2, LeftIs
  <2>4. e \in 1 .. n /\ data[e].parent = p
    BY <2>1, <2>2, <2>3, InLineage
  <2>5. p \in Lineage(data, e)
    BY <1>1, <2>4, GoDown
  <2>6. p \in Lineage(data, k)
    BY <2>1, <2>5, LineageOfAbove
  <2>7. QED  BY <2>1, <2>6, FamilyIs
<1>4. ASSUME NEW k \in Family(data, i)
      PROVE  k \in Family(data, p)
  <2>1. k \in 1 .. n /\ i \in Lineage(data, k)
    BY FamilyIs
  <2>2. p \in Lineage(data, k)
    BY <1>1, <2>1, LineageOfAbove
  <2>3. QED  BY <2>1, <2>2, FamilyIs
<1>5. QED  BY <1>2, <1>3, <1>4

\* All of one side, with those above it up to where the sides part, is left of
\* the other side.
LEMMA LeftOfLater ==
  ASSUME NEW data, NEW n, Tree(data, n), NEW i \in 1 .. n, NEW j \in 1 .. n,
         NEW a \in Lineage(data, i), NEW b \in Lineage(data, j),
         data[a].parent = data[b].parent, a < b
  PROVE  /\ Family(data, i) \subseteq LeftOf(data, j)
         /\ LeftOf(data, i) \subseteq LeftOf(data, j)
         /\ Lineage(data, i) \subseteq LeftOf(data, j) \union (Lineage(data, j) \ {j})
<1>1. a \in 1 .. n /\ b \in 1 .. n /\ n \in Nat
  BY InLineage, TreeBasics
<1>2. ASSUME NEW k \in 1 .. n, a \in Lineage(data, k)
      PROVE  k \in LeftOf(data, j)
  BY <1>2, LeftIs
<1>3. ASSUME NEW k \in Family(data, i)
      PROVE  k \in LeftOf(data, j)
  <2>1. k \in 1 .. n /\ i \in Lineage(data, k)
    BY FamilyIs
  <2>2. a \in Lineage(data, k)
    BY <2>1, LineageOfAbove
  <2>3. QED  BY <1>2, <2>1, <2>2
<1>4. ASSUME NEW c \in Lineage(data, i), c < a
      PROVE  c \in Lineage(data, j) /\ c # j
  <2>1. c \in Lineage(data, a)
    BY <1>1, <1>4, LineageIsChain
  <2>2. data[a].parent \in 1 .. n /\ data[a].parent < a /\ data[a].parent # NoParent
        /\ c \in Lineage(data, data[a].parent)
    BY <1>1, <1>4, <2>1, GoUp
  <2>3. Lineage(data, b) = {b} \union Lineage(data, data[b].parent)
    BY <1>1, <2>2, GoDown
  <2>4. c \in Lineage(data, j)
    BY <2>2, <2>3, LineageOfAbove
  <2>5. b <= j
    BY InLineage
  <2>6. c \in 1 .. n
    BY InLineage
  <2>7. QED  BY <1>1, <1>4, <2>4, <2>5, <2>6
<1>5. ASSUME NEW k \in LeftOf(data, i)
      PROVE  k \in LeftOf(data, j)
  <2>1. k \in 1 .. n
    BY LeftIs
  <2>2. PICK c \in Lineage(data, i), e \in Lineage(data, k) :
               data[e].parent = data[c].parent /\ e < c
    BY LeftIs
  <2>3. c \in 1 .. n /\ e \in 1 .. n
    BY <2>1, InLineage
  <2>4. CASE c < a
    BY <1>4, <2>1, <2>2, <2>4, LeftIs
  <2>5. CASE c = a
    <3>1. data[e].parent = data[b].parent /\ e < b
      BY <1>1, <2>2, <2>3, <2>5
    <3>2. QED  BY <2>1, <3>1, LeftIs
  <2>6. CASE a < c
    <3>1. a \in Lineage(data, c)
      BY <1>1, <2>3, <2>6, LineageIsChain
    <3>2. a # c
      BY <1>1, <2>3, <2>6
    <3>3. data[c].parent # NoParent /\ a \in Lineage(data, data[c].parent)
      BY <2>3, <3>1, <3>2, GoUp
    <3>4. Lineage(data, e) = {e} \union Lineage(data, data[e].parent)
      BY <2>2, <2>3, <3>3, GoDown
    <3>5. a \in Lineage(data, k)
      BY <2>1, <2>2, <3>3, <3>4, LineageOfAbove
    <3>6. QED  BY <1>2, <2>1, <3>5
  <2>7. QED  BY <1>1, <2>3, <2>4, <2>5, <2>6
<1>6. ASSUME NEW c \in Lineage(data, i)
      PROVE  c \in LeftOf(data, j) \union (Lineage(data, j) \ {j})
  <2>1. c \in 1 .. n
    BY InLineage
  <2>2. CASE c < a
    BY <1>4, <2>2
  <2>3. CASE ~(c < a)
    <3>1. a \in Lineage(data, c)
      BY <1>1, <2>1, <2>3, LineageIsChain
    <3>2. QED  BY <1>2, <2>1, <3>1
  <2>4. QED  BY <2>2, <2>3
<1>7. QED  BY <1>3, <1>5, <1>6

\* A family is its head and the families of the head's children.
LEMMA FamilyOfChildren ==
  ASSUME NEW data, NEW n, Tree(data, n), NEW i \in 1 .. n
  PROVE  Family(data, i) = {i} \union UNION {Family(data, j) : j \in {k \in 1 .. n : data[k].parent = i}}
<1>1. ASSUME NEW k \in Family(data, i), k # i
      PROVE  \E j \in 1 .. n : data[j].parent = i /\ k \in Family(data, j)
  <2>1. k \in 1 .. n /\ i \in Lineage(data, k)
    BY FamilyIs
  <2>2. PICK b \in Lineage(data, k) : data[b].parent = i
    BY <1>1, <2>1, ChildTowards
  <2>3. b \in 1 .. n /\ k \in Family(data, b)
    BY <2>1, InLineage, FamilyIs
  <2>4. QED  BY <2>2, <2>3
<1>2. ASSUME NEW j \in 1 .. n, data[j].parent = i, NEW k \in Family(data, j)
      PROVE  k \in Family(data, i)
  <2>1. data[j].parent # NoParent
    BY <1>2, TreeBasics DEF NoParent
  <2>2. i \in Lineage(data, j)
    BY <1>2, <2>1, GoDown, LineageBelow
  <2>3. k \in 1 .. n /\ j \in Lineage(data, k)
    BY FamilyIs
  <2>4. i \in Lineage(data, k)
    BY <2>2, <2>3, LineageOfAbove
  <2>5. QED  BY <2>3, <2>4, FamilyIs
<1>3. i \in Family(data, i)
  BY LeftIsAside
<1>4. QED  BY <1>1, <1>2, <1>3

-----------------------------------------------------------------------------
(* Rows and ids *)

LEMMA RowIs ==
  ASSUME NEW data, NEW n, Tree(data, n), NEW i \in 1 .. n
  PROVE  /\ IsFiniteSet(Lineage(data, i)) /\ Row(data, i) \in 1 .. n
         /\ data[i].parent # NoParent =>
              Row(data, data[i].parent) \in 1 .. n /\ Row(data, i) = Row(data, data[i].parent) + 1
<1>1. n \in Nat
  BY DEF Tree
<1>2. ASSUME NEW k \in 1 .. n
      PROVE  IsFiniteSet(Lineage(data, k)) /\ Row(data, k) \in 1 .. n
  <2>1. IsFiniteSet(1 .. k) /\ Cardinality(1 .. k) = k
    BY <1>1, FS_Interval
  <2>2. Lineage(data, k) \in SUBSET (1 .. k) /\ k \in Lineage(data, k)
    BY LineageBelow
  <2>3. IsFiniteSet(Lineage(data, k)) /\ Cardinality(Lineage(data, k)) <= k
    BY <2>1, <2>2, FS_Subset
  <2>4. Cardinality(Lineage(data, k)) \in Nat /\ Cardinality(Lineage(data, k)) # 0
    BY <2>2, <2>3, FS_CardinalityType, FS_EmptySet
  <2>5. QED  BY <1>1, <2>3, <2>4 DEF Row
<1>3. ASSUME data[i].parent # NoParent
      PROVE  Row(data, data[i].parent) \in 1 .. n /\ Row(data, i) = Row(data, data[i].parent) + 1
  <2> DEFINE p == data[i].parent
  <2>1. p \in 1 .. n /\ p < i /\ Lineage(data, i) = {i} \union Lineage(data, p)
    BY <1>3, GoDown
  <2>2. i \notin Lineage(data, p)
    BY <1>1, <2>1, InLineage
  <2>3. Cardinality(Lineage(data, p) \union {i}) = Cardinality(Lineage(data, p)) + 1
    BY <1>2, <2>1, <2>2, FS_AddElement
  <2>4. Lineage(data, i) = Lineage(data, p) \union {i}
    BY <2>1
  <2>5. Cardinality(Lineage(data, i)) = Cardinality(Lineage(data, p)) + 1
    BY <2>3, <2>4
  <2>6. QED  BY <1>2, <2>1, <2>5 DEF Row
<1>4. QED  BY <1>2, <1>3

LEMMA FewerIfPart ==
  ASSUME NEW A, NEW B, IsFiniteSet(B), A \subseteq B, NEW x \in B, x \notin A
  PROVE  Cardinality(A) \in Nat /\ Cardinality(B) \in Nat /\ Cardinality(A) < Cardinality(B)
<1>1. A \in SUBSET B /\ A # B
  OBVIOUS
<1>2. IsFiniteSet(A) /\ Cardinality(A) <= Cardinality(B) /\ Cardinality(A) # Cardinality(B)
  BY <1>1, FS_Subset
<1>3. Cardinality(A) \in Nat /\ Cardinality(B) \in Nat
  BY <1>2, FS_CardinalityType
<1>4. QED  BY <1>2, <1>3

LEMMA HigherRow ==
  ASSUME NEW data, NEW n, Tree(data, n), NEW j \in 1 .. n, NEW i \in Lineage(data, j), i # j
  PROVE  Row(data, i) # Row(data, j)
<1>1. i \in 1 .. n /\ i <= j /\ n \in Nat
  BY InLineage, TreeBasics
<1>2. Lineage(data, i) \subseteq Lineage(data, j) /\ j \in Lineage(data, j)
  BY LineageOfAbove, LineageBelow
<1>3. j \notin Lineage(data, i)
  BY <1>1, InLineage
<1>4. IsFiniteSet(Lineage(data, j))
  BY RowIs
<1>5. QED  BY <1>2, <1>3, <1>4, FewerIfPart DEF Row

\* The frames that are numbered before that of a node.
Before(data, i) == LeftOf(data, i) \union (Lineage(data, i) \ {i})

LEMMA BeforeIs ==
  ASSUME NEW data, NEW n, Tree(data, n), NEW i \in 1 .. n
  PROVE  /\ IsFiniteSet(Before(data, i)) /\ i \notin Before(data, i)
         /\ Cardinality(Before(data, i)) \in 0 .. n - 1
         /\ Cardinality(LeftOf(data, i)) + Row(data, i) - 1 = Cardinality(Before(data, i))
<1>1. n \in Nat /\ IsFiniteSet(1 .. n) /\ Cardinality(1 .. n) = n
  BY FS_Interval DEF Tree
<1>2. LeftOf(data, i) \in SUBSET (1 .. n) /\ i \notin LeftOf(data, i)
      /\ LeftOf(data, i) \intersect (Lineage(data, i) \ {i}) = {}
  BY LeftIsAside
<1>3. Lineage(data, i) \ {i} \in SUBSET (1 .. n) /\ i \in Lineage(data, i)
  BY InLineage, LineageBelow
<1>4. Before(data, i) \subseteq 1 .. n /\ i \notin Before(data, i)
  BY <1>2, <1>3 DEF Before
<1>5. IsFiniteSet(LeftOf(data, i)) /\ IsFiniteSet(Lineage(data, i) \ {i}) /\ IsFiniteSet(Before(data, i))
  <2>1. Before(data, i) \in SUBSET (1 .. n)
    BY <1>4
  <2>2. QED  BY <1>1, <1>2, <1>3, <2>1, FS_Subset
<1>6. Cardinality(Before(data, i)) \in Nat /\ Cardinality(Before(data, i)) < n
  BY <1>1, <1>4, FewerIfPart
<1>7. Cardinality(Lineage(data, i) \ {i}) = Cardinality(Lineage(data, i)) - 1
  BY <1>3, RowIs, FS_RemoveElement
<1>8. Cardinality(Before(data, i)) =
        Cardinality(LeftOf(data, i)) + Cardinality(Lineage(data, i) \ {i}) - Cardinality({})
  <2>1. Cardinality(LeftOf(data, i) \union (Lineage(data, i) \ {i})) =
          Cardinality(LeftOf(data, i)) + Cardinality(Lineage(data, i) \ {i})
            - Cardinality(LeftOf(data, i) \intersect (Lineage(data, i) \ {i}))
    BY <1>5, FS_Union
  <2>2. QED  BY <1>2, <2>1 DEF Before
<1>9. Cardinality({}) = 0 /\ Cardinality(LeftOf(data, i)) \in Nat /\ Cardinality(Lineage(data, i)) \in Nat
  BY <1>5, RowIs, FS_EmptySet, FS_CardinalityType
<1>10. Cardinality(LeftOf(data, i)) + Row(data, i) - 1 = Cardinality(Before(data, i))
  BY <1>7, <1>8, <1>9 DEF Row
<1>11. QED  BY <1>1, <1>4, <1>5, <1>6, <1>10

LEMMA BeforeLater ==
  ASSUME NEW data, NEW n, Tree(data, n), NEW i \in 1 .. n, NEW j \in 1 .. n,
         Before(data, i) \subseteq Before(data, j), i \in Before(data, j)
  PROVE  Cardinality(Before(data, i)) # Cardinality(Before(data, j))
<1>1. Cardinality(Before(data, i)) \in Nat /\ Cardinality(Before(data, j)) \in Nat
      /\ Cardinality(Before(data, i)) < Cardinality(Before(data, j))
  BY BeforeIs, FewerIfPart
<1>2. QED  BY <1>1

LEMMA IdsDiffer ==
  ASSUME NEW data, NEW n, Tree(data, n), NEW i \in 1 .. n, NEW j \in 1 .. n, i # j
  PROVE  Cardinality(Before(data, i)) # Cardinality(Before(data, j))
<1>1. ASSUME NEW k \in 1 .. n, NEW l \in Lineage(data, k), k # l
      PROVE  Cardinality(Before(data, l)) # Cardinality(Before(data, k))
  <2>1. l \in 1 .. n /\ l <= k /\ n \in Nat
    BY InLineage, TreeBasics
  <2>2. Lineage(data, l) \subseteq Lineage(data, k)
    BY LineageOfAbove
  <2>3. k \notin Lineage(data, l)
    BY <1>1, <2>1, InLineage
  <2>4. LeftOf(data, l) \subseteq LeftOf(data, k)
    BY <2>1, <2>2, LeftIs
  <2>5. Before(data, l) \subseteq Before(data, k) /\ l \in Before(data, k)
    BY <1>1, <2>2, <2>3, <2>4 DEF Before
  <2>6. QED  BY <2>1, <2>5, BeforeLater
<1>2. ASSUME NEW k \in 1 .. n, NEW l \in 1 .. n, NEW a \in Lineage(data, k), NEW b \in Lineage(data, l),
             data[a].parent = data[b].parent, a < b
      PROVE  Cardinality(Before(data, k)) # Cardinality(Before(data, l))
  <2>1. /\ Family(data, k) \subseteq LeftOf(data, l)
        /\ LeftOf(data, k) \subseteq LeftOf(data, l)
        /\ Lineage(data, k) \subseteq LeftOf(data, l) \union (Lineage(data, l) \ {l})
    BY <1>2, LeftOfLater
  <2>2. k \in Family(data, k)
    BY LeftIsAside
  <2>3. Before(data, k) \subseteq Before(data, l) /\ k \in Before(data, l)
    BY <2>1, <2>2 DEF Before
  <2>4. QED  BY <2>3, BeforeLater
<1>3. CASE i \in Lineage(data, j)
  BY <1>1, <1>3
<1>4. CASE j \in Lineage(data, i)
  BY <1>1, <1>4
<1>5. CASE i \notin Lineage(data, j) /\ j \notin Lineage(data, i)
  <2>1. PICK a \in Lineage(data, i), b \in Lineage(data, j) : a # b /\ data[a].parent = data[b].parent
    BY <1>5, Parting
  <2>2. a \in 1 .. n /\ b \in 1 .. n /\ n \in Nat
    BY InLineage, TreeBasics
  <2>3. a < b \/ b < a
    BY <2>1, <2>2
  <2>4. QED  BY <1>2, <2>1, <2>3
<1>6. QED  BY <1>3, <1>4, <1>5

\* So many different numbers below n are all of them.
LEMMA IdsAreAll ==
  ASSUME NEW data, NEW n, Tree(data, n)
  PROVE  {Cardinality(Before(data, i)) : i \in 1 .. n} = 0 .. n - 1
<1> DEFINE f == [i \in 1 .. n |-> Cardinality(Before(data, i))]
<1>1. n \in Nat /\ IsFiniteSet(1 .. n) /\ IsFiniteSet(0 .. n - 1)
  BY FS_Interval DEF Tree
<1>2. f \in Injection(1 .. n, 0 .. n - 1)
  <2>1. f \in [1 .. n -> 0 .. n - 1]
    BY BeforeIs
  <2>2. \A i, j \in 1 .. n : f[i] = f[j] => i = j
    BY IdsDiffer
  <2> HIDE DEF f
  <2>3. QED  BY <2>1, <2>2 DEF Injection, IsInjective
<1>3. Cardinality(1 .. n) = n /\ Cardinality(0 .. n - 1) = n
  BY <1>1, FS_Interval
<1>4. f \in Surjection(1 .. n, 0 .. n - 1)
  <2> HIDE DEF f
  <2>1. QED  BY <1>1, <1>2, <1>3, FS_Injection
<1>5. \A k \in 0 .. n - 1 : \E i \in 1 .. n : f[i] = k
  <2> HIDE DEF f
  <2>1. QED  BY <1>4 DEF Surjection
<1>6. QED  BY <1>5, BeforeIs

-----------------------------------------------------------------------------
(* Weights *)

SelfWeights(data) == [j \in DOMAIN data |-> data[j].self]

LEMMA WeighingIs ==
  ASSUME NEW data, NEW n, Tree(data, n), NEW S \in SUBSET (1 .. n)
  PROVE  Weighs(SelfWeights(data), S) /\ Weighing(data, S) = Total(SelfWeights(data), S)
<1> DEFINE w == SelfWeights(data)
           Is(f) == f = [s \in SUBSET S |-> IF s = {} THEN 0
                                            ELSE data[CHOOSE x \in s : TRUE].self + f[s \ {CHOOSE x \in s : TRUE}]]
<1>1. Weighing(data, S) = (CHOOSE f : Is(f))[S]
  BY DEF Weighing, MapThenSumSet, MapThenFoldSet
<1>2. 1 .. n \subseteq DOMAIN data
  BY TreeBasics
<1>3. \A s \in SUBSET S : s # {} => w[PickOf(s)] = data[CHOOSE x \in s : TRUE].self
  BY <1>2, Picked DEF PickOf, SelfWeights
<1>4. ASSUME NEW f
      PROVE  Is(f) <=> Adds(f, w, S)
  <2> DEFINE one == [s \in SUBSET S |-> IF s = {} THEN 0
                       ELSE data[CHOOSE x \in s : TRUE].self + f[s \ {CHOOSE x \in s : TRUE}]]
             other == [s \in SUBSET S |-> IF s = {} THEN 0 ELSE w[PickOf(s)] + f[s \ {PickOf(s)}]]
  <2>1. \A s \in SUBSET S : one[s] = other[s]
    <3> HIDE DEF w
    <3>1. QED  BY <1>3 DEF PickOf
  <2>2. one = other
    <3>1. one = [s \in SUBSET S |-> one[s]] /\ other = [s \in SUBSET S |-> other[s]]
      OBVIOUS
    <3> HIDE DEF one, other
    <3>2. QED  BY <2>1, <3>1
  <2>3. (f = one) <=> (f = other)
    <3> HIDE DEF one, other
    <3>1. QED  BY <2>2
  <2>4. QED  BY <2>3 DEF Adds
<1>5. (CHOOSE f : Is(f)) = (CHOOSE f : Adds(f, w, S))
  <2> HIDE DEF Is, w
  <2>1. QED  BY <1>4
<1>6. Weighing(data, S) = Total(w, S)
  <2> HIDE DEF Is, w
  <2>1. QED  BY <1>1, <1>5 DEF Total
<1>7. IsFiniteSet(S)
  <2>1. n \in Nat /\ IsFiniteSet(1 .. n)
    BY FS_Interval DEF Tree
  <2>2. QED  BY <2>1, FS_Subset
<1>8. \A x \in S : w[x] \in Nat
  BY <1>2, TreeBasics DEF SelfWeights
<1>9. QED  BY <1>6, <1>7, <1>8 DEF Weighs

LEMMA WeighingOfParts ==
  ASSUME NEW data, NEW n, Tree(data, n), NEW A \in SUBSET (1 .. n), NEW B \in SUBSET (1 .. n)
  PROVE  /\ Weighing(data, A) \in Nat /\ Weighing(data, B) \in Nat
         /\ A \intersect B = {} => Weighing(data, A \union B) = Weighing(data, A) + Weighing(data, B)
         /\ A \subseteq B => Weighing(data, A) <= Weighing(data, B)
<1> DEFINE w == SelfWeights(data)
<1>1. Weighs(w, A) /\ Weighing(data, A) = Total(w, A) /\ Weighs(w, B) /\ Weighing(data, B) = Total(w, B)
  BY WeighingIs
<1>2. A \union B \in SUBSET (1 .. n)
  OBVIOUS
<1>3. Weighing(data, A \union B) = Total(w, A \union B)
  BY <1>2, WeighingIs
<1> HIDE DEF w
<1>4. Total(w, A) \in Nat /\ Total(w, B) \in Nat
  BY <1>1, TotalInNat
<1>5. A \intersect B = {} => Total(w, A \union B) = Total(w, A) + Total(w, B)
  BY <1>1, TotalOfParts
<1>6. A \subseteq B => Total(w, A) <= Total(w, B)
  BY <1>1, TotalOfPart
<1>7. QED  BY <1>1, <1>3, <1>4, <1>5, <1>6

\* The families of the roots are the tree, so that its width is its weight.
LEMMA WholeIs ==
  ASSUME NEW data, NEW n, Tree(data, n)
  PROVE  wholeWeight(data) = Weighing(data, 1 .. n)
<1> DEFINE R == {i \in 1 .. n : data[i].parent = NoParent}
           v == [i \in 1 .. n |-> totalWeight(data, i)]
           All(A) == UNION {Family(data, r) : r \in A}
           Is(f) == f = [s \in SUBSET R |-> IF s = {} THEN 0
                           ELSE totalWeight(data, CHOOSE x \in s : TRUE) + f[s \ {CHOOSE x \in s : TRUE}]]
<1>1. wholeWeight(data) = (CHOOSE f : Is(f))[R]
  <2>1. structural(data) = 1 .. n
    BY TreeBasics
  <2>2. wholeWeight(data) = MapThenSumSet(LAMBDA i : totalWeight(data, i), R)
    BY <2>1 DEF wholeWeight
  <2>3. QED  BY <2>2 DEF MapThenSumSet, MapThenFoldSet
<1>2. \A s \in SUBSET R : s # {} => v[PickOf(s)] = totalWeight(data, CHOOSE x \in s : TRUE)
  BY Picked DEF PickOf
<1>3. ASSUME NEW f
      PROVE  Is(f) <=> Adds(f, v, R)
  <2> DEFINE one == [s \in SUBSET R |-> IF s = {} THEN 0
                       ELSE totalWeight(data, CHOOSE x \in s : TRUE) + f[s \ {CHOOSE x \in s : TRUE}]]
             other == [s \in SUBSET R |-> IF s = {} THEN 0 ELSE v[PickOf(s)] + f[s \ {PickOf(s)}]]
  <2>1. \A s \in SUBSET R : one[s] = other[s]
    <3> HIDE DEF v, R
    <3>1. QED  BY <1>2 DEF PickOf
  <2>2. one = other
    <3>1. one = [s \in SUBSET R |-> one[s]] /\ other = [s \in SUBSET R |-> other[s]]
      OBVIOUS
    <3> HIDE DEF one, other
    <3>2. QED  BY <2>1, <3>1
  <2>3. (f = one) <=> (f = other)
    <3> HIDE DEF one, other
    <3>1. QED  BY <2>2
  <2>4. QED  BY <2>3 DEF Adds
<1>4. wholeWeight(data) = Total(v, R)
  <2> HIDE DEF Is, v, R
  <2>1. (CHOOSE f : Is(f)) = (CHOOSE f : Adds(f, v, R))
    BY <1>3
  <2>2. QED  BY <1>1, <2>1 DEF Total
<1>5. IsFiniteSet(R) /\ R \subseteq 1 .. n
  <2>1. n \in Nat /\ IsFiniteSet(1 .. n)
    BY FS_Interval DEF Tree
  <2>2. QED  BY <2>1, FS_Subset
<1>6. \A r \in 1 .. n : Family(data, r) \subseteq 1 .. n /\ v[r] = Weighing(data, Family(data, r)) /\ v[r] \in Nat
  <2>1. TAKE r \in 1 .. n
  <2>2. Family(data, r) \in SUBSET (1 .. n)
    BY FamilyIs
  <2>3. v[r] = Weighing(data, Family(data, r))
    BY DEF totalWeight
  <2>4. QED  BY <2>2, <2>3, WeighingOfParts
<1>7. ASSUME NEW A \in SUBSET R, NEW r \in A
      PROVE  Family(data, r) \intersect All(A \ {r}) = {}
  <2>1. SUFFICES ASSUME NEW k \in Family(data, r), NEW q \in A \ {r}, k \in Family(data, q)
                 PROVE  FALSE
    OBVIOUS
  <2>2. k \in 1 .. n /\ r \in Lineage(data, k) /\ q \in Lineage(data, k)
    BY <2>1, FamilyIs
  <2>3. data[r].parent = data[q].parent
    OBVIOUS
  <2>4. QED  BY <2>2, <2>3, NoSiblings
<1> DEFINE T == {A \in SUBSET R : Total(v, A) = Weighing(data, All(A))}
<1>8. ASSUME NEW A \in SUBSET R, \A B \in SUBSET A : B # A => B \in T
      PROVE  A \in T
  <2>1. Weighs(v, A)
    <3> HIDE DEF v
    <3>1. QED  BY <1>5, <1>6, FS_Subset DEF Weighs
  <2>2. CASE A = {}
    <3>1. Total(v, A) = 0
      <4> HIDE DEF v
      <4>1. QED  BY <2>1, <2>2, TotalPicks DEF Weighs
    <3>2. {} \in SUBSET (1 .. n)
      OBVIOUS
    <3>3. Weighing(data, {}) = 0
      <4>1. Weighing(data, {}) = Total(SelfWeights(data), {}) /\ IsFiniteSet({})
        BY <3>2, WeighingIs, FS_EmptySet
      <4>2. QED  BY <4>1, TotalPicks
    <3>4. All(A) = {}
      BY <2>2
    <3> HIDE DEF All, v
    <3>5. QED  BY <3>1, <3>3, <3>4
  <2>3. CASE A # {}
    <3>1. PICK r \in A : TRUE
      BY <2>3
    <3> DEFINE B == A \ {r}
    <3>2. B \in SUBSET A /\ B # A
      BY <3>1
    <3>3. Total(v, B) = Weighing(data, All(B))
      <4>1. B \in T
        <5> HIDE DEF T, B
        <5>1. QED  BY <1>8, <3>2
      <4>2. QED  BY <4>1
    <3>4. Total(v, A) = v[r] + Total(v, B)
      <4> HIDE DEF v
      <4>1. QED  BY <2>1, TotalTakes
    <3>5. Family(data, r) \in SUBSET (1 .. n) /\ All(B) \in SUBSET (1 .. n)
      BY <1>6, FamilyIs
    <3>6. Family(data, r) \intersect All(B) = {} /\ All(A) = Family(data, r) \union All(B)
      <4>1. Family(data, r) \intersect All(B) = {}
        BY <1>7
      <4>2. All(A) = Family(data, r) \union All(B)
        OBVIOUS
      <4>3. QED  BY <4>1, <4>2
    <3>7. v[r] = Weighing(data, Family(data, r))
      BY <1>6
    <3> HIDE DEF All, v, B
    <3>8. QED  BY <3>3, <3>4, <3>5, <3>6, <3>7, WeighingOfParts
  <2>4. QED  BY <2>2, <2>3
<1>9. R \in T
  <2> HIDE DEF T, R
  <2>1. QED  BY <1>5, <1>8, BySubsets
<1>10. All(R) = 1 .. n
  <2>1. ASSUME NEW k \in 1 .. n
        PROVE  k \in All(R)
    <3>1. PICK r \in Lineage(data, k) : data[r].parent = NoParent
      BY ChildTowards
    <3>2. r \in 1 .. n
      BY InLineage
    <3>3. r \in R /\ k \in Family(data, r)
      BY <3>1, <3>2, FamilyIs
    <3>4. QED  BY <3>3
  <2>2. All(R) \subseteq 1 .. n
    BY <1>6
  <2>3. QED  BY <2>1, <2>2
<1>11. QED
  <2>1. Total(v, R) = Weighing(data, All(R))
    BY <1>9
  <2> HIDE DEF v, R, All
  <2>2. QED  BY <1>4, <1>10, <2>1

-----------------------------------------------------------------------------
(* The frames of a tree. *)

LEMMA MaxIs ==
  ASSUME NEW S \in SUBSET Nat, S # {}, NEW bound \in Nat, \A x \in S : x <= bound
  PROVE  Max(S) \in S /\ \A x \in S : x <= Max(S)
<1> DEFINE B == {b \in Nat : \A x \in S : x <= b}
<1>1. PICK m \in B : \A b \in B : m <= b
  <2>1. B \subseteq Nat /\ B # {}
    OBVIOUS
  <2> HIDE DEF B
  <2>2. QED  BY <2>1, LeastNatural
<1>2. m \in S
  <2>1. SUFFICES ASSUME m \notin S
                 PROVE  FALSE
    OBVIOUS
  <2>2. PICK x \in S : TRUE
    OBVIOUS
  <2>3. m \in Nat /\ \A y \in S : y <= m - 1 /\ y \in Nat
    BY <2>1
  <2>4. m - 1 \in B
    BY <2>2, <2>3
  <2>5. QED  BY <1>1, <2>3, <2>4
<1>3. \E x \in S : \A y \in S : x >= y
  BY <1>2
<1>4. Max(S) \in S /\ \A y \in S : Max(S) >= y
  BY <1>3 DEF Max
<1>5. QED  BY <1>4

\* What renderTree draws: columns by weights, rows by depth, ids by order.
Drawn(f, data, n, topDown, height) ==
  /\ DOMAIN f = 1 .. n
  /\ height \in Nat
  /\ \A i \in 1 .. n :
       /\ f[i].x0 = Weighing(data, LeftOf(data, i))
       /\ f[i].x1 = f[i].x0 + totalWeight(data, i)
       /\ f[i].id = Cardinality(Before(data, i))
       /\ f[i].y0 = IF topDown THEN Row(data, i) - 1 ELSE height - Row(data, i)
       /\ f[i].y1 = f[i].y0 + 1
       /\ Row(data, i) \in 1 .. height

LEMMA RenderDraws ==
  ASSUME NEW data, NEW n, Tree(data, n), NEW topDown
  PROVE  \E height : Drawn(renderTree(data, topDown), data, n, topDown, height)
<1> DEFINE rows == {0} \union {Row(data, i) : i \in 1 .. n}
           height == Max(rows)
           f == renderTree(data, topDown)
<1>1. n \in Nat /\ structural(data) = 1 .. n
  BY TreeBasics
<1>2. rows \in SUBSET Nat /\ rows # {} /\ \A r \in rows : r <= n
  BY <1>1, RowIs
<1>3. height \in Nat /\ \A r \in rows : r <= height
  <2> HIDE DEF rows
  <2>1. QED  BY <1>1, <1>2, MaxIs
<1>4. f = [i \in 1 .. n |->
        [x0 |-> Weighing(data, LeftOf(data, i)),
         x1 |-> Weighing(data, LeftOf(data, i)) + totalWeight(data, i),
         y0 |-> IF topDown THEN Row(data, i) - 1 ELSE height - Row(data, i),
         y1 |-> (IF topDown THEN Row(data, i) - 1 ELSE height - Row(data, i)) + 1,
         id |-> Cardinality(LeftOf(data, i)) + Row(data, i) - 1]]
  BY <1>1 DEF renderTree
<1> HIDE DEF height, f
<1>5. \A i \in 1 .. n : Row(data, i) \in 1 .. height
  BY <1>3, RowIs
<1>6. \A i \in 1 .. n : f[i].id = Cardinality(Before(data, i))
  BY <1>4, BeforeIs
<1>7. Drawn(f, data, n, topDown, height)
  BY <1>3, <1>4, <1>5, <1>6 DEF Drawn
<1>8. QED  BY <1>7 DEF f

\* A frame lies within the picture and is as wide as what it covers weighs.
LEMMA FrameInPicture ==
  ASSUME NEW data, NEW n, NEW topDown, NEW height, NEW f, Tree(data, n),
         Drawn(f, data, n, topDown, height), NEW i \in 1 .. n
  PROVE  /\ f[i].y0 >= 0 /\ f[i].y1 <= Height(f)
         /\ f[i].x0 >= 0 /\ f[i].x1 <= wholeWeight(data)
         /\ f[i].x1 - f[i].x0 = Weighing(data, Family(data, i))
<1> DEFINE Y == {f[k].y1 : k \in 1 .. n}
           left == LeftOf(data, i)
           family == Family(data, i)
<1>1. \A k \in 1 .. n : f[k].y0 \in Nat /\ f[k].y1 \in Nat /\ f[k].y1 <= height + 1 /\ height + 1 \in Nat
  BY DEF Drawn
<1>2. f[i].y1 <= Max(Y)
  <2>1. Y \in SUBSET Nat /\ f[i].y1 \in Y /\ \A y \in Y : y <= height + 1
    BY <1>1
  <2> HIDE DEF Y
  <2>2. QED  BY <1>1, <2>1, MaxIs
<1>3. Height(f) = Max(Y)
  BY DEF Height, Drawn
<1>4. left \in SUBSET (1 .. n) /\ family \in SUBSET (1 .. n) /\ left \intersect family = {}
  BY LeftIsAside
<1>5. f[i].x0 = Weighing(data, left) /\ f[i].x1 = Weighing(data, left) + Weighing(data, family)
  BY DEF Drawn, totalWeight
<1> HIDE DEF left, family
<1>6. /\ Weighing(data, left) \in Nat /\ Weighing(data, family) \in Nat
      /\ Weighing(data, left \union family) = Weighing(data, left) + Weighing(data, family)
  BY <1>4, WeighingOfParts
<1>7. Weighing(data, left \union family) <= Weighing(data, 1 .. n)
  <2>1. left \union family \in SUBSET (1 .. n) /\ 1 .. n \in SUBSET (1 .. n)
    BY <1>4
  <2>2. QED  BY <2>1, WeighingOfParts
<1>8. f[i].x1 <= wholeWeight(data) /\ f[i].x0 >= 0 /\ f[i].x1 - f[i].x0 = Weighing(data, family)
  <2>1. Weighing(data, 1 .. n) \in Nat
    <3>1. 1 .. n \in SUBSET (1 .. n)
      OBVIOUS
    <3>2. QED  BY <3>1, WeighingOfParts
  <2>2. QED  BY <1>5, <1>6, <1>7, <2>1, WholeIs
<1>9. f[i].y0 >= 0 /\ f[i].y1 <= Height(f)
  BY <1>1, <1>2, <1>3
<1>10. QED  BY <1>8, <1>9 DEF family

\* It lies in the columns of the one above, and next to it.
LEMMA FrameInParent ==
  ASSUME NEW data, NEW n, NEW topDown, NEW height, NEW f, Tree(data, n),
         Drawn(f, data, n, topDown, height), NEW i \in 1 .. n, data[i].parent # NoParent
  PROVE  LET p == data[i].parent IN
           /\ IF topDown THEN f[p].y1 = f[i].y0 ELSE f[i].y1 = f[p].y0
           /\ f[p].x0 <= f[i].x0 /\ f[i].x1 <= f[p].x1
<1> DEFINE p == data[i].parent
<1>1. p \in 1 .. n
  BY GoDown
<1>2. Row(data, p) \in 1 .. n /\ Row(data, i) = Row(data, p) + 1
  BY RowIs
<1>3. /\ f[p].y0 = (IF topDown THEN Row(data, p) - 1 ELSE height - Row(data, p))
      /\ f[i].y0 = (IF topDown THEN Row(data, i) - 1 ELSE height - Row(data, i))
      /\ f[p].y1 = f[p].y0 + 1 /\ f[i].y1 = f[i].y0 + 1 /\ height \in Nat
  BY <1>1 DEF Drawn
<1>4. IF topDown THEN f[p].y1 = f[i].y0 ELSE f[i].y1 = f[p].y0
  <2>1. CASE topDown
    BY <1>2, <1>3, <2>1
  <2>2. CASE ~topDown
    BY <1>2, <1>3, <2>2
  <2>3. QED  BY <2>1, <2>2
<1> DEFINE LI == LeftOf(data, i)
           FI == Family(data, i)
           LP == LeftOf(data, p)
           FP == Family(data, p)
<1>5. /\ LI \in SUBSET (1 .. n) /\ FI \in SUBSET (1 .. n) /\ LI \intersect FI = {}
      /\ LP \in SUBSET (1 .. n) /\ FP \in SUBSET (1 .. n) /\ LP \intersect FP = {}
  BY <1>1, LeftIsAside
<1>6. LP \subseteq LI /\ LI \union FI \subseteq LP \union FP
  BY WithinParent
<1>7. /\ f[i].x0 = Weighing(data, LI) /\ f[i].x1 = Weighing(data, LI) + Weighing(data, FI)
      /\ f[p].x0 = Weighing(data, LP) /\ f[p].x1 = Weighing(data, LP) + Weighing(data, FP)
  BY <1>1 DEF Drawn, totalWeight
<1> HIDE DEF LI, FI, LP, FP, p
<1>8. Weighing(data, LP) <= Weighing(data, LI)
  BY <1>5, <1>6, WeighingOfParts
<1>9. /\ Weighing(data, LI \union FI) = Weighing(data, LI) + Weighing(data, FI)
      /\ Weighing(data, LP \union FP) = Weighing(data, LP) + Weighing(data, FP)
  BY <1>5, WeighingOfParts
<1>10. Weighing(data, LI \union FI) <= Weighing(data, LP \union FP)
  <2>1. LI \union FI \in SUBSET (1 .. n) /\ LP \union FP \in SUBSET (1 .. n)
    BY <1>5
  <2>2. QED  BY <1>6, <2>1, WeighingOfParts
<1>11. f[p].x0 <= f[i].x0 /\ f[i].x1 <= f[p].x1
  BY <1>7, <1>8, <1>9, <1>10
<1>12. QED  BY <1>4, <1>11 DEF p

\* Frames side by side do not overlap.
LEMMA FramesAside ==
  ASSUME NEW data, NEW n, NEW topDown, NEW height, NEW f, Tree(data, n),
         Drawn(f, data, n, topDown, height), NEW i \in 1 .. n, NEW j \in 1 .. n,
         i # j, f[i].y0 = f[j].y0
  PROVE  f[i].x1 <= f[j].x0 \/ f[j].x1 <= f[i].x0
<1>1. ASSUME NEW k \in 1 .. n, NEW l \in 1 .. n, NEW a \in Lineage(data, k), NEW b \in Lineage(data, l),
             data[a].parent = data[b].parent, a < b
      PROVE  f[k].x1 <= f[l].x0
  <2> DEFINE LK == LeftOf(data, k)
             FK == Family(data, k)
             LL == LeftOf(data, l)
  <2>1. LK \in SUBSET (1 .. n) /\ FK \in SUBSET (1 .. n) /\ LK \intersect FK = {} /\ LL \in SUBSET (1 .. n)
    BY LeftIsAside
  <2>2. LK \union FK \subseteq LL
    BY <1>1, LeftOfLater
  <2>3. f[k].x1 = Weighing(data, LK) + Weighing(data, FK) /\ f[l].x0 = Weighing(data, LL)
    BY DEF Drawn, totalWeight
  <2> HIDE DEF LK, FK, LL
  <2>4. Weighing(data, LK \union FK) = Weighing(data, LK) + Weighing(data, FK)
    BY <2>1, WeighingOfParts
  <2>5. LK \union FK \in SUBSET (1 .. n)
    BY <2>1
  <2>6. Weighing(data, LK \union FK) <= Weighing(data, LL)
    BY <2>1, <2>2, <2>5, WeighingOfParts
  <2>7. QED  BY <2>3, <2>4, <2>6
<1>2. Row(data, i) = Row(data, j)
  <2>1. Row(data, i) \in 1 .. height /\ Row(data, j) \in 1 .. height /\ height \in Nat
    BY DEF Drawn
  <2>2. /\ f[i].y0 = (IF topDown THEN Row(data, i) - 1 ELSE height - Row(data, i))
        /\ f[j].y0 = (IF topDown THEN Row(data, j) - 1 ELSE height - Row(data, j))
    BY DEF Drawn
  <2>3. CASE topDown
    <3>1. f[i].y0 = Row(data, i) - 1 /\ f[j].y0 = Row(data, j) - 1
      BY <2>2, <2>3
    <3>2. Row(data, i) - 1 = Row(data, j) - 1
      BY <3>1
    <3>3. QED  BY <2>1, <3>2
  <2>4. CASE ~topDown
    <3>1. f[i].y0 = height - Row(data, i) /\ f[j].y0 = height - Row(data, j)
      BY <2>2, <2>4
    <3>2. height - Row(data, i) = height - Row(data, j)
      BY <3>1
    <3>3. QED  BY <2>1, <3>2
  <2>5. QED  BY <2>3, <2>4
<1>3. i \notin Lineage(data, j) /\ j \notin Lineage(data, i)
  BY <1>2, HigherRow
<1>4. PICK a \in Lineage(data, i), b \in Lineage(data, j) : a # b /\ data[a].parent = data[b].parent
  BY <1>3, Parting
<1>5. a \in 1 .. n /\ b \in 1 .. n /\ n \in Nat
  BY InLineage, TreeBasics
<1>6. a < b \/ b < a
  BY <1>4, <1>5
<1>7. QED  BY <1>1, <1>4, <1>6

\* What is covered by a frame, gathered from child to child, is its family.
Gathers(f, data, n) ==
  f = [i \in DOMAIN data |-> {i} \union UNION {f[j] : j \in {k \in 1 .. n : data[k].parent = i}}]

LEMMA GathersFamilies ==
  ASSUME NEW data, NEW n, Tree(data, n)
  PROVE  /\ \E f : Gathers(f, data, n)
         /\ \A f : Gathers(f, data, n) => \A i \in 1 .. n : f[i] = Family(data, i)
<1> DEFINE D == DOMAIN data
           g == [i \in D |-> IF i \in 1 .. n THEN Family(data, i) ELSE {i}]
           Children(i) == {k \in 1 .. n : data[k].parent = i}
<1>1. n \in Nat /\ 1 .. n \subseteq D /\ \A k \in 1 .. n : data[k].parent \in 0 .. k - 1
  BY TreeBasics
<1>2. ASSUME NEW i \in D
      PROVE  g[i] = {i} \union UNION {g[j] : j \in Children(i)}
  <2>1. \A j \in Children(i) : j \in D /\ g[j] = Family(data, j)
    BY <1>1
  <2>2. UNION {g[j] : j \in Children(i)} = UNION {Family(data, j) : j \in Children(i)}
    <3> HIDE DEF g
    <3>1. QED  BY <2>1
  <2>3. CASE i \in 1 .. n
    <3>1. g[i] = Family(data, i)
      BY <2>3
    <3>2. Family(data, i) = {i} \union UNION {Family(data, j) : j \in Children(i)}
      BY <2>3, FamilyOfChildren
    <3> HIDE DEF g, Children
    <3>3. QED  BY <2>2, <3>1, <3>2
  <2>4. CASE i \notin 1 .. n
    <3>1. D \subseteq 1 .. n + 1
      BY DEF Tree
    <3>2. i = n + 1 /\ g[i] = {i}
      BY <1>1, <2>4, <3>1
    <3>3. Children(i) = {}
      BY <1>1, <3>2
    <3>4. UNION {g[j] : j \in Children(i)} = {}
      BY <3>3
    <3> HIDE DEF g, Children
    <3>5. QED  BY <3>2, <3>4
  <2>5. QED  BY <2>3, <2>4
<1>3. Gathers(g, data, n)
  <2>1. g = [i \in D |-> g[i]]
    OBVIOUS
  <2> HIDE DEF g
  <2>2. QED  BY <1>2, <2>1, Zenon DEF Gathers
<1>4. ASSUME NEW f, Gathers(f, data, n), NEW i \in 1 .. n
      PROVE  f[i] = Family(data, i)
  <2> DEFINE T == {k \in 1 .. n : f[k] = Family(data, k)}
  <2>1. ASSUME NEW k \in 1 .. n, \A j \in k + 1 .. n : j \in T
        PROVE  k \in T
    <3>1. \A j \in Children(k) : j \in k + 1 .. n
      BY <1>1
    <3>2. \A j \in Children(k) : f[j] = Family(data, j)
      BY <2>1, <3>1
    <3>3. UNION {f[j] : j \in Children(k)} = UNION {Family(data, j) : j \in Children(k)}
      BY <3>2
    <3>4. f[k] = {k} \union UNION {f[j] : j \in Children(k)}
      BY <1>1, <1>4 DEF Gathers
    <3>5. Family(data, k) = {k} \union UNION {Family(data, j) : j \in Children(k)}
      BY FamilyOfChildren
    <3>6. QED  BY <3>3, <3>4, <3>5
  <2>2. \A k \in 1 .. n : k \in T
    <3> HIDE DEF T
    <3>1. QED  BY <1>1, <2>1, ByLater
  <2>3. QED  BY <2>2
<1>5. QED
  <2>1. \E f : Gathers(f, data, n)
    <3> HIDE DEF g
    <3>1. QED  BY <1>3
  <2>2. QED  BY <1>4, <2>1

-----------------------------------------------------------------------------
(* What BuildResponse writes. *)

\* A list of nodes, parents first.
NodeRecord == [parent : Nat, self : Nat, payload : {FALSE}]
NodeLists == Seq(NodeRecord)
NodeList(s, n) ==
  n \in Nat /\ s \in NodeLists /\ Len(s) = n /\ \A j \in 1 .. n : s[j].parent \in 0 .. j - 1

LEMMA NodeAppended ==
  ASSUME NEW s, NEW n, NodeList(s, n), NEW parent \in 0 .. n, NEW self \in Nat
  PROVE  NodeList(Node(s, parent, self), n + 1)
<1> DEFINE node == [parent |-> parent, self |-> self, payload |-> FALSE]
           t == Append(s, node)
<1>1. n \in Nat /\ s \in Seq(NodeRecord) /\ Len(s) = n
  BY DEF NodeList, NodeLists
<1>2. node \in NodeRecord
  BY <1>1 DEF NodeRecord
<1>3. t \in Seq(NodeRecord) /\ Len(t) = n + 1 /\ t[n + 1] = node /\ \A j \in 1 .. n : t[j] = s[j]
  <2> HIDE DEF node
  <2>1. QED  BY <1>1, <1>2
<1>4. ASSUME NEW j \in 1 .. n + 1
      PROVE  t[j].parent \in 0 .. j - 1
  <2>1. CASE j = n + 1
    <3>1. t[j].parent = parent
      BY <1>3, <2>1
    <3>2. QED  BY <1>1, <2>1, <3>1
  <2>2. CASE j # n + 1
    <3>1. j \in 1 .. n
      BY <1>1, <2>2
    <3>2. t[j] = s[j]
      BY <1>3, <3>1
    <3>3. QED  BY <3>1, <3>2 DEF NodeList
  <2>3. QED  BY <2>1, <2>2
<1>5. t = Node(s, parent, self)
  BY DEF Node
<1> HIDE DEF t
<1>6. QED  BY <1>1, <1>3, <1>4, <1>5 DEF NodeList, NodeLists

LEMMA NodeListIsTree ==
  ASSUME NEW s, NEW n, NodeList(s, n)
  PROVE  /\ Tree(s, n)
         /\ n > 0 => Tree(Payload(s, 1), n)
<1>1. n \in Nat /\ s \in Seq(NodeRecord) /\ Len(s) = n /\ DOMAIN s = 1 .. n
  BY DEF NodeList, NodeLists
<1>2. ASSUME NEW j \in 1 .. n
      PROVE  s[j].parent \in 0 .. j - 1 /\ s[j].self \in Nat /\ s[j].payload = FALSE
  <2>1. s[j] \in NodeRecord
    BY <1>1
  <2>2. s[j].self \in Nat /\ s[j].payload = FALSE
    BY <2>1 DEF NodeRecord
  <2>3. QED  BY <2>2 DEF NodeList
<1>3. Tree(s, n)
  <2>1. n + 1 \notin DOMAIN s
    BY <1>1
  <2>2. QED  BY <1>1, <1>2, <2>1 DEF Tree
<1>4. ASSUME n > 0
      PROVE  Tree(Payload(s, 1), n)
  <2> DEFINE node == [parent |-> 1, self |-> 0, payload |-> TRUE]
             t == Append(s, node)
  <2>1. DOMAIN t = 1 .. n + 1 /\ t[n + 1] = node /\ \A j \in 1 .. n : t[j] = s[j]
    <3> HIDE DEF node
    <3>1. QED  BY <1>1
  <2>2. \A j \in 1 .. n : t[j].parent \in 0 .. j - 1 /\ t[j].self \in Nat /\ t[j].payload = FALSE
    BY <1>2, <2>1
  <2>3. t[n + 1].parent = 1 /\ t[n + 1].self = 0 /\ t[n + 1].payload = TRUE
    <3>1. node.parent = 1 /\ node.self = 0 /\ node.payload = TRUE
      BY Zenon
    <3> HIDE DEF node, t
    <3>2. QED  BY <2>1, <3>1
  <2> HIDE DEF t
  <2>4. ASSUME NEW j \in DOMAIN t
        PROVE  t[j].parent \in 0 .. j - 1 /\ t[j].self \in Nat
    <3>1. CASE j = n + 1
      <4>1. t[j].parent = 1 /\ t[j].self = 0
        BY <2>3, <3>1
      <4>2. 1 \in 0 .. j - 1 /\ 0 \in Nat
        BY <1>1, <1>4, <3>1
      <4>3. QED  BY <4>1, <4>2
    <3>2. CASE j # n + 1
      <4>1. j \in 1 .. n
        BY <1>1, <2>1, <3>2
      <4>2. QED  BY <2>2, <4>1
    <3>3. QED  BY <3>1, <3>2
  <2>5. Tree(t, n)
    BY <1>1, <2>1, <2>2, <2>3, <2>4 DEF Tree
  <2>6. t = Payload(s, 1)
    BY DEF t, Payload
  <2>7. QED  BY <2>5, <2>6
<1>5. QED  BY <1>3, <1>4

-----------------------------------------------------------------------------
(* The TreeNodes *)

TreeNodesInv ==
  /\ IsFiniteSet(wo.tree) /\ <<>> \in wo.tree /\ \A tn \in wo.tree : Self[tn] \in Nat
  /\ \A e \in heap : e.tns \subseteq wo.tree
  /\ \A i \in DOMAIN subtree : subtree[i].tns \subseteq wo.tree

LEMMA EntryNodes ==
  ASSUME NEW ptn, NEW tns, NEW parent, NEW path, NEW e \in EntriesByScope(ptn, tns, parent, path)
  PROVE  e.tns \subseteq tns
BY DEF EntriesByScope, newWalkHeapEntry

LEMMA ChildNodes ==
  ASSUME NEW e, NEW parent, NEW path, NEW c \in childEntries(e, parent, path)
  PROVE  c.tns \subseteq wo.tree
<1>1. c.tns \subseteq UNION {treeNodeChildren(e.ptn, tn) : tn \in e.tns}
  BY EntryNodes DEF childEntries
<1>2. \A tn : treeNodeChildren(e.ptn, tn) \subseteq wo.tree
  BY DEF treeNodeChildren, Below
<1>3. QED  BY <1>1, <1>2

LEMMA NextKeepsTreeNodes ==
  ASSUME WalkInv, TreeNodesInv, [Next]_vars
  PROVE  TreeNodesInv'
<1>1. CASE heap' \subseteq heap /\ UNCHANGED <<wo, subtree>>
  BY <1>1 DEF TreeNodesInv
<1>2. CASE StartMerge
  <2>1. UNCHANGED <<wo, subtree>>
    BY <1>2 DEF StartMerge
  <2>2. \A e \in heap' : e \in heap \/ e.tns \subseteq FoundLeaves(MergeTree(wo.mergePrefixes))
    BY <1>2, EntryNodes DEF StartMerge
  <2>3. FoundLeaves(MergeTree(wo.mergePrefixes)) \subseteq wo.tree
    BY DEF FoundLeaves, MergeLeaves
  <2>4. QED  BY <2>1, <2>2, <2>3 DEF TreeNodesInv
<1>3. CASE StartAtRoot
  <2>1. UNCHANGED <<wo, subtree>> /\ \A e \in heap' : e.tns = {<<>>}
    BY <1>3 DEF StartAtRoot, newWalkHeapRoot
  <2>2. QED  BY <2>1 DEF TreeNodesInv
<1>4. ASSUME NEW e \in heap, Visit(e)
      PROVE  TreeNodesInv'
  <2>1. UNCHANGED wo
    BY <1>4 DEF Visit
  <2>2. CASE Return(e)
    <3> DEFINE stn == [parent |-> e.parent, path |-> e.path, tns |-> e.tns, prefix |-> IsPrefixEntry(e)]
               n == Len(subtree)
    <3>1. subtree' = Append(subtree, stn) /\ n \in Nat /\ DOMAIN subtree = 1 .. n
      BY <2>2 DEF Return, WalkInv
    <3>2. DOMAIN subtree' = 1 .. n + 1 /\ \A i \in 1 .. n : subtree'[i] = subtree[i]
      BY <3>1
    <3>3. subtree'[n + 1].tns = e.tns
      BY <3>1
    <3>4. \A i \in DOMAIN subtree' : subtree'[i].tns \subseteq wo.tree
      BY <3>1, <3>2, <3>3 DEF TreeNodesInv
    <3>5. \A f \in heap' : f.tns \subseteq wo.tree
      BY <2>2, ChildNodes DEF Return, TreeNodesInv
    <3>6. QED  BY <2>1, <3>4, <3>5 DEF TreeNodesInv
  <2>3. CASE Elide(e)
    <3>1. \A f \in heap' : f.tns \subseteq wo.tree
      BY <2>3, ChildNodes DEF Elide, TreeNodesInv
    <3>2. UNCHANGED subtree
      BY <2>3 DEF Elide
    <3>3. QED  BY <2>1, <3>1, <3>2 DEF TreeNodesInv
  <2>4. QED  BY <1>1, <1>4, <2>1, <2>2, <2>3 DEF Visit, Skip, Fail
<1>5. CASE Finish
  BY <1>1, <1>5 DEF Finish
<1>6. CASE AskAgain
  <2>1. heap' = {} /\ subtree' = <<>>
    BY <1>6 DEF AskAgain
  <2>2. PICK opts \in Again : wo' = [opts EXCEPT !.tree = wo.tree]
    BY <1>6 DEF AskAgain
  <2>3. opts \in walkOptions
    BY TreesAssumption
  <2>4. wo'.tree = wo.tree
    BY <2>2, <2>3 DEF walkOptions
  <2>5. QED  BY <2>1, <2>4 DEF TreeNodesInv
<1>7. CASE Walk
  BY <1>2, <1>3, <1>4, <1>5, <1>7 DEF Walk, WalkNext
<1>8. CASE BuildResponse
  BY <1>1, <1>8 DEF BuildResponse
<1>9. CASE UNCHANGED serverVars
  BY <1>1, <1>9 DEF serverVars, walkVars
<1>10. CASE OnResponse \/ Lost
  BY <1>1, <1>10 DEF OnResponse, Lost, walkVars
<1>11. CASE Resize \/ RedrawDebounced \/ RedrawObserved \/ Destroy \/ \E tn \in wo.tree : CallOut(tn)
  BY <1>9, <1>11 DEF Resize, RedrawDebounced, RedrawObserved, Destroy, CallOut
<1>12. CASE UNCHANGED vars
  BY <1>9, <1>12 DEF vars
<1>13. QED  BY <1>6, <1>7, <1>8, <1>10, <1>11, <1>12 DEF Next

LEMMA SelfOfIsNat ==
  ASSUME TreeNodesInv, NEW tns \in SUBSET wo.tree
  PROVE  SelfOf(tns) \in Nat
<1>1. SelfOf(tns) = Total(Self, tns)
  BY DEF SelfOf, FoldSet, MapThenFoldSet, Total, Adds, PickOf
<1>2. Weighs(Self, tns)
  BY FS_Subset DEF TreeNodesInv, Weighs
<1>3. QED  BY <1>1, <1>2, TotalInNat

-----------------------------------------------------------------------------
(* The response and the picture *)

Extra == IF MergedRoot THEN 1 ELSE 0

\* One node for each SubtreeNode, and one for the root of a merge.
LEMMA NodesAre ==
  ASSUME WalkInv, TreeNodesInv
  PROVE  /\ NodeList(Nodes, Extra + Len(subtree))
         /\ DOMAIN TreeNodesOf = 1 .. Extra + Len(subtree)
<1> DEFINE k == Len(subtree)
           first == IF MergedRoot THEN Node(<<>>, NoParent, 0) ELSE <<>>
           self(i) == SelfOf(subtree[i].tns)
           Is(f) == f = [i \in 0 .. k |-> IF i = 0 THEN first ELSE Node(f[i - 1], NodeAbove(i), self(i))]
           next == [i \in 1 .. k |-> [s \in NodeLists |-> Node(s, NodeAbove(i), self(i))]]
<1>1. k \in Nat /\ DOMAIN subtree = 1 .. k
  BY DEF WalkInv
<1>2. ASSUME NEW i \in 1 .. k
      PROVE  NodeAbove(i) \in 0 .. Extra + (i - 1) /\ self(i) \in Nat
  <2>1. subtree[i].parent \in 0 .. i - 1
    BY <1>1 DEF WalkInv, ParentsFirst
  <2>2. subtree[i].tns \in SUBSET wo.tree
    BY <1>1 DEF TreeNodesInv
  <2>3. NodeAbove(i) \in 0 .. Extra + (i - 1)
    BY <1>1, <2>1 DEF NodeAbove, Extra
  <2>4. QED  BY <2>2, <2>3, SelfOfIsNat
<1>3. NodeList(first, Extra)
  <2>1. NodeList(<<>>, 0)
    BY DEF NodeList, NodeLists
  <2>2. NodeList(Node(<<>>, NoParent, 0), 0 + 1)
    BY <2>1, NodeAppended DEF NoParent
  <2>3. QED  BY <2>1, <2>2 DEF Extra
<1>4. \A i \in 1 .. k, s \in NodeLists : Node(s, NodeAbove(i), self(i)) \in NodeLists
  <2>1. TAKE i \in 1 .. k, s \in NodeLists
  <2> DEFINE node == [parent |-> NodeAbove(i), self |-> self(i), payload |-> FALSE]
  <2>2. NodeAbove(i) \in Nat /\ self(i) \in Nat
    BY <1>1, <1>2 DEF Extra
  <2>3. node \in NodeRecord
    BY <2>2 DEF NodeRecord
  <2>4. Append(s, node) \in Seq(NodeRecord)
    <3> HIDE DEF node
    <3>1. QED  BY <2>3 DEF NodeLists
  <2>5. QED  BY <2>4 DEF Node, NodeLists
<1>5. \E f : Is(f)
  <2>1. next \in StepFunctions(k, NodeLists)
    <3> HIDE DEF self
    <3>1. QED  BY <1>4 DEF StepFunctions
  <2>2. first \in NodeLists
    BY <1>3 DEF NodeList
  <2>3. PICK f : f \in Runs(k, NodeLists, first, next)
    <3> HIDE DEF next, first
    <3>1. QED  BY <1>1, <2>1, <2>2, Recursion
  <2>4. f \in [0 .. k -> NodeLists] /\ f[0] = first /\ \A i \in 1 .. k : f[i] = next[i][f[i - 1]]
    BY <2>3 DEF Runs
  <2>5. \A i \in 1 .. k : f[i] = Node(f[i - 1], NodeAbove(i), self(i))
    <3>1. \A i \in 1 .. k : f[i - 1] \in NodeLists
      BY <1>1, <2>4
    <3> HIDE DEF self
    <3>2. QED  BY <2>4, <3>1
  <2>6. \A i \in 0 .. k : f[i] = IF i = 0 THEN first ELSE Node(f[i - 1], NodeAbove(i), self(i))
    <3> HIDE DEF self, first
    <3>1. QED  BY <1>1, <2>4, <2>5
  <2>7. f = [i \in 0 .. k |-> f[i]]
    BY <2>4
  <2>8. Is(f)
    <3> HIDE DEF self, first
    <3>1. QED  BY <2>6, <2>7, Zenon
  <2> HIDE DEF Is
  <2>9. QED  BY <2>8
<1>6. Nodes = (CHOOSE f : Is(f))[k]
  BY DEF Nodes
<1>7. PICK f : Is(f) /\ Nodes = f[k]
  <2>1. Is(CHOOSE f : Is(f))
    <3> HIDE DEF Is
    <3>1. QED  BY <1>5
  <2> HIDE DEF Is
  <2>2. QED  BY <1>6, <2>1
<1>8. \A i \in 0 .. k : f[i] = IF i = 0 THEN first ELSE Node(f[i - 1], NodeAbove(i), self(i))
  <2> HIDE DEF first, self
  <2>1. QED  BY <1>7
<1> DEFINE T == {i \in 0 .. k : NodeList(f[i], Extra + i)}
<1>9. 0 \in T
  <2>1. f[0] = first /\ Extra + 0 = Extra
    <3> HIDE DEF first, self
    <3>1. QED  BY <1>1, <1>8 DEF Extra
  <2> HIDE DEF first
  <2>2. QED  BY <1>1, <1>3, <2>1
<1>10. ASSUME NEW i \in 0 .. k - 1, i \in T
       PROVE  i + 1 \in T
  <2>1. i + 1 \in 1 .. k /\ (i + 1) - 1 = i /\ i + 1 # 0 /\ i + 1 \in 0 .. k
    BY <1>1
  <2>2. f[i + 1] = Node(f[i], NodeAbove(i + 1), self(i + 1))
    <3> HIDE DEF first, self
    <3>1. QED  BY <1>8, <2>1
  <2>3. NodeAbove(i + 1) \in 0 .. Extra + i /\ self(i + 1) \in Nat
    <3> HIDE DEF self
    <3>1. QED  BY <1>2, <2>1
  <2>4. NodeList(f[i], Extra + i)
    BY <1>10
  <2>5. NodeList(f[i + 1], (Extra + i) + 1)
    <3> HIDE DEF self
    <3>1. QED  BY <2>2, <2>3, <2>4, NodeAppended
  <2>6. (Extra + i) + 1 = Extra + (i + 1)
    BY <1>1 DEF Extra
  <2>7. QED  BY <2>1, <2>5, <2>6
<1>11. k \in T
  <2> HIDE DEF T, Is
  <2>1. QED  BY <1>1, <1>9, <1>10, Induction
<1>12. NodeList(Nodes, Extra + k)
  BY <1>7, <1>11
<1>13. DOMAIN TreeNodesOf = 1 .. Extra + k
  <2> DEFINE rest == [i \in DOMAIN subtree |-> subtree[i].tns]
             AllTns == {subtree[i].tns : i \in 1 .. k} \union {root.tns}
  <2>1. rest \in Seq(AllTns) /\ Len(rest) = k
    BY <1>1
  <2>2. <<root.tns>> \in Seq(AllTns) /\ Len(<<root.tns>>) = 1 /\ <<>> \in Seq(AllTns) /\ Len(<<>>) = 0
    <3>1. root.tns \in AllTns
      OBVIOUS
    <3> HIDE DEF AllTns
    <3>2. QED  BY <3>1
  <2>3. TreeNodesOf = IF MergedRoot THEN <<root.tns>> \o rest ELSE <<>> \o rest
    BY DEF TreeNodesOf
  <2> HIDE DEF rest, AllTns
  <2>4. CASE MergedRoot
    BY <1>1, <2>1, <2>2, <2>3, <2>4 DEF Extra
  <2>5. CASE ~MergedRoot
    BY <1>1, <2>1, <2>2, <2>3, <2>5 DEF Extra
  <2>6. QED  BY <2>4, <2>5
<1>14. QED  BY <1>12, <1>13

\* A response is a tree with the TreeNodes of each of its nodes, and what is shown
\* is drawn from one.
HasTree(resp) == \E n : Tree(resp.data, n) /\ DOMAIN resp.tns = 1 .. n
PictureInv ==
  /\ HasTree(response) /\ HasTree(shown)
  /\ frames = renderTree(shown.data, shown.topDown)

ViewInv == WalkInv /\ TreeNodesInv /\ PictureInv

LEMMA NoResponseHasTree == HasTree(NoResponse)
<1>1. NoResponse.data = <<>> /\ DOMAIN NoResponse.tns = 1 .. 0
  BY DEF NoResponse
<1>2. Tree(<<>>, 0)
  BY DEF Tree
<1>3. QED  BY <1>1, <1>2 DEF HasTree

LEMMA InitialView == Init => ViewInv
<1>1. SUFFICES ASSUME Init
               PROVE  ViewInv
  OBVIOUS
<1>2. WalkInv
  BY <1>1 DEF Init, WalkInit, WalkInv, ParentsFirst
<1>3. TreeNodesInv
  BY <1>1, TreesAssumption DEF Init, WalkInit, TreeNodesInv
<1>4. HasTree(NoResponse)
  BY NoResponseHasTree
<1>5. frames = renderTree(shown.data, shown.topDown)
  <2>1. frames = <<>> /\ shown.data = <<>>
    BY <1>1 DEF Init, NoResponse
  <2>2. structural(<<>>) = {}
    BY DEF structural
  <2> DEFINE r == renderTree(<<>>, shown.topDown)
  <2>3. DOMAIN r = {} /\ r = [i \in DOMAIN r |-> r[i]]
    BY <2>2 DEF renderTree
  <2> HIDE DEF r
  <2>4. r = <<>>
    BY <2>3
  <2>5. QED  BY <2>1, <2>4 DEF r
<1>6. QED  BY <1>1, <1>2, <1>3, <1>4, <1>5 DEF Init, ViewInv, PictureInv

LEMMA BuildKeepsPicture ==
  ASSUME ViewInv, BuildResponse
  PROVE  PictureInv'
<1> DEFINE n == Extra + Len(subtree)
<1>1. PICK topDown \in BOOLEAN, withPayload \in BOOLEAN :
             response' = [data |-> IF withPayload /\ Nodes # <<>> THEN Payload(Nodes, 1) ELSE Nodes,
                          topDown |-> topDown, tns |-> TreeNodesOf, ask |-> asks]
  BY DEF BuildResponse
<1>2. NodeList(Nodes, n) /\ DOMAIN TreeNodesOf = 1 .. n
  BY NodesAre DEF ViewInv
<1> HIDE DEF n
<1>3. Tree(Nodes, n) /\ (Nodes # <<>> => Tree(Payload(Nodes, 1), n))
  <2>1. Nodes # <<>> => n > 0
    BY <1>2 DEF NodeList, NodeLists
  <2>2. QED  BY <1>2, <2>1, NodeListIsTree
<1>4. response'.tns = TreeNodesOf /\ response'.data = (IF withPayload /\ Nodes # <<>> THEN Payload(Nodes, 1) ELSE Nodes)
  BY <1>1
<1>5. Tree(response'.data, n)
  BY <1>3, <1>4
<1>6. HasTree(response')
  BY <1>2, <1>4, <1>5 DEF HasTree
<1>7. UNCHANGED <<shown, frames>>
  BY DEF BuildResponse, viewVars
<1>8. QED  BY <1>6, <1>7 DEF ViewInv, PictureInv, HasTree

LEMMA NextKeepsPicture ==
  ASSUME ViewInv, [Next]_vars
  PROVE  PictureInv'
<1>1. CASE UNCHANGED <<response, shown, frames>>
  BY <1>1 DEF ViewInv, PictureInv, HasTree
<1>2. CASE OnResponse
  <2>1. shown' = response /\ frames' = renderTree(response.data, response.topDown) /\ response' = NoResponse
    BY <1>2 DEF OnResponse
  <2>2. HasTree(shown') /\ frames' = renderTree(shown'.data, shown'.topDown)
    BY <2>1 DEF ViewInv, PictureInv, HasTree
  <2>3. HasTree(response')
    BY <2>1, NoResponseHasTree
  <2>4. QED  BY <2>2, <2>3 DEF PictureInv, HasTree
<1>3. CASE Lost
  <2>1. UNCHANGED <<shown, frames>> /\ response' = NoResponse
    BY <1>3 DEF Lost, viewVars
  <2>2. HasTree(response')
    BY <2>1, NoResponseHasTree
  <2>3. QED  BY <2>1, <2>2 DEF ViewInv, PictureInv, HasTree
<1>4. CASE Walk \/ AskAgain
  BY <1>1, <1>4 DEF Walk, AskAgain, viewVars
<1>5. CASE BuildResponse
  BY <1>5, BuildKeepsPicture
<1>6. CASE Resize \/ RedrawDebounced \/ RedrawObserved \/ Destroy \/ \E tn \in wo.tree : CallOut(tn)
  BY <1>1, <1>6 DEF Resize, RedrawDebounced, RedrawObserved, Destroy, CallOut, serverVars
<1>7. CASE UNCHANGED vars
  BY <1>1, <1>7 DEF vars, serverVars, viewVars
<1>8. QED  BY <1>2, <1>3, <1>4, <1>5, <1>6, <1>7 DEF Next

LEMMA PictureNests ==
  ASSUME PictureInv
  PROVE  FramesNest
<1> DEFINE data == shown.data
           topDown == shown.topDown
           f == frames
<1>1. PICK n : Tree(data, n) /\ DOMAIN shown.tns = 1 .. n
  BY DEF PictureInv, HasTree
<1>2. PICK height : Drawn(f, data, n, topDown, height)
  BY <1>1, RenderDraws DEF PictureInv
<1>3. DOMAIN f = 1 .. n /\ n \in Nat
  BY <1>1, <1>2 DEF Drawn, Tree
<1>4. {f[i].id : i \in DOMAIN f} = 0 .. Cardinality(DOMAIN f) - 1
  <2>1. Cardinality(1 .. n) = n
    BY <1>3, FS_Interval
  <2>2. \A i \in 1 .. n : f[i].id = Cardinality(Before(data, i))
    BY <1>2 DEF Drawn
  <2>3. {f[i].id : i \in 1 .. n} = {Cardinality(Before(data, i)) : i \in 1 .. n}
    <3> HIDE DEF f, data
    <3>1. QED  BY <2>2
  <2> HIDE DEF f, data
  <2>4. QED  BY <1>1, <1>3, <2>1, <2>3, IdsAreAll
<1>5. ASSUME NEW i \in 1 .. n
      PROVE  FoldSet(LAMBDA j, sum : data[j].self + sum, 0, Covered(i)) = Weighing(data, Family(data, i))
  <2> DEFINE Is(g) == g = [k \in DOMAIN data |-> {k} \union UNION {g[j] : j \in {c \in DOMAIN f : data[c].parent = k}}]
  <2>1. Covered(i) = (CHOOSE g : Is(g))[i]
    BY DEF Covered
  <2>2. \A g : Is(g) <=> Gathers(g, data, n)
    <3> HIDE DEF f, data
    <3>1. QED  BY <1>3 DEF Gathers
  <2>3. (CHOOSE g : Is(g)) = (CHOOSE g : Gathers(g, data, n))
    <3> HIDE DEF Is, data
    <3>1. QED  BY <2>2
  <2>4. Gathers(CHOOSE g : Gathers(g, data, n), data, n)
    <3> HIDE DEF data
    <3>1. QED  BY <1>1, GathersFamilies
  <2>5. Covered(i) = Family(data, i)
    <3> HIDE DEF data, Is
    <3>1. QED  BY <1>1, <2>1, <2>3, <2>4, GathersFamilies
  <2>6. QED  BY <2>5 DEF Weighing, MapThenSumSet, FoldSet, MapThenFoldSet
<1>6. ASSUME NEW i \in 1 .. n
      PROVE  /\ f[i].y0 >= 0 /\ f[i].y1 <= Height(f)
             /\ f[i].x0 >= 0 /\ f[i].x1 <= wholeWeight(data)
             /\ f[i].x1 - f[i].x0 = FoldSet(LAMBDA j, sum : data[j].self + sum, 0, Covered(i))
  <2>1. /\ f[i].y0 >= 0 /\ f[i].y1 <= Height(f)
        /\ f[i].x0 >= 0 /\ f[i].x1 <= wholeWeight(data)
        /\ f[i].x1 - f[i].x0 = Weighing(data, Family(data, i))
    <3> HIDE DEF f, data, topDown
    <3>1. QED  BY <1>1, <1>2, FrameInPicture
  <2>2. QED  BY <1>5, <2>1
<1>7. ASSUME NEW i \in 1 .. n, data[i].parent # NoParent
      PROVE  LET p == data[i].parent IN
               /\ IF topDown THEN f[p].y1 = f[i].y0 ELSE f[i].y1 = f[p].y0
               /\ f[p].x0 <= f[i].x0 /\ f[i].x1 <= f[p].x1
  <2> HIDE DEF f, data, topDown
  <2>1. QED  BY <1>1, <1>2, <1>7, FrameInParent
<1>8. ASSUME NEW i \in 1 .. n, NEW j \in 1 .. n, i # j, f[i].y0 = f[j].y0
      PROVE  f[i].x1 <= f[j].x0 \/ f[j].x1 <= f[i].x0
  <2> HIDE DEF f, data, topDown
  <2>1. QED  BY <1>1, <1>2, <1>8, FramesAside
<1>9. QED  BY <1>1, <1>3, <1>4, <1>6, <1>7, <1>8 DEF FramesNest

(***************************************************************************)
(* weighted_tree.ts: the frames of any tree that a walk can return nest,   *)
(* whatever its shape and weights.                                         *)
(***************************************************************************)
THEOREM FramesAlwaysNest == Spec => []FramesNest
<1>1. Init => ViewInv
  BY InitialView
<1>2. ViewInv /\ [Next]_vars => ViewInv'
  BY NextKeepsWalk, NextKeepsTreeNodes, NextKeepsPicture DEF ViewInv
<1>3. ViewInv => FramesNest
  BY PictureNests DEF ViewInv
<1>4. QED  BY <1>1, <1>2, <1>3, PTL DEF Spec

-----------------------------------------------------------------------------
(* Paths *)

\* The first k scopes of a path.
Cut(d, k) == SubSeq(d, 1, k)

LEMMA CutIs ==
  ASSUME NEW d \in Path, NEW k \in 0 .. Len(d)
  PROVE  /\ Cut(d, k) \in Path /\ Len(Cut(d, k)) = k
         /\ \A i \in 1 .. k : Cut(d, k)[i] = d[i]
BY DEF Cut, Path

LEMMA PathsEqual ==
  ASSUME NEW p \in Path, NEW q \in Path, Len(p) = Len(q), \A i \in 1 .. Len(p) : p[i] = q[i]
  PROVE  p = q
BY SeqEqual DEF Path

LEMMA PrefixIs ==
  ASSUME NEW p \in Path, NEW q \in Path
  PROVE  /\ IsPrefix(p, q) <=> Len(p) <= Len(q) /\ p = Cut(q, Len(p))
         /\ IsPrefix(p, q) <=> Len(p) <= Len(q) /\ \A i \in 1 .. Len(p) : p[i] = q[i]
<1>1. Len(p) \in Nat /\ Len(q) \in Nat
  BY DEF Path
<1>2. SubSeq(p, 1, Len(p)) = p
  BY SubSeqFull DEF Path
<1>3. IsPrefix(p, q) <=> Len(p) <= Len(q) /\ p = Cut(q, Len(p))
  BY <1>2 DEF IsPrefix, Cut
<1>4. ASSUME Len(p) <= Len(q)
      PROVE  p = Cut(q, Len(p)) <=> \A i \in 1 .. Len(p) : p[i] = q[i]
  <2>1. Len(p) \in 0 .. Len(q)
    BY <1>1, <1>4
  <2>2. Cut(q, Len(p)) \in Path /\ Len(Cut(q, Len(p))) = Len(p) /\ \A i \in 1 .. Len(p) : Cut(q, Len(p))[i] = q[i]
    BY <2>1, CutIs
  <2>3. (\A i \in 1 .. Len(p) : p[i] = q[i]) => p = Cut(q, Len(p))
    BY <2>2, PathsEqual
  <2>4. QED  BY <2>2, <2>3
<1>5. QED  BY <1>3, <1>4

LEMMA PrefixOrder ==
  ASSUME NEW p \in Path, NEW q \in Path
  PROVE  /\ IsPrefix(p, p) /\ IsPrefix(<<>>, p)
         /\ \A r \in Path : IsPrefix(p, q) /\ IsPrefix(q, r) => IsPrefix(p, r)
         /\ IsPrefix(p, q) => Len(p) <= Len(q)
         /\ IsPrefix(p, q) /\ Len(q) <= Len(p) => p = q
         /\ \A r \in Path : IsPrefix(p, r) /\ IsPrefix(q, r) /\ Len(p) <= Len(q) => IsPrefix(p, q)
<1>1. Len(p) \in Nat /\ Len(q) \in Nat /\ <<>> \in Path /\ Len(<<>>) = 0
  BY DEF Path
<1>2. IsPrefix(p, p) /\ IsPrefix(<<>>, p)
  BY <1>1, PrefixIs
<1>3. ASSUME NEW r \in Path, IsPrefix(p, q), IsPrefix(q, r)
      PROVE  IsPrefix(p, r)
  <2>1. Len(p) <= Len(q) /\ Len(q) <= Len(r) /\ Len(r) \in Nat
    BY <1>3, PrefixIs DEF Path
  <2>2. (\A i \in 1 .. Len(p) : p[i] = q[i]) /\ \A i \in 1 .. Len(q) : q[i] = r[i]
    BY <1>3, PrefixIs
  <2>3. \A i \in 1 .. Len(p) : p[i] = r[i]
    BY <1>1, <2>1, <2>2
  <2>4. QED  BY <1>1, <2>1, <2>3, PrefixIs
<1>4. IsPrefix(p, q) => Len(p) <= Len(q)
  BY PrefixIs
<1>5. ASSUME IsPrefix(p, q), Len(q) <= Len(p)
      PROVE  p = q
  <2>1. Len(p) = Len(q)
    BY <1>1, <1>4, <1>5
  <2>2. \A i \in 1 .. Len(p) : p[i] = q[i]
    BY <1>5, PrefixIs
  <2>3. QED  BY <2>1, <2>2, PathsEqual
<1>6. ASSUME NEW r \in Path, IsPrefix(p, r), IsPrefix(q, r), Len(p) <= Len(q)
      PROVE  IsPrefix(p, q)
  <2>1. (\A i \in 1 .. Len(p) : p[i] = r[i]) /\ \A i \in 1 .. Len(q) : q[i] = r[i]
    BY <1>6, PrefixIs
  <2>2. \A i \in 1 .. Len(p) : p[i] = q[i]
    BY <1>1, <1>6, <2>1
  <2>3. QED  BY <1>6, <2>2, PrefixIs
<1>7. QED  BY <1>2, <1>3, <1>4, <1>5, <1>6

LEMMA CutIsPrefix ==
  ASSUME NEW d \in Path, NEW k \in 0 .. Len(d)
  PROVE  IsPrefix(Cut(d, k), d)
BY CutIs, PrefixIs

LEMMA CutOfCut ==
  ASSUME NEW d \in Path, NEW k \in 0 .. Len(d), NEW j \in 0 .. k
  PROVE  Cut(Cut(d, k), j) = Cut(d, j)
<1>1. Len(d) \in Nat /\ j \in 0 .. Len(d)
  BY DEF Path
<1>2. Cut(d, k) \in Path /\ Len(Cut(d, k)) = k /\ \A i \in 1 .. k : Cut(d, k)[i] = d[i]
  BY CutIs
<1>3. Cut(d, j) \in Path /\ Len(Cut(d, j)) = j /\ \A i \in 1 .. j : Cut(d, j)[i] = d[i]
  BY <1>1, CutIs
<1>4. /\ Cut(Cut(d, k), j) \in Path /\ Len(Cut(Cut(d, k), j)) = j
      /\ \A i \in 1 .. j : Cut(Cut(d, k), j)[i] = Cut(d, k)[i]
  BY <1>2, CutIs
<1>5. \A i \in 1 .. j : Cut(Cut(d, k), j)[i] = Cut(d, j)[i]
  BY <1>2, <1>3, <1>4
<1>6. QED  BY <1>3, <1>4, <1>5, PathsEqual

\* A path other than the empty one is another path with a scope behind it.
LEMMA FrontIs ==
  ASSUME NEW d \in Path, d # <<>>
  PROVE  /\ Len(d) \in Nat \ {0} /\ Front(d) \in Path /\ Len(Front(d)) = Len(d) - 1
         /\ Last(d) \in Nat \ {0} /\ d = Append(Front(d), Last(d))
         /\ Front(d) = Cut(d, Len(d) - 1) /\ Last(d) = d[Len(d)]
<1>1. Len(d) \in Nat \ {0}
  BY DEF Path
<1>2. Front(d) = Cut(d, Len(d) - 1) /\ Last(d) = d[Len(d)]
  BY DEF Front, Last, Cut
<1>3. Front(d) \in Path /\ Len(Front(d)) = Len(d) - 1 /\ \A i \in 1 .. Len(d) - 1 : Front(d)[i] = d[i]
  <2>1. Len(d) - 1 \in 0 .. Len(d)
    BY <1>1
  <2>2. QED  BY <1>2, <2>1, CutIs
<1>4. Last(d) \in Nat \ {0}
  BY <1>1, <1>2 DEF Path
<1>5. d = Append(Front(d), Last(d))
  <2>1. Append(Front(d), Last(d)) \in Path
    BY <1>3, <1>4 DEF Path
  <2>2. Len(Append(Front(d), Last(d))) = Len(d)
    BY <1>1, <1>3 DEF Path
  <2>3. ASSUME NEW i \in 1 .. Len(d)
        PROVE  d[i] = Append(Front(d), Last(d))[i]
    <3>1. Front(d) \in Seq(Nat \ {0})
      BY <1>3 DEF Path
    <3>2. CASE i = Len(d)
      BY <1>1, <1>2, <1>3, <1>4, <3>1, <3>2
    <3>3. CASE i # Len(d)
      <4>1. i \in 1 .. Len(Front(d))
        BY <1>1, <1>3, <3>3
      <4>2. QED  BY <1>3, <1>4, <3>1, <4>1
    <3>4. QED  BY <3>2, <3>3
  <2>4. QED  BY <2>1, <2>2, <2>3, PathsEqual
<1>6. QED  BY <1>1, <1>2, <1>3, <1>4, <1>5

LEMMA AppendIs ==
  ASSUME NEW p \in Path, NEW s \in Nat \ {0}
  PROVE  /\ Append(p, s) \in Path /\ Append(p, s) # <<>> /\ Len(Append(p, s)) = Len(p) + 1
         /\ Front(Append(p, s)) = p /\ Last(Append(p, s)) = s
         /\ IsStrictPrefix(p, Append(p, s))
<1> DEFINE d == Append(p, s)
<1>1. d \in Path /\ Len(d) = Len(p) + 1 /\ Len(p) \in Nat /\ d[Len(p) + 1] = s /\ \A i \in 1 .. Len(p) : d[i] = p[i]
  BY DEF Path
<1>2. d # <<>>
  BY <1>1
<1> HIDE DEF d
<1>3. Front(d) \in Path /\ Len(Front(d)) = Len(p) /\ Last(d) = s /\ Front(d) = Cut(d, Len(p))
  BY <1>1, <1>2, FrontIs
<1>4. \A i \in 1 .. Len(p) : Front(d)[i] = p[i]
  BY <1>1, <1>3, CutIs
<1>5. Front(d) = p
  BY <1>3, <1>4, PathsEqual
<1>6. IsPrefix(p, d) /\ p # d
  BY <1>1, PrefixIs
<1>7. QED  BY <1>1, <1>2, <1>3, <1>5, <1>6 DEF IsStrictPrefix, d

\* What comes before a path, comes before its front or is the path.
LEMMA PrefixOfNext ==
  ASSUME NEW q \in Path, NEW d \in Path, d # <<>>
  PROVE  /\ IsPrefix(q, d) <=> q = d \/ IsPrefix(q, Front(d))
         /\ IsStrictPrefix(q, d) <=> IsPrefix(q, Front(d))
<1>1. Len(d) \in Nat \ {0} /\ Front(d) \in Path /\ Len(Front(d)) = Len(d) - 1 /\ Front(d) = Cut(d, Len(d) - 1)
  BY FrontIs
<1>2. IsPrefix(Front(d), d)
  BY <1>1, CutIsPrefix
<1>3. ASSUME IsPrefix(q, d), q # d
      PROVE  IsPrefix(q, Front(d))
  <2>1. Len(q) \in Nat /\ Len(q) <= Len(d) - 1
    BY <1>1, <1>3, PrefixOrder DEF Path
  <2>2. QED  BY <1>1, <1>2, <1>3, <2>1, PrefixOrder
<1>4. ASSUME IsPrefix(q, Front(d))
      PROVE  IsPrefix(q, d) /\ q # d
  <2>1. IsPrefix(q, d)
    BY <1>1, <1>2, <1>4, PrefixOrder
  <2>2. Len(q) <= Len(d) - 1
    BY <1>1, <1>4, PrefixOrder
  <2>3. QED  BY <1>1, <2>1, <2>2
<1>5. IsPrefix(d, d)
  BY PrefixOrder
<1>6. QED  BY <1>3, <1>4, <1>5 DEF IsStrictPrefix

LEMMA PrefixesAre ==
  ASSUME NEW d \in Path
  PROVE  /\ \A q \in Path : q \in PrefixesOf(d) <=> IsPrefix(q, d)
         /\ PrefixesOf(d) \subseteq Path /\ IsFiniteSet({q \in Path : IsPrefix(q, d)})
<1>1. Len(d) \in Nat
  BY DEF Path
<1>2. PrefixesOf(d) = {Cut(d, k) : k \in 0 .. Len(d)}
  BY DEF PrefixesOf, Cut
<1>3. \A q \in Path : q \in PrefixesOf(d) <=> IsPrefix(q, d)
  <2>1. TAKE q \in Path
  <2>2. IsPrefix(q, d) => q = Cut(d, Len(q)) /\ Len(q) \in 0 .. Len(d)
    BY <1>1, PrefixIs DEF Path
  <2>3. q \in PrefixesOf(d) => IsPrefix(q, d)
    BY <1>2, CutIsPrefix
  <2>4. QED  BY <1>2, <2>2, <2>3
<1>4. PrefixesOf(d) \subseteq Path
  BY <1>2, CutIs
<1>5. IsFiniteSet(PrefixesOf(d))
  <2> DEFINE f == [k \in 0 .. Len(d) |-> Cut(d, k)]
  <2>1. IsFiniteSet(0 .. Len(d))
    BY <1>1, FS_Interval
  <2>2. f \in Surjection(0 .. Len(d), PrefixesOf(d))
    BY <1>2 DEF Surjection
  <2>3. QED  BY <2>1, <2>2, FS_Surjection
<1>6. {q \in Path : IsPrefix(q, d)} = PrefixesOf(d)
  BY <1>3, <1>4
<1>7. QED  BY <1>3, <1>4, <1>5, <1>6

-----------------------------------------------------------------------------
(* Visible paths *)

Base(start) == IF start = <<>> THEN <<>> ELSE <<Last(start)>>

Kept(start, tn) == {k \in Len(start) + 1 .. Len(tn) : SubSeq(tn, 1, k) \notin wo.elided}
NextVisible(f, start, tn, k) ==
  IF k = Len(start) THEN IF start = <<>> THEN <<>> ELSE <<Last(start)>>
  ELSE IF k \in Kept(start, tn) THEN Append(f[k - 1], tn[k]) ELSE f[k - 1]
Traces(f, start, tn) == f = [k \in Len(start) .. Len(tn) |-> NextVisible(f, start, tn, k)]

LEMMA VisibleChosen ==
  ASSUME NEW start, NEW tn
  PROVE  VisiblePath(start, tn) = (CHOOSE f : Traces(f, start, tn))[Len(tn)]
BY DEF VisiblePath, Traces, NextVisible, Kept

LEMMA BaseIsPath ==
  ASSUME NEW start \in Path
  PROVE  /\ Base(start) \in Path /\ Len(Base(start)) = IF start = <<>> THEN 0 ELSE 1
         /\ start # <<>> => Base(start) = Append(<<>>, Last(start))
<1>1. CASE start = <<>>
  BY <1>1 DEF Base, Path
<1>2. CASE start # <<>>
  <2>1. Last(start) \in Nat \ {0} /\ Base(start) = <<Last(start)>>
    BY <1>2, FrontIs DEF Base
  <2>2. Base(start) = Append(<<>>, Last(start))
    BY <2>1
  <2>3. QED  BY <1>2, <2>1, <2>2 DEF Path
<1>3. QED  BY <1>1, <1>2

LEMMA TracesExist ==
  ASSUME NEW start \in Path, NEW tn \in Path, Len(start) <= Len(tn)
  PROVE  \E f \in [Len(start) .. Len(tn) -> Path] : Traces(f, start, tn)
<1> DEFINE a == Len(start)
           n == Len(tn) - a
           step(i) == [p \in Path |-> IF a + i \in Kept(start, tn) THEN Append(p, tn[a + i]) ELSE p]
           next == [i \in 1 .. n |-> step(i)]
<1>1. a \in Nat /\ n \in Nat /\ Len(tn) \in Nat /\ a + n = Len(tn)
  BY DEF Path
<1>2. next \in StepFunctions(n, Path)
  <2>1. ASSUME NEW i \in 1 .. n, NEW p \in Path
        PROVE  (IF a + i \in Kept(start, tn) THEN Append(p, tn[a + i]) ELSE p) \in Path
    <3>1. a + i \in 1 .. Len(tn)
      BY <1>1
    <3>2. tn[a + i] \in Nat \ {0}
      BY <3>1 DEF Path
    <3>3. Append(p, tn[a + i]) \in Path
      BY <3>2, AppendIs
    <3>4. QED  BY <3>3
  <2> HIDE DEF a, n
  <2>2. QED  BY <2>1 DEF StepFunctions
<1>3. Base(start) \in Path
  BY BaseIsPath
<1>4. PICK g : g \in Runs(n, Path, Base(start), next)
  <2> HIDE DEF n, next
  <2>1. QED  BY <1>1, <1>2, <1>3, Recursion
<1>5. g \in [0 .. n -> Path] /\ g[0] = Base(start) /\ \A i \in 1 .. n : g[i] = next[i][g[i - 1]]
  BY <1>4 DEF Runs
<1> DEFINE f == [k \in a .. Len(tn) |-> g[k - a]]
<1>6. ASSUME NEW k \in a .. Len(tn)
      PROVE  f[k] \in Path /\ f[k] = NextVisible(f, start, tn, k)
  <2>1. k - a \in 0 .. n /\ f[k] = g[k - a]
    BY <1>1
  <2>2. CASE k = a
    BY <1>1, <1>5, <2>1, <2>2 DEF NextVisible, Base
  <2>3. CASE k # a
    <3>1. k - a \in 1 .. n /\ k - a - 1 \in 0 .. n /\ k - 1 \in a .. Len(tn) /\ a + (k - a) = k /\ (k - 1) - a = k - a - 1
      BY <1>1, <2>3
    <3>2. f[k - 1] = g[k - a - 1] /\ g[k - a - 1] \in Path
      BY <1>5, <3>1
    <3>3. g[k - a] = next[k - a][g[k - a - 1]]
      BY <1>5, <3>1
    <3>4. next[k - a] = step(k - a)
      BY <3>1
    <3>5. g[k - a] = IF k \in Kept(start, tn) THEN Append(g[k - a - 1], tn[k]) ELSE g[k - a - 1]
      <4>1. step(k - a)[g[k - a - 1]] = IF a + (k - a) \in Kept(start, tn) THEN Append(g[k - a - 1], tn[a + (k - a)]) ELSE g[k - a - 1]
        BY <3>2
      <4> HIDE DEF step, next, f
      <4>2. QED  BY <3>1, <3>3, <3>4, <4>1
    <3> HIDE DEF f, next
    <3>6. QED  BY <1>5, <2>1, <2>3, <3>2, <3>5 DEF NextVisible
  <2>4. QED  BY <2>2, <2>3
<1>7. f = [k \in a .. Len(tn) |-> f[k]]
  OBVIOUS
<1> HIDE DEF f
<1>8. f \in [a .. Len(tn) -> Path]
  BY <1>6, <1>7
<1>9. f = [k \in a .. Len(tn) |-> NextVisible(f, start, tn, k)]
  BY <1>6, <1>7
<1>10. QED  BY <1>8, <1>9 DEF Traces

\* Two that trace a path agree on as much of it as both know.
LEMMA TracesAgree ==
  ASSUME NEW start \in Path, NEW d \in Path, NEW b \in Len(start) .. Len(d),
         NEW f, NEW g, Traces(f, start, d), Traces(g, start, Cut(d, b))
  PROVE  \A k \in Len(start) .. b : f[k] = g[k]
<1> DEFINE a == Len(start)
           c == Cut(d, b)
<1>1. a \in Nat /\ Len(d) \in Nat /\ b \in 0 .. Len(d) /\ b \in Nat
  BY DEF Path
<1>2. c \in Path /\ Len(c) = b /\ \A i \in 1 .. b : c[i] = d[i]
  BY <1>1, CutIs
<1>3. ASSUME NEW k \in a + 1 .. b
      PROVE  k \in Kept(start, d) <=> k \in Kept(start, c)
  <2>1. SubSeq(c, 1, k) = SubSeq(d, 1, k)
    <3>1. k \in 0 .. b
      BY <1>1
    <3>2. QED  BY <1>1, <3>1, CutOfCut DEF Cut
  <2>2. k \in a + 1 .. Len(d) /\ k \in a + 1 .. Len(c)
    BY <1>1, <1>2
  <2> HIDE DEF c
  <2>3. QED  BY <2>1, <2>2, Zenon DEF Kept
<1>4. f[a] = g[a]
  <2>1. a \in a .. Len(d) /\ a \in a .. Len(c)
    BY <1>1, <1>2
  <2>2. f[a] = NextVisible(f, start, d, a) /\ g[a] = NextVisible(g, start, c, a)
    BY <2>1, Zenon DEF Traces
  <2>3. QED  BY <2>2 DEF NextVisible
<1>5. ASSUME NEW k \in a + 1 .. b, f[k - 1] = g[k - 1]
      PROVE  f[k] = g[k]
  <2>1. k \in a .. Len(d) /\ k \in a .. Len(c) /\ k # a /\ k \in 1 .. b
    BY <1>1, <1>2
  <2>2. f[k] = NextVisible(f, start, d, k) /\ g[k] = NextVisible(g, start, c, k)
    BY <2>1, Zenon DEF Traces
  <2>3. QED  BY <1>2, <1>3, <1>5, <2>1, <2>2 DEF NextVisible
<1> DEFINE T == {i \in 0 .. b - a : f[a + i] = g[a + i]}
<1>6. ASSUME NEW n \in 0 .. b - a
      PROVE  n \in T
  <2>1. 0 \in T
    BY <1>1, <1>4
  <2>2. ASSUME NEW i \in 0 .. n - 1, i \in T
        PROVE  i + 1 \in T
    <3>1. a + i + 1 \in a + 1 .. b /\ (a + i + 1) - 1 = a + i /\ a + (i + 1) = a + i + 1 /\ i + 1 \in 0 .. b - a
      BY <1>1
    <3>2. f[a + i + 1] = g[a + i + 1]
      BY <1>5, <2>2, <3>1
    <3>3. QED  BY <3>1, <3>2
  <2>3. n \in Nat
    BY <1>1
  <2> HIDE DEF T
  <2>4. QED  BY <2>1, <2>2, <2>3, Induction
<1>7. TAKE k \in a .. b
<1>8. k - a \in 0 .. b - a /\ a + (k - a) = k
  BY <1>1
<1>9. QED  BY <1>6, <1>8

LEMMA VisibleTraced ==
  ASSUME NEW start \in Path, NEW tn \in Path, Len(start) <= Len(tn)
  PROVE  \E f \in [Len(start) .. Len(tn) -> Path] : Traces(f, start, tn) /\ VisiblePath(start, tn) = f[Len(tn)]
<1> DEFINE g == CHOOSE f : Traces(f, start, tn)
<1>1. PICK f \in [Len(start) .. Len(tn) -> Path] : Traces(f, start, tn)
  BY TracesExist
<1>2. Traces(g, start, tn)
  BY <1>1
<1>3. Len(start) \in Nat /\ Len(tn) \in Nat /\ Len(tn) \in Len(start) .. Len(tn)
  BY DEF Path
<1>4. Cut(tn, Len(tn)) = tn
  BY SubSeqFull DEF Cut, Path
<1> HIDE DEF g
<1>5. f[Len(tn)] = g[Len(tn)]
  BY <1>1, <1>2, <1>3, <1>4, TracesAgree
<1>6. VisiblePath(start, tn) = g[Len(tn)]
  BY VisibleChosen DEF g
<1>7. QED  BY <1>1, <1>5, <1>6

\* The visible path of a start, and how one more scope adds to it.
LEMMA VisibleIs ==
  ASSUME NEW start \in Path
  PROVE  /\ VisiblePath(start, start) = Base(start)
         /\ \A d \in Path : Len(start) <= Len(d) => VisiblePath(start, d) \in Path
         /\ \A d \in Path : Len(start) < Len(d) =>
              VisiblePath(start, d) = IF d \in wo.elided THEN VisiblePath(start, Front(d))
                                      ELSE Append(VisiblePath(start, Front(d)), Last(d))
<1>1. Len(start) \in Nat
  BY DEF Path
<1>2. VisiblePath(start, start) = Base(start)
  <2>1. PICK f : Traces(f, start, start) /\ VisiblePath(start, start) = f[Len(start)]
    BY <1>1, VisibleTraced
  <2>2. Len(start) \in Len(start) .. Len(start)
    BY <1>1
  <2>3. f[Len(start)] = NextVisible(f, start, start, Len(start))
    BY <2>1, <2>2, Zenon DEF Traces
  <2>4. QED  BY <2>1, <2>3 DEF NextVisible, Base
<1>3. ASSUME NEW d \in Path, Len(start) <= Len(d)
      PROVE  VisiblePath(start, d) \in Path
  <2>1. PICK f \in [Len(start) .. Len(d) -> Path] : VisiblePath(start, d) = f[Len(d)]
    BY <1>3, VisibleTraced
  <2>2. Len(d) \in Len(start) .. Len(d)
    BY <1>1, <1>3 DEF Path
  <2>3. QED  BY <2>1, <2>2
<1>4. ASSUME NEW d \in Path, Len(start) < Len(d)
      PROVE  VisiblePath(start, d) = IF d \in wo.elided THEN VisiblePath(start, Front(d))
                                     ELSE Append(VisiblePath(start, Front(d)), Last(d))
  <2> DEFINE b == Len(d) - 1
  <2>1. d # <<>> /\ Len(d) \in Nat
    BY <1>1, <1>4 DEF Path
  <2>2. Front(d) \in Path /\ Len(Front(d)) = b /\ Front(d) = Cut(d, b) /\ Last(d) = d[Len(d)]
    BY <2>1, FrontIs
  <2>3. PICK f : Traces(f, start, d) /\ VisiblePath(start, d) = f[Len(d)]
    BY <1>4, <2>1, VisibleTraced
  <2>4. PICK g : Traces(g, start, Front(d)) /\ VisiblePath(start, Front(d)) = g[b]
    BY <1>1, <1>4, <2>1, <2>2, VisibleTraced
  <2>5. f[b] = g[b]
    <3>1. b \in Len(start) .. Len(d) /\ b \in Len(start) .. b
      BY <1>1, <1>4, <2>1
    <3> HIDE DEF b
    <3>2. QED  BY <2>2, <2>3, <2>4, <3>1, TracesAgree
  <2>6. Len(d) \in Len(start) .. Len(d) /\ Len(d) # Len(start) /\ Len(d) \in Len(start) + 1 .. Len(d)
    BY <1>1, <1>4, <2>1
  <2>7. f[Len(d)] = NextVisible(f, start, d, Len(d))
    BY <2>3, <2>6, Zenon DEF Traces
  <2>8. SubSeq(d, 1, Len(d)) = d
    BY SubSeqFull DEF Path
  <2>9. Len(d) \in Kept(start, d) <=> d \notin wo.elided
    BY <2>6, <2>8 DEF Kept
  <2>10. QED  BY <2>2, <2>3, <2>4, <2>5, <2>6, <2>7, <2>9 DEF NextVisible
<1>5. QED  BY <1>2, <1>3, <1>4

-----------------------------------------------------------------------------
(* Prefix trees *)

LEMMA PathTreeIs ==
  ASSUME NEW paths \in SUBSET Path
  PROVE  /\ PathTree(paths) \subseteq Path /\ paths \subseteq PathTree(paths)
         /\ \A q \in PathTree(paths) : \E p \in paths : IsPrefix(q, p)
         /\ \A q \in PathTree(paths) : \A r \in Path : IsPrefix(r, q) => r \in PathTree(paths)
         /\ paths # {} => <<>> \in PathTree(paths)
<1>1. \A q : q \in PathTree(paths) <=> q \in Path /\ \E p \in paths : IsPrefix(q, p)
  BY PrefixesAre DEF PathTree
<1>2. <<>> \in Path /\ \A p \in Path : IsPrefix(<<>>, p) /\ IsPrefix(p, p)
  BY PrefixOrder DEF Path
<1>3. \A q, r, p \in Path : IsPrefix(r, q) /\ IsPrefix(q, p) => IsPrefix(r, p)
  BY PrefixOrder
<1>4. QED  BY <1>1, <1>2, <1>3

\* A tree of prefixes: with a path it has those above it.
Closed(ptree) == ptree \subseteq Path /\ \A q \in ptree : \A r \in Path : IsPrefix(r, q) => r \in ptree

LEMMA NoNodeIsNoPath == NoNode \notin Path
BY DEF NoNode, Path

LEMMA OnPrefixIs ==
  ASSUME NEW ptree, Closed(ptree), NEW p \in Path
  PROVE  /\ OnPrefix(ptree, p) <=> \E q \in ptree : IsStrictPrefix(p, q)
         /\ \A s \in Nat \ {0} : Append(p, s) \in PrefixChildren(ptree, p) <=> Append(p, s) \in ptree
         /\ PrefixChildren(ptree, NoNode) = {}
         /\ p \notin ptree => ~OnPrefix(ptree, p)
<1>1. p # NoNode
  BY NoNodeIsNoPath
<1>2. ASSUME NEW c \in PrefixChildren(ptree, p)
      PROVE  c \in ptree /\ IsStrictPrefix(p, c)
  <2>1. c \in ptree /\ c \in Path /\ c # <<>> /\ Front(c) = p
    BY <1>2 DEF PrefixChildren, Closed
  <2>2. QED  BY <2>1, PrefixOfNext, PrefixOrder
<1>3. ASSUME NEW q \in ptree, IsStrictPrefix(p, q)
      PROVE  PrefixChildren(ptree, p) # {}
  <2> DEFINE c == Cut(q, Len(p) + 1)
  <2>1. q \in Path /\ Len(p) \in Nat /\ Len(q) \in Nat /\ IsPrefix(p, q) /\ p # q
    BY <1>3 DEF Closed, Path, IsStrictPrefix
  <2>2. Len(p) < Len(q)
    <3>1. Len(p) <= Len(q) /\ ~(Len(q) <= Len(p))
      BY <2>1, PrefixOrder
    <3>2. QED  BY <2>1, <3>1
  <2>3. Len(p) + 1 \in 0 .. Len(q) /\ Len(p) \in 0 .. Len(p) + 1
    BY <2>1, <2>2
  <2>4. c \in Path /\ Len(c) = Len(p) + 1 /\ IsPrefix(c, q)
    BY <2>1, <2>3, CutIs, CutIsPrefix
  <2>5. c # <<>>
    BY <2>1, <2>4
  <2>6. Front(c) = p
    <3>1. Front(c) = Cut(c, Len(p))
      BY <2>1, <2>4, <2>5, FrontIs
    <3>2. Cut(c, Len(p)) = Cut(q, Len(p))
      BY <2>1, <2>3, CutOfCut
    <3>3. p = Cut(q, Len(p))
      BY <2>1, PrefixIs
    <3>4. QED  BY <3>1, <3>2, <3>3
  <2>7. c \in ptree
    BY <2>4 DEF Closed
  <2> HIDE DEF c
  <2>8. QED  BY <1>1, <2>5, <2>6, <2>7 DEF PrefixChildren
<1>4. OnPrefix(ptree, p) <=> \E q \in ptree : IsStrictPrefix(p, q)
  BY <1>2, <1>3 DEF OnPrefix
<1>5. ASSUME NEW s \in Nat \ {0}
      PROVE  Append(p, s) \in PrefixChildren(ptree, p) <=> Append(p, s) \in ptree
  BY <1>1, AppendIs DEF PrefixChildren
<1>6. PrefixChildren(ptree, NoNode) = {}
  BY DEF PrefixChildren
<1>7. ASSUME NEW q \in ptree, IsStrictPrefix(p, q)
      PROVE  p \in ptree
  BY <1>7 DEF Closed, IsStrictPrefix
<1>8. QED  BY <1>4, <1>5, <1>6, <1>7

Prefixed == PathTree(wo.pathPrefixes)

\* The prefixTreeNode of a visible path.
PtnOf(path) == IF path \in Prefixed THEN path ELSE NoNode

LEMMA PrefixedIs ==
  ASSUME wo \in walkOptions
  PROVE  /\ wo.pathPrefixes \subseteq Path /\ Closed(Prefixed) /\ wo.pathPrefixes \subseteq Prefixed
         /\ \A q \in Prefixed : \E p \in wo.pathPrefixes : IsPrefix(q, p)
         /\ wo.pathPrefixes # {} => <<>> \in Prefixed
         /\ wo.pathPrefixes = {} => Prefixed = {}
<1>1. wo.pathPrefixes \subseteq Path
  BY DEF walkOptions
<1>2. QED  BY <1>1, PathTreeIs DEF Closed, Prefixed

LEMMA PtnIs ==
  ASSUME wo \in walkOptions, NEW p \in Path
  PROVE  /\ OnPrefix(Prefixed, PtnOf(p)) <=> OnPrefix(Prefixed, p)
         /\ \A s \in Nat \ {0} : Descend(Prefixed, PtnOf(p), s) = PtnOf(Append(p, s))
<1>1. Closed(Prefixed)
  BY PrefixedIs
<1>2. OnPrefix(Prefixed, PtnOf(p)) <=> OnPrefix(Prefixed, p)
  BY <1>1, OnPrefixIs DEF PtnOf, OnPrefix
<1>3. ASSUME NEW s \in Nat \ {0}
      PROVE  Descend(Prefixed, PtnOf(p), s) = PtnOf(Append(p, s))
  <2>1. Append(p, s) \in Path /\ IsPrefix(p, Append(p, s)) /\ p # NoNode
    BY AppendIs, NoNodeIsNoPath DEF IsStrictPrefix
  <2>2. Append(p, s) \in Prefixed => p \in Prefixed
    BY <1>1, <2>1 DEF Closed
  <2>3. QED  BY <2>1, <2>2 DEF Descend, PtnOf
<1>4. QED  BY <1>2, <1>3

\* What treeNodeChildren asks of a child, while on the prefix tree, is what the
\* path prefixes ask of its path.
LEMMA KeptStep ==
  ASSUME wo \in walkOptions, NEW p \in Path, KeptByPrefixes(p), NEW s \in Nat \ {0}
  PROVE  KeptByPrefixes(Append(p, s)) <=>
           (PrefixChildren(Prefixed, PtnOf(p)) # {} =>
              Append(PtnOf(p), s) \in PrefixChildren(Prefixed, PtnOf(p)))
<1> DEFINE next == Append(p, s)
<1>1. Closed(Prefixed) /\ wo.pathPrefixes \subseteq Path /\ wo.pathPrefixes \subseteq Prefixed
  BY PrefixedIs
<1>2. next \in Path /\ next # <<>> /\ Front(next) = p
  BY AppendIs
<1> HIDE DEF next
<1>3. \A q \in Path : IsStrictPrefix(q, next) <=> IsPrefix(q, p)
  BY <1>2, PrefixOfNext
<1>4. KeptByPrefixes(next) <=>
        \/ wo.pathPrefixes = {} \/ next \in Prefixed
        \/ \E q \in wo.pathPrefixes : IsPrefix(q, p) /\ ~OnPrefix(Prefixed, q)
  BY <1>1, <1>3 DEF KeptByPrefixes, Prefixed
<1>5. CASE p \in Prefixed
  <2>1. PtnOf(p) = p
    BY <1>5 DEF PtnOf
  <2>2. next \in PrefixChildren(Prefixed, p) <=> next \in Prefixed
    BY <1>1, OnPrefixIs DEF next
  <2>3. wo.pathPrefixes # {}
    BY <1>5, PrefixedIs
  <2>4. CASE OnPrefix(Prefixed, p)
    <3>1. ASSUME NEW q \in wo.pathPrefixes, IsPrefix(q, p)
          PROVE  OnPrefix(Prefixed, q)
      <4>1. q \in Path /\ (q = p \/ IsStrictPrefix(q, p))
        BY <1>1, <3>1 DEF IsStrictPrefix
      <4>2. QED  BY <1>1, <1>5, <2>4, <4>1, OnPrefixIs
    <3>2. QED  BY <1>4, <2>1, <2>2, <2>3, <2>4, <3>1 DEF next, OnPrefix
  <2>5. CASE ~OnPrefix(Prefixed, p)
    <3>1. PICK q \in wo.pathPrefixes : IsPrefix(p, q)
      BY <1>5, PrefixedIs
    <3>2. ~IsStrictPrefix(p, q)
      BY <1>1, <2>5, <3>1, OnPrefixIs
    <3>3. p = q
      BY <3>1, <3>2 DEF IsStrictPrefix
    <3>4. IsPrefix(p, p)
      BY PrefixOrder
    <3>5. KeptByPrefixes(next)
      BY <1>4, <2>5, <3>1, <3>3, <3>4
    <3>6. QED  BY <2>1, <2>5, <3>5 DEF next, OnPrefix
  <2>6. QED  BY <2>4, <2>5
<1>6. CASE p \notin Prefixed
  <2>1. PtnOf(p) = NoNode /\ PrefixChildren(Prefixed, NoNode) = {}
    BY <1>1, <1>6, OnPrefixIs DEF PtnOf
  <2>2. KeptByPrefixes(next)
    <3>1. wo.pathPrefixes = {} \/ \E q \in wo.pathPrefixes : IsStrictPrefix(q, p) /\ ~OnPrefix(Prefixed, q)
      BY <1>6 DEF KeptByPrefixes, Prefixed
    <3>2. QED  BY <1>4, <3>1 DEF IsStrictPrefix
  <2>3. QED  BY <2>1, <2>2 DEF next
<1>7. QED  BY <1>5, <1>6

-----------------------------------------------------------------------------
(* Starts *)

\* The tree, and the options, of a walk that can be made.
Fit ==
  /\ wo \in walkOptions
  /\ IsFiniteSet(wo.tree) /\ <<>> \in wo.tree /\ \A tn \in wo.tree : PrefixesOf(tn) \subseteq wo.tree
\* A merge has a scope to go by.
Merges == wo.mergePrefixes # {} => MergeTree(wo.mergePrefixes) # {<<>>}

LEMMA TreeIs ==
  ASSUME Fit
  PROVE  wo.tree \subseteq Path /\ Closed(wo.tree)
<1>1. wo.tree \subseteq Path
  BY DEF Fit, walkOptions
<1>2. QED  BY <1>1, PrefixesAre DEF Fit, Closed

\* How long the visible paths of the starts are.
Begin == IF wo.mergePrefixes = {} THEN 0 ELSE 1

LEMMA StartsAre ==
  ASSUME Fit, Merges
  PROVE  /\ \A s \in Starts : s \in Path /\ s \in wo.tree /\ Len(Base(s)) = Begin
         /\ wo.mergePrefixes # {} => \A s \in Starts : s # <<>>
         /\ \A s, t \in Starts : IsPrefix(s, t) => s = t
<1>1. CASE wo.mergePrefixes = {}
  <2>1. Starts = {<<>>} /\ <<>> \in wo.tree /\ <<>> \in Path
    BY <1>1 DEF Starts, Fit, Path
  <2>2. QED  BY <1>1, <2>1, BaseIsPath DEF Begin
<1>2. CASE wo.mergePrefixes # {}
  <2> DEFINE shortest == {p \in wo.mergePrefixes : \A q \in wo.mergePrefixes : ~IsStrictPrefix(q, p)}
             mtree == MergeTree(wo.mergePrefixes)
  <2>1. shortest \subseteq Path
    BY DEF Fit, walkOptions
  <2>2. mtree = PathTree(shortest)
    BY DEF MergeTree
  <2> HIDE DEF shortest, mtree
  <2>3. Closed(mtree)
    BY <2>1, <2>2, PathTreeIs DEF Closed
  <2>4. Starts = {p \in mtree : PrefixChildren(mtree, p) = {} /\ p \in wo.tree}
    BY <1>2 DEF Starts, MergeLeaves, mtree
  <2>5. \A s \in Starts : s \in Path /\ s \in wo.tree /\ s \in mtree
    BY <2>3, <2>4 DEF Closed
  <2>6. ASSUME NEW s \in Starts, NEW t \in mtree, IsPrefix(s, t)
        PROVE  s = t
    <3>1. ~OnPrefix(mtree, s)
      BY <2>4 DEF OnPrefix
    <3>2. ~IsStrictPrefix(s, t)
      BY <2>3, <2>5, <3>1, OnPrefixIs
    <3>3. QED  BY <2>6, <3>2 DEF IsStrictPrefix
  <2>7. ASSUME NEW s \in Starts
        PROVE  s # <<>>
    <3>1. SUFFICES ASSUME s = <<>>
                   PROVE  FALSE
      OBVIOUS
    <3>2. \A t \in mtree : t = <<>>
      BY <2>3, <2>6, <3>1, PrefixOrder DEF Closed
    <3>3. mtree = {<<>>}
      BY <2>5, <3>1, <3>2
    <3>4. QED  BY <1>2, <3>3 DEF Merges, mtree
  <2>8. QED  BY <1>2, <2>5, <2>6, <2>7, BaseIsPath DEF Begin
<1>3. QED  BY <1>1, <1>2

-----------------------------------------------------------------------------
(* What is in sight *)

Passes(s, c) == c \in wo.filteredIn /\ KeptByPrefixes(Append(VisiblePath(s, Front(c)), Last(c)))
Reaches(s, d) == IsPrefix(s, d) /\ \A k \in Len(s) + 1 .. Len(d) : Passes(s, Cut(d, k))
Shown(s, d) == s \in Starts /\ d \in wo.tree /\ Reaches(s, d) /\ (d = s \/ d \notin wo.elided)

LEMMA InSightIs ==
  ASSUME Fit, Merges
  PROVE  /\ \A n \in InSight : \E s, d : Shown(s, d) /\ n = [tn |-> d, path |-> VisiblePath(s, d)]
         /\ \A s, d : Shown(s, d) => [tn |-> d, path |-> VisiblePath(s, d)] \in InSight
<1> DEFINE Seen(s, d) ==
             /\ IsPrefix(s, d)
             /\ d = s \/ d \notin wo.elided
             /\ \A k \in Len(s) + 1 .. Len(d) :
                  /\ SubSeq(d, 1, k) \in wo.filteredIn
                  /\ KeptByPrefixes(Append(VisiblePath(s, SubSeq(d, 1, k - 1)), d[k]))
<1>1. InSight = {[tn |-> st[2], path |-> VisiblePath(st[1], st[2])] :
                   st \in {st \in Starts \X wo.tree : Seen(st[1], st[2])}}
  BY DEF InSight
<1>2. ASSUME NEW s \in Starts, NEW d \in wo.tree
      PROVE  Seen(s, d) <=> Shown(s, d)
  <2>1. s \in Path /\ d \in Path
    BY StartsAre, TreeIs
  <2>2. ASSUME NEW k \in Len(s) + 1 .. Len(d)
        PROVE  Passes(s, Cut(d, k)) <=>
                 /\ SubSeq(d, 1, k) \in wo.filteredIn
                 /\ KeptByPrefixes(Append(VisiblePath(s, SubSeq(d, 1, k - 1)), d[k]))
    <3>1. k \in 1 .. Len(d) /\ k \in 0 .. Len(d) /\ k - 1 \in 0 .. k /\ Len(d) \in Nat
      BY <2>1 DEF Path
    <3>2. Cut(d, k) \in Path /\ Len(Cut(d, k)) = k /\ Cut(d, k)[k] = d[k]
      BY <2>1, <3>1, CutIs
    <3>3. Cut(d, k) # <<>>
      BY <3>1, <3>2
    <3>4. Front(Cut(d, k)) = Cut(Cut(d, k), k - 1) /\ Last(Cut(d, k)) = d[k]
      BY <3>2, <3>3, FrontIs
    <3>5. Front(Cut(d, k)) = Cut(d, k - 1)
      BY <2>1, <3>1, <3>4, CutOfCut
    <3>6. QED  BY <3>4, <3>5, Zenon DEF Passes, Cut
  <2>3. Reaches(s, d) <=>
          /\ IsPrefix(s, d)
          /\ \A k \in Len(s) + 1 .. Len(d) :
               /\ SubSeq(d, 1, k) \in wo.filteredIn
               /\ KeptByPrefixes(Append(VisiblePath(s, SubSeq(d, 1, k - 1)), d[k]))
    BY <2>2, Zenon DEF Reaches
  <2>4. QED  BY <2>3, Zenon DEF Shown
<1> HIDE DEF Seen
<1>3. ASSUME NEW n \in InSight
      PROVE  \E s, d : Shown(s, d) /\ n = [tn |-> d, path |-> VisiblePath(s, d)]
  <2>1. PICK st \in Starts \X wo.tree : Seen(st[1], st[2]) /\ n = [tn |-> st[2], path |-> VisiblePath(st[1], st[2])]
    BY <1>1
  <2>2. st[1] \in Starts /\ st[2] \in wo.tree
    OBVIOUS
  <2>3. Shown(st[1], st[2])
    BY <1>2, <2>1, <2>2
  <2>4. QED  BY <2>1, <2>3, Zenon
<1>4. ASSUME NEW s, NEW d, Shown(s, d)
      PROVE  [tn |-> d, path |-> VisiblePath(s, d)] \in InSight
  <2> DEFINE st == <<s, d>>
  <2>1. s \in Starts /\ d \in wo.tree
    BY <1>4 DEF Shown
  <2>2. st \in Starts \X wo.tree /\ st[1] = s /\ st[2] = d
    BY <2>1
  <2>3. Seen(st[1], st[2])
    BY <1>2, <1>4, <2>1, <2>2
  <2>4. QED  BY <1>1, <2>2, <2>3
<1>5. QED  BY <1>3, <1>4

LEMMA CutReaches ==
  ASSUME Fit, Merges, NEW s \in Path, NEW d \in Path, Reaches(s, d), NEW k \in Len(s) .. Len(d)
  PROVE  Reaches(s, Cut(d, k))
<1>1. Len(s) \in Nat /\ Len(d) \in Nat /\ k \in 0 .. Len(d)
  BY DEF Path
<1>2. Cut(d, k) \in Path /\ Len(Cut(d, k)) = k /\ IsPrefix(Cut(d, k), d)
  BY <1>1, CutIs, CutIsPrefix
<1>3. IsPrefix(s, Cut(d, k))
  BY <1>2, PrefixOrder DEF Reaches
<1>4. ASSUME NEW j \in Len(s) + 1 .. k
      PROVE  Passes(s, Cut(Cut(d, k), j))
  <2>1. j \in 0 .. k /\ j \in Len(s) + 1 .. Len(d)
    BY <1>1
  <2>2. Cut(Cut(d, k), j) = Cut(d, j)
    BY <1>1, <2>1, CutOfCut
  <2>3. QED  BY <2>1, <2>2 DEF Reaches
<1>5. QED  BY <1>2, <1>3, <1>4 DEF Reaches

\* Elided TreeNodes add nothing to the visible path.
LEMMA Hidden ==
  ASSUME NEW s \in Path, NEW d \in Path, NEW m \in 0 .. Len(d), NEW b \in Len(s) .. m,
         \A k \in b + 1 .. m : Cut(d, k) \in wo.elided
  PROVE  \A k \in b .. m : VisiblePath(s, Cut(d, k)) = VisiblePath(s, Cut(d, b))
<1> DEFINE T == {i \in 0 .. m - b : VisiblePath(s, Cut(d, b + i)) = VisiblePath(s, Cut(d, b))}
<1>1. Len(s) \in Nat /\ Len(d) \in Nat /\ m \in Nat /\ b \in Nat /\ b <= m /\ m <= Len(d) /\ Len(s) <= b
  BY DEF Path
<1>2. 0 \in T
  BY <1>1
<1>3. ASSUME NEW i \in 0 .. m - b - 1, i \in T
      PROVE  i + 1 \in T
  <2> DEFINE k == b + i + 1
  <2>1. k \in b + 1 .. m /\ k \in 0 .. Len(d) /\ k - 1 = b + i /\ k - 1 \in 0 .. k /\ Len(s) < k /\ k # 0 /\ b + (i + 1) = k
        /\ i + 1 \in 0 .. m - b
    BY <1>1
  <2> HIDE DEF k
  <2>2. Cut(d, k) \in Path /\ Len(Cut(d, k)) = k /\ Cut(d, k) \in wo.elided
    BY <2>1, CutIs
  <2>3. Cut(d, k) # <<>>
    BY <2>1, <2>2
  <2>4. Front(Cut(d, k)) = Cut(Cut(d, k), k - 1)
    BY <2>2, <2>3, FrontIs
  <2>5. Cut(Cut(d, k), k - 1) = Cut(d, k - 1)
    BY <2>1, CutOfCut
  <2>6. VisiblePath(s, Cut(d, k)) = VisiblePath(s, Cut(d, b + i))
    BY <2>1, <2>2, <2>4, <2>5, VisibleIs
  <2>7. QED  BY <1>3, <2>1, <2>6
<1>4. TAKE k \in b .. m
<1>5. k - b \in 0 .. m - b /\ k - b \in Nat /\ b + (k - b) = k
  BY <1>1
<1>6. \A i \in 0 .. (k - b) - 1 : i \in T => i + 1 \in T
  BY <1>1, <1>3
<1>7. k - b \in T
  <2> HIDE DEF T
  <2>1. QED  BY <1>2, <1>5, <1>6, Induction
<1>8. QED  BY <1>5, <1>7

\* The nearest TreeNode above that can be seen.
LEMMA VisibleParent ==
  ASSUME Fit, Merges, NEW s \in Starts, NEW d \in wo.tree, Reaches(s, d), d # s
  PROVE  \E b \in Len(s) .. Len(d) - 1 :
           /\ Shown(s, Cut(d, b))
           /\ \A k \in b + 1 .. Len(d) - 1 : Cut(d, k) \in wo.elided
<1> DEFINE T == {j \in Nat : j < Len(d) /\ Len(d) - 1 - j >= Len(s)
                   /\ (Len(d) - 1 - j = Len(s) \/ Cut(d, Len(d) - 1 - j) \notin wo.elided)}
<1>1. s \in Path /\ d \in Path /\ Len(s) \in Nat /\ Len(d) \in Nat /\ Closed(wo.tree) /\ IsPrefix(s, d)
  BY StartsAre, TreeIs DEF Path, Reaches
<1>2. Len(s) < Len(d)
  <2>1. Len(s) <= Len(d) /\ ~(Len(d) <= Len(s))
    BY <1>1, PrefixOrder
  <2>2. QED  BY <1>1, <2>1
<1>3. Len(d) - 1 - Len(s) \in T
  BY <1>1, <1>2
<1>4. PICK j \in T : \A i \in T : j <= i
  <2> HIDE DEF T
  <2>1. T \subseteq Nat
    BY DEF T
  <2>2. QED  BY <1>3, <2>1, LeastNatural
<1> DEFINE b == Len(d) - 1 - j
<1>5. b \in Len(s) .. Len(d) - 1 /\ b \in Len(s) .. Len(d) /\ b \in 0 .. Len(d)
  BY <1>1
<1>6. ASSUME NEW k \in b + 1 .. Len(d) - 1
      PROVE  Cut(d, k) \in wo.elided
  <2> DEFINE i == Len(d) - 1 - k
  <2>1. i \in Nat /\ i < j /\ i < Len(d) /\ Len(d) - 1 - i = k /\ Len(s) < k
    BY <1>1
  <2>2. i \notin T
    BY <1>4, <2>1
  <2>3. QED  BY <1>1, <2>1, <2>2
<1>7. Cut(d, b) \in Path /\ IsPrefix(Cut(d, b), d) /\ Len(Cut(d, b)) = b
  BY <1>1, <1>5, CutIs, CutIsPrefix
<1>8. Cut(d, b) \in wo.tree /\ Reaches(s, Cut(d, b))
  BY <1>1, <1>5, <1>7, CutReaches DEF Closed
<1>9. Cut(d, b) = s \/ Cut(d, b) \notin wo.elided
  <2>1. b = Len(s) => Cut(d, b) = s
    BY <1>1, PrefixIs
  <2>2. QED  BY <1>4, <2>1
<1> HIDE DEF b
<1>10. QED  BY <1>5, <1>6, <1>8, <1>9 DEF Shown

\* All that a walk needs to return what its options describe.
Clean == Fit /\ Merges /\ MergesCleanly

LEMMA ShownIs ==
  ASSUME Fit, Merges, NEW s, NEW d, Shown(s, d)
  PROVE  /\ s \in Path /\ d \in Path /\ Len(s) \in Nat /\ Len(d) \in Nat /\ Len(s) <= Len(d)
         /\ d # s => Len(s) < Len(d) /\ d # <<>> /\ d \notin wo.elided
         /\ VisiblePath(s, d) \in Path
<1>1. s \in Path /\ d \in Path /\ IsPrefix(s, d)
  BY StartsAre, TreeIs DEF Shown, Reaches
<1>2. Len(s) \in Nat /\ Len(d) \in Nat
  BY <1>1 DEF Path
<1>3. Len(s) <= Len(d)
  BY <1>1, PrefixOrder
<1>4. d # s => Len(s) < Len(d)
  BY <1>1, <1>2, <1>3, PrefixOrder
<1>5. d # s => d # <<>>
  BY <1>2, <1>4
<1>6. QED  BY <1>1, <1>2, <1>3, <1>4, <1>5, VisibleIs DEF Shown

LEMMA ShownOnce ==
  ASSUME Fit, Merges, NEW s, NEW t, NEW d, Shown(s, d), Shown(t, d)
  PROVE  s = t
<1>1. s \in Path /\ t \in Path /\ d \in Path /\ IsPrefix(s, d) /\ IsPrefix(t, d) /\ Len(s) \in Nat /\ Len(t) \in Nat
  BY ShownIs DEF Shown, Reaches
<1>2. IsPrefix(s, t) \/ IsPrefix(t, s)
  BY <1>1, PrefixOrder
<1>3. QED  BY <1>2, StartsAre DEF Shown

\* The last scope of a TreeNode that is shown is the last one of its path.
LEMMA ShownPath ==
  ASSUME Fit, Merges, NEW s, NEW d, Shown(s, d)
  PROVE  /\ d = s => VisiblePath(s, d) = Base(s) /\ Len(VisiblePath(s, d)) = Begin
         /\ d # s => /\ Last(d) \in Nat \ {0} /\ VisiblePath(s, Front(d)) \in Path
                     /\ VisiblePath(s, d) = Append(VisiblePath(s, Front(d)), Last(d))
                     /\ KeptByPrefixes(VisiblePath(s, d))
<1>1. /\ s \in Path /\ d \in Path /\ Len(s) \in Nat /\ Len(d) \in Nat /\ Len(s) <= Len(d)
      /\ d # s => Len(s) < Len(d) /\ d # <<>> /\ d \notin wo.elided
  BY ShownIs
<1>2. CASE d = s
  BY <1>1, <1>2, VisibleIs, StartsAre DEF Shown
<1>3. CASE d # s
  <2>1. Len(s) < Len(d) /\ d # <<>> /\ d \notin wo.elided
    BY <1>1, <1>3
  <2>2. Last(d) \in Nat \ {0} /\ Front(d) \in Path /\ Len(Front(d)) = Len(d) - 1
    BY <1>1, <2>1, FrontIs
  <2>3. VisiblePath(s, d) = Append(VisiblePath(s, Front(d)), Last(d))
    BY <1>1, <2>1, VisibleIs
  <2>4. Len(s) <= Len(Front(d))
    BY <1>1, <2>1, <2>2
  <2>5. VisiblePath(s, Front(d)) \in Path
    BY <1>1, <2>2, <2>4, VisibleIs
  <2>6. KeptByPrefixes(VisiblePath(s, d))
    <3>1. Len(d) \in Len(s) + 1 .. Len(d) /\ Cut(d, Len(d)) = d
      BY <1>1, <2>1, SubSeqFull DEF Cut, Path
    <3>2. Passes(s, d)
      BY <3>1 DEF Shown, Reaches
    <3>3. QED  BY <2>3, <3>2 DEF Passes
  <2>7. QED  BY <1>3, <2>2, <2>3, <2>5, <2>6
<1>4. QED  BY <1>2, <1>3

LEMMA ShownKept ==
  ASSUME Clean, NEW s, NEW d, Shown(s, d)
  PROVE  KeptByPrefixes(VisiblePath(s, d))
<1>1. CASE d = s
  <2>1. VisiblePath(s, d) = Base(s)
    BY <1>1, ShownPath DEF Clean
  <2>2. CASE wo.mergePrefixes = {}
    <3>1. s = <<>>
      BY <2>2 DEF Shown, Starts
    <3>2. wo.pathPrefixes = {} \/ <<>> \in Prefixed
      BY PrefixedIs DEF Clean, Fit
    <3>3. QED  BY <2>1, <3>1, <3>2 DEF Base, KeptByPrefixes, Prefixed
  <2>3. CASE wo.mergePrefixes # {}
    BY <2>1, <2>3, StartsAre DEF Clean, MergesCleanly, Shown, Base
  <2>4. QED  BY <2>2, <2>3
<1>2. QED  BY <1>1, ShownPath DEF Clean

-----------------------------------------------------------------------------
(* What lies below *)

HiddenBetween(tn, d) == \A k \in Len(tn) + 1 .. Len(d) - 1 : Cut(d, k) \in wo.elided

LEMMA FrontHidden ==
  ASSUME NEW s \in Path, NEW tn \in Path, NEW d \in Path,
         IsPrefix(s, tn), IsPrefix(tn, d), tn # d, HiddenBetween(tn, d)
  PROVE  /\ VisiblePath(s, Front(d)) = VisiblePath(s, tn)
         /\ \A k \in Len(tn) .. Len(d) - 1 : VisiblePath(s, Cut(d, k)) = VisiblePath(s, tn)
         /\ Len(tn) < Len(d) /\ d # <<>>
<1>1. Len(s) \in Nat /\ Len(tn) \in Nat /\ Len(d) \in Nat
  BY DEF Path
<1>2. Len(s) <= Len(tn) /\ Len(tn) <= Len(d) /\ ~(Len(d) <= Len(tn))
  BY PrefixOrder
<1>3. Len(d) - 1 \in 0 .. Len(d) /\ Len(tn) \in Len(s) .. Len(d) - 1 /\ d # <<>> /\ Len(tn) \in 0 .. Len(d)
  BY <1>1, <1>2
<1>4. \A k \in Len(tn) .. Len(d) - 1 : VisiblePath(s, Cut(d, k)) = VisiblePath(s, Cut(d, Len(tn)))
  <2>1. \A k \in Len(tn) + 1 .. Len(d) - 1 : Cut(d, k) \in wo.elided
    BY DEF HiddenBetween
  <2>2. QED  BY <1>3, <2>1, Hidden
<1>5. Cut(d, Len(tn)) = tn
  BY PrefixIs
<1>6. Front(d) = Cut(d, Len(d) - 1)
  BY <1>3, FrontIs
<1>7. Len(d) - 1 \in Len(tn) .. Len(d) - 1
  BY <1>1, <1>2
<1>8. QED  BY <1>1, <1>2, <1>3, <1>4, <1>5, <1>6, <1>7

\* Below() goes as far as the options let the view go.
LEMMA BelowReaches ==
  ASSUME Clean, NEW s, NEW tn, Shown(s, tn), NEW d \in wo.tree, IsPrefix(tn, d), tn # d, HiddenBetween(tn, d)
  PROVE  d \in Below(PtnOf(VisiblePath(s, tn)), tn) <=> Reaches(s, d)
<1> DEFINE p == VisiblePath(s, tn)
           next == PrefixChildren(Prefixed, PtnOf(p))
<1>1. s \in Path /\ tn \in Path /\ d \in Path /\ Len(s) \in Nat /\ Len(tn) \in Nat /\ Len(d) \in Nat /\ p \in Path
      /\ Len(s) <= Len(tn) /\ IsPrefix(s, tn)
  BY ShownIs, TreeIs DEF Clean, Shown, Reaches
<1>2. /\ Len(tn) < Len(d)
      /\ \A k \in Len(tn) .. Len(d) - 1 : VisiblePath(s, Cut(d, k)) = p
  BY <1>1, FrontHidden
<1>3. KeptByPrefixes(p) /\ wo \in walkOptions
  BY ShownKept DEF Clean, Fit
<1> HIDE DEF p
<1>4. ASSUME NEW k \in Len(tn) + 1 .. Len(d)
      PROVE  Passes(s, Cut(d, k)) <=> Cut(d, k) \in wo.filteredIn /\ (next # {} => Append(PtnOf(p), d[k]) \in next)
  <2>1. k \in 1 .. Len(d) /\ k \in 0 .. Len(d) /\ k - 1 \in 0 .. k /\ k - 1 \in Len(tn) .. Len(d) - 1
    BY <1>1
  <2>2. Cut(d, k) \in Path /\ Len(Cut(d, k)) = k /\ Cut(d, k)[k] = d[k]
    BY <1>1, <2>1, CutIs
  <2>3. Cut(d, k) # <<>>
    BY <2>1, <2>2
  <2>4. Front(Cut(d, k)) = Cut(Cut(d, k), k - 1) /\ Last(Cut(d, k)) = d[k] /\ d[k] \in Nat \ {0}
    BY <2>2, <2>3, FrontIs
  <2>5. Front(Cut(d, k)) = Cut(d, k - 1)
    BY <1>1, <2>1, <2>4, CutOfCut
  <2>6. VisiblePath(s, Front(Cut(d, k))) = p
    BY <1>2, <2>1, <2>5
  <2>7. KeptByPrefixes(Append(p, d[k])) <=> (next # {} => Append(PtnOf(p), d[k]) \in next)
    BY <1>1, <1>3, <2>4, KeptStep
  <2> HIDE DEF next
  <2>8. QED  BY <2>4, <2>6, <2>7 DEF Passes
<1>5. Reaches(s, d) <=> \A k \in Len(tn) + 1 .. Len(d) : Passes(s, Cut(d, k))
  <2>1. IsPrefix(s, d)
    BY <1>1, PrefixOrder
  <2>2. ASSUME NEW k \in Len(s) + 1 .. Len(tn)
        PROVE  Passes(s, Cut(d, k))
    <3>1. k \in 0 .. Len(tn) /\ Len(tn) \in 0 .. Len(d)
      BY <1>1, <1>2
    <3>2. Cut(Cut(d, Len(tn)), k) = Cut(d, k) /\ Cut(d, Len(tn)) = tn
      BY <1>1, <3>1, CutOfCut, PrefixIs
    <3>3. Passes(s, Cut(tn, k))
      BY DEF Shown, Reaches
    <3>4. QED  BY <3>2, <3>3
  <2>3. \A k \in Len(s) + 1 .. Len(d) : k \in Len(s) + 1 .. Len(tn) \/ k \in Len(tn) + 1 .. Len(d)
    BY <1>1
  <2>4. \A k \in Len(tn) + 1 .. Len(d) : k \in Len(s) + 1 .. Len(d)
    BY <1>1
  <2>5. QED  BY <2>1, <2>2, <2>3, <2>4 DEF Reaches
<1>6. d \in Below(PtnOf(p), tn) <=>
        \A k \in Len(tn) + 1 .. Len(d) :
          /\ Cut(d, k) \in wo.filteredIn
          /\ next # {} => Append(PtnOf(p), d[k]) \in next
  <2>1. \A k \in Len(tn) + 1 .. Len(d) : k < Len(d) => SubSeq(d, 1, k) \in wo.elided
    BY <1>1 DEF HiddenBetween, Cut
  <2>2. d \in Below(PtnOf(p), tn) <=>
          \A k \in Len(tn) + 1 .. Len(d) :
            /\ SubSeq(d, 1, k) \in wo.filteredIn
            /\ next # {} => Append(PtnOf(p), d[k]) \in next
            /\ k < Len(d) => SubSeq(d, 1, k) \in wo.elided
    BY Zenon DEF Below, Prefixed, IsStrictPrefix
  <2> HIDE DEF next
  <2>3. QED  BY <2>1, <2>2, Zenon DEF Cut
<1> HIDE DEF next
<1>7. QED  BY <1>4, <1>5, <1>6 DEF p

LEMMA BelowIsHidden ==
  ASSUME Fit, NEW ptn, NEW tn \in Path, NEW d \in Below(ptn, tn)
  PROVE  d \in wo.tree /\ IsPrefix(tn, d) /\ tn # d /\ HiddenBetween(tn, d)
<1>1. /\ d \in wo.tree /\ IsStrictPrefix(tn, d)
      /\ \A k \in Len(tn) + 1 .. Len(d) : k < Len(d) => SubSeq(d, 1, k) \in wo.elided
  BY Zenon DEF Below
<1>2. Len(tn) \in Nat /\ Len(d) \in Nat
  BY <1>1, TreeIs DEF Path
<1>3. \A k \in Len(tn) + 1 .. Len(d) - 1 : k \in Len(tn) + 1 .. Len(d) /\ k < Len(d)
  BY <1>2
<1>4. QED  BY <1>1, <1>3, Zenon DEF HiddenBetween, Cut, IsStrictPrefix

LEMMA ChildrenShown ==
  ASSUME Clean, NEW s, NEW tn, Shown(s, tn)
  PROVE  \A d : d \in treeNodeChildren(PtnOf(VisiblePath(s, tn)), tn) <=>
                  Shown(s, d) /\ IsPrefix(tn, d) /\ tn # d /\ HiddenBetween(tn, d)
<1> DEFINE ptn == PtnOf(VisiblePath(s, tn))
<1>1. s \in Path /\ tn \in Path /\ IsPrefix(s, tn) /\ s \in Starts
  BY ShownIs DEF Clean, Shown, Reaches
<1>2. ASSUME NEW d \in treeNodeChildren(ptn, tn)
      PROVE  Shown(s, d) /\ IsPrefix(tn, d) /\ tn # d /\ HiddenBetween(tn, d)
  <2>1. d \in Below(ptn, tn) /\ d \notin wo.elided
    BY DEF treeNodeChildren
  <2>2. d \in wo.tree /\ IsPrefix(tn, d) /\ tn # d /\ HiddenBetween(tn, d)
    BY <1>1, <2>1, BelowIsHidden DEF Clean
  <2>3. Reaches(s, d)
    BY <2>1, <2>2, BelowReaches
  <2>4. QED  BY <1>1, <2>1, <2>2, <2>3 DEF Shown
<1>3. ASSUME NEW d, Shown(s, d), IsPrefix(tn, d), tn # d, HiddenBetween(tn, d)
      PROVE  d \in treeNodeChildren(ptn, tn)
  <2>1. d \in wo.tree /\ Reaches(s, d)
    BY <1>3 DEF Shown
  <2>2. d \in Below(ptn, tn)
    BY <1>3, <2>1, BelowReaches
  <2>3. d # s
    <3>1. Len(s) \in Nat /\ Len(tn) \in Nat /\ Len(d) \in Nat /\ d \in Path
      BY <1>3, ShownIs DEF Clean, Path
    <3>2. Len(s) <= Len(tn) /\ Len(tn) < Len(d)
      BY <1>1, <1>3, <3>1, PrefixOrder
    <3>3. QED  BY <3>1, <3>2
  <2>4. d \notin wo.elided
    BY <1>3, <2>3 DEF Shown
  <2>5. QED  BY <2>2, <2>4 DEF treeNodeChildren
<1>4. QED  BY <1>2, <1>3

-----------------------------------------------------------------------------
(* The classes of TreeNodes with one visible path *)

Paths == {n.path : n \in InSight}
NodesAt(p) == {n.tn : n \in {m \in InSight : m.path = p}}

LEMMA NodesAtIs ==
  ASSUME Fit, Merges
  PROVE  /\ \A p, d : d \in NodesAt(p) <=> \E s : Shown(s, d) /\ VisiblePath(s, d) = p
         /\ \A p : p \in Paths <=> NodesAt(p) # {}
         /\ \A p : NodesAt(p) \subseteq wo.tree
<1>1. ASSUME NEW p, NEW d, d \in NodesAt(p)
      PROVE  \E s : Shown(s, d) /\ VisiblePath(s, d) = p
  <2>1. PICK n \in InSight : n.path = p /\ n.tn = d
    BY <1>1 DEF NodesAt
  <2>2. PICK s, c : Shown(s, c) /\ n = [tn |-> c, path |-> VisiblePath(s, c)]
    BY <2>1, InSightIs
  <2>3. c = d /\ VisiblePath(s, c) = p
    BY <2>1, <2>2
  <2>4. QED  BY <2>2, <2>3
<1>2. ASSUME NEW p, NEW d, NEW s, Shown(s, d), VisiblePath(s, d) = p
      PROVE  d \in NodesAt(p)
  <2> DEFINE n == [tn |-> d, path |-> VisiblePath(s, d)]
  <2>1. n \in InSight /\ n.path = p /\ n.tn = d
    BY <1>2, InSightIs
  <2> HIDE DEF n
  <2>2. QED  BY <2>1 DEF NodesAt
<1>3. \A p : p \in Paths <=> NodesAt(p) # {}
  BY DEF Paths, NodesAt
<1>4. \A p : NodesAt(p) \subseteq wo.tree
  BY <1>1 DEF Shown
<1>5. QED  BY <1>1, <1>2, <1>3, <1>4

LEMMA PathsAre ==
  ASSUME Fit, Merges, NEW p \in Paths
  PROVE  p \in Path /\ Len(p) \in Nat /\ Begin \in Nat /\ Len(p) >= Begin
<1>1. PICK s, d : Shown(s, d) /\ VisiblePath(s, d) = p
  BY NodesAtIs
<1>2. p \in Path /\ Len(p) \in Nat /\ Begin \in Nat
  BY <1>1, ShownIs DEF Path, Begin
<1>3. CASE d = s
  BY <1>1, <1>2, <1>3, ShownPath
<1>4. CASE d # s
  <2>1. p = Append(VisiblePath(s, Front(d)), Last(d)) /\ VisiblePath(s, Front(d)) \in Path /\ Last(d) \in Nat \ {0}
    BY <1>1, <1>4, ShownPath
  <2>2. Len(p) = Len(VisiblePath(s, Front(d))) + 1 /\ Len(VisiblePath(s, Front(d))) \in Nat
    BY <2>1, AppendIs DEF Path
  <2>3. QED  BY <1>2, <2>2 DEF Begin
<1>5. QED  BY <1>2, <1>3, <1>4

\* A TreeNode has one visible path.
LEMMA OnePath ==
  ASSUME Fit, Merges, NEW p, NEW q, NEW d, d \in NodesAt(p), d \in NodesAt(q)
  PROVE  p = q
<1>1. PICK s : Shown(s, d) /\ VisiblePath(s, d) = p
  BY NodesAtIs
<1>2. PICK t : Shown(t, d) /\ VisiblePath(t, d) = q
  BY NodesAtIs
<1>3. QED  BY <1>1, <1>2, ShownOnce

\* What is shown below a start is a child of something that is shown.
LEMMA ParentShown ==
  ASSUME Fit, Merges, NEW s, NEW d, Shown(s, d), d # s
  PROVE  \E tn : /\ Shown(s, tn) /\ IsPrefix(tn, d) /\ tn # d /\ HiddenBetween(tn, d)
                 /\ VisiblePath(s, d) = Append(VisiblePath(s, tn), Last(d))
                 /\ VisiblePath(s, tn) \in Path /\ Last(d) \in Nat \ {0}
<1>1. s \in Starts /\ d \in wo.tree /\ Reaches(s, d) /\ s \in Path /\ d \in Path /\ Len(s) \in Nat /\ Len(d) \in Nat
  BY ShownIs DEF Shown
<1>2. PICK b \in Len(s) .. Len(d) - 1 :
        Shown(s, Cut(d, b)) /\ \A k \in b + 1 .. Len(d) - 1 : Cut(d, k) \in wo.elided
  BY <1>1, VisibleParent
<1> DEFINE tn == Cut(d, b)
<1>3. b \in 0 .. Len(d) /\ b < Len(d)
  BY <1>1
<1>4. tn \in Path /\ Len(tn) = b /\ IsPrefix(tn, d)
  BY <1>1, <1>3, CutIs, CutIsPrefix
<1>5. tn # d
  BY <1>3, <1>4
<1> HIDE DEF tn
<1>6. HiddenBetween(tn, d)
  BY <1>2, <1>4 DEF HiddenBetween
<1>7. Shown(s, tn)
  BY <1>2 DEF tn
<1>8. VisiblePath(s, Front(d)) = VisiblePath(s, tn)
  BY <1>1, <1>4, <1>5, <1>6, <1>7, FrontHidden DEF Shown, Reaches
<1>9. QED  BY <1>4, <1>5, <1>6, <1>7, <1>8, ShownPath

\* The TreeNodes that an entry's visit goes on to.
Kids(p) == UNION {treeNodeChildren(PtnOf(p), tn) : tn \in NodesAt(p)}

LEMMA KidsAre ==
  ASSUME Clean, NEW p \in Paths
  PROVE  /\ \A d \in Kids(p) : Last(d) \in Nat \ {0} /\ d \in NodesAt(Append(p, Last(d)))
         /\ \A x \in Nat \ {0} : \A d \in NodesAt(Append(p, x)) : d \in Kids(p) /\ Last(d) = x
<1>1. Fit /\ Merges /\ p \in Path /\ Len(p) \in Nat /\ Len(p) >= Begin /\ Begin \in Nat
  BY PathsAre DEF Clean
<1>2. ASSUME NEW d \in Kids(p)
      PROVE  Last(d) \in Nat \ {0} /\ d \in NodesAt(Append(p, Last(d)))
  <2>1. PICK tn \in NodesAt(p) : d \in treeNodeChildren(PtnOf(p), tn)
    BY DEF Kids
  <2>2. PICK s : Shown(s, tn) /\ VisiblePath(s, tn) = p
    BY <1>1, NodesAtIs
  <2>3. Shown(s, d) /\ IsPrefix(tn, d) /\ tn # d /\ HiddenBetween(tn, d)
    BY <2>1, <2>2, ChildrenShown
  <2>4. s \in Path /\ tn \in Path /\ d \in Path /\ IsPrefix(s, tn)
    BY <1>1, <2>2, <2>3, ShownIs DEF Shown, Reaches
  <2>5. VisiblePath(s, Front(d)) = p /\ Len(tn) < Len(d)
    BY <2>2, <2>3, <2>4, FrontHidden
  <2>6. d # s
    <3>1. Len(s) <= Len(tn) /\ Len(s) \in Nat /\ Len(tn) \in Nat /\ Len(d) \in Nat
      BY <2>4, PrefixOrder DEF Path
    <3>2. QED  BY <2>5, <3>1
  <2>7. VisiblePath(s, d) = Append(p, Last(d)) /\ Last(d) \in Nat \ {0}
    BY <1>1, <2>3, <2>5, <2>6, ShownPath
  <2>8. QED  BY <1>1, <2>3, <2>7, NodesAtIs
<1>3. ASSUME NEW x \in Nat \ {0}, NEW d \in NodesAt(Append(p, x))
      PROVE  d \in Kids(p) /\ Last(d) = x
  <2>1. PICK s : Shown(s, d) /\ VisiblePath(s, d) = Append(p, x)
    BY <1>1, NodesAtIs
  <2>2. Len(Append(p, x)) = Len(p) + 1
    BY <1>1, AppendIs
  <2>3. d # s
    BY <1>1, <2>1, <2>2, ShownPath
  <2>4. PICK tn : /\ Shown(s, tn) /\ IsPrefix(tn, d) /\ tn # d /\ HiddenBetween(tn, d)
                  /\ VisiblePath(s, d) = Append(VisiblePath(s, tn), Last(d))
                  /\ VisiblePath(s, tn) \in Path /\ Last(d) \in Nat \ {0}
    BY <1>1, <2>1, <2>3, ParentShown
  <2>5. VisiblePath(s, tn) = p /\ Last(d) = x
    <3>1. Front(Append(VisiblePath(s, tn), Last(d))) = VisiblePath(s, tn) /\ Last(Append(VisiblePath(s, tn), Last(d))) = Last(d)
      BY <2>4, AppendIs
    <3>2. Front(Append(p, x)) = p /\ Last(Append(p, x)) = x
      BY <1>1, AppendIs
    <3>3. QED  BY <2>1, <2>4, <3>1, <3>2
  <2>6. d \in treeNodeChildren(PtnOf(p), tn)
    BY <2>1, <2>4, <2>5, ChildrenShown
  <2>7. tn \in NodesAt(p)
    BY <1>1, <2>4, <2>5, NodesAtIs
  <2>8. QED  BY <2>5, <2>6, <2>7 DEF Kids
<1>4. QED  BY <1>2, <1>3

\* Visible paths other than those of the starts go on from others.
LEMMA PathsFront ==
  ASSUME Fit, Merges, NEW p \in Paths, Len(p) > Begin
  PROVE  p # <<>> /\ Front(p) \in Paths /\ Last(p) \in Nat \ {0} /\ p = Append(Front(p), Last(p))
<1>1. PICK s, d : Shown(s, d) /\ VisiblePath(s, d) = p
  BY NodesAtIs
<1>2. p \in Path /\ Len(p) \in Nat /\ Begin \in Nat
  BY PathsAre
<1>3. d # s
  BY <1>1, <1>2, ShownPath
<1>4. PICK tn : Shown(s, tn) /\ p = Append(VisiblePath(s, tn), Last(d)) /\ VisiblePath(s, tn) \in Path /\ Last(d) \in Nat \ {0}
  BY <1>1, <1>3, ParentShown
<1>5. Front(p) = VisiblePath(s, tn) /\ Last(p) = Last(d) /\ p # <<>>
  BY <1>4, AppendIs
<1>6. Front(p) \in Paths
  BY <1>4, <1>5, NodesAtIs
<1>7. QED  BY <1>4, <1>5, <1>6

LEMMA PathsCut ==
  ASSUME Fit, Merges, NEW p \in Paths, NEW k \in Begin .. Len(p)
  PROVE  Cut(p, k) \in Paths
<1>1. p \in Path /\ Len(p) \in Nat /\ Begin \in Nat /\ Len(p) >= Begin
  BY PathsAre
<1> DEFINE T == {i \in 0 .. Len(p) - Begin : Cut(p, Len(p) - i) \in Paths}
<1>2. 0 \in T
  <2>1. Cut(p, Len(p)) = p
    BY <1>1, SubSeqFull DEF Cut, Path
  <2>2. QED  BY <1>1, <2>1
<1>3. ASSUME NEW i \in 0 .. Len(p) - Begin - 1, i \in T
      PROVE  i + 1 \in T
  <2> DEFINE m == Len(p) - i
             c == Cut(p, m)
  <2>1. m \in 0 .. Len(p) /\ m > Begin /\ m - 1 \in 0 .. m /\ m - 1 = Len(p) - (i + 1) /\ i + 1 \in 0 .. Len(p) - Begin /\ c \in Paths
    BY <1>1, <1>3
  <2> HIDE DEF m
  <2>2. c \in Path /\ Len(c) = m
    BY <1>1, <2>1, CutIs
  <2>3. Front(c) \in Paths /\ c # <<>>
    BY <2>1, <2>2, PathsFront
  <2>4. Front(c) = Cut(c, m - 1) /\ Cut(c, m - 1) = Cut(p, m - 1)
    BY <1>1, <2>1, <2>2, <2>3, FrontIs, CutOfCut
  <2>5. QED  BY <2>1, <2>3, <2>4
<1>4. Len(p) - k \in Nat /\ Len(p) - k \in 0 .. Len(p) - Begin /\ Len(p) - (Len(p) - k) = k
  BY <1>1
<1>5. \A i \in 0 .. (Len(p) - k) - 1 : i \in T => i + 1 \in T
  BY <1>1, <1>3
<1>6. Len(p) - k \in T
  <2> HIDE DEF T
  <2>1. QED  BY <1>2, <1>4, <1>5, Induction
<1>7. QED  BY <1>4, <1>6

\* Those with the shortest paths are the starts.
LEMMA TopsAre ==
  ASSUME Fit, Merges, NEW p \in Paths
  PROVE  Len(p) = Begin <=> ~\E q \in Paths : IsStrictPrefix(q, p)
<1>1. p \in Path /\ Len(p) \in Nat /\ Begin \in Nat /\ Len(p) >= Begin
  BY PathsAre
<1>2. ASSUME NEW q \in Paths, IsStrictPrefix(q, p)
      PROVE  Len(p) # Begin
  <2>1. q \in Path /\ Len(q) \in Nat /\ Len(q) >= Begin /\ IsPrefix(q, p) /\ q # p
    BY <1>2, PathsAre DEF IsStrictPrefix
  <2>2. ~(Len(p) <= Len(q))
    BY <1>1, <2>1, PrefixOrder
  <2>3. QED  BY <1>1, <2>1, <2>2
<1>3. ASSUME Len(p) # Begin
      PROVE  \E q \in Paths : IsStrictPrefix(q, p)
  <2>1. p # <<>> /\ Front(p) \in Paths
    BY <1>1, <1>3, PathsFront
  <2>2. Front(p) \in Path /\ IsPrefix(Front(p), Front(p))
    BY <1>1, <2>1, FrontIs, PrefixOrder
  <2>3. QED  BY <1>1, <2>1, <2>2, PrefixOfNext
<1>4. QED  BY <1>2, <1>3

LEMMA PathsFinite ==
  ASSUME Fit, Merges
  PROVE  IsFiniteSet(Paths)
<1> DEFINE D == {d \in wo.tree : \E s : Shown(s, d)}
           PathOfNode(d) == VisiblePath(CHOOSE s : Shown(s, d), d)
           f == [d \in D |-> PathOfNode(d)]
<1>1. IsFiniteSet(D)
  BY FS_Subset DEF Fit
<1>2. ASSUME NEW s, NEW d, Shown(s, d)
      PROVE  d \in D /\ f[d] = VisiblePath(s, d)
  <2>1. d \in D
    BY <1>2 DEF Shown
  <2>2. Shown(CHOOSE t : Shown(t, d), d)
    BY <1>2
  <2>3. (CHOOSE t : Shown(t, d)) = s
    BY <1>2, <2>2, ShownOnce
  <2>4. QED  BY <2>1, <2>3
<1>3. \A d \in D : f[d] \in Paths
  BY <1>2, NodesAtIs
<1>4. \A p \in Paths : \E d \in D : f[d] = p
  BY <1>2, NodesAtIs
<1>5. f = [d \in D |-> f[d]]
  OBVIOUS
<1> HIDE DEF f
<1>6. f \in Surjection(D, Paths)
  BY <1>3, <1>4, <1>5 DEF Surjection
<1> HIDE DEF D
<1>7. QED  BY <1>1, <1>6, FS_Surjection

-----------------------------------------------------------------------------
(* The view *)

Within == {p \in Paths : OnPrefix(Prefixed, p)}
Deep(p) == {q \in Paths : IsPrefix(q, p) /\ ~\E w \in Within \ {p} : IsPrefix(q, w) /\ IsPrefix(w, p)}
Depth(p) == Cardinality(Deep(p))
Shallow(p) == wo.maxDepth # unspecifiedOption => \A q \in Paths : IsPrefix(q, p) => Depth(q) <= wo.maxDepth
NotElided(p) == wo.elidePrefix => Len(p) = Begin \/ p \notin Within
View == {p \in Paths : NotElided(p) /\ Shallow(p)}
ParentOf(p) == {q \in View : IsStrictPrefix(q, p) /\ ~\E r \in View : IsStrictPrefix(q, r) /\ IsStrictPrefix(r, p)}
Written(p) == [tns |-> NodesAt(p), prefix |-> p \in Within, parent |-> UNION {NodesAt(q) : q \in ParentOf(p)}]

LEMMA DescribedIs ==
  ASSUME Fit, Merges
  PROVE  Described = {Written(p) : p \in View}
<1> DEFINE tops == {p \in Paths : ~\E q \in Paths : IsStrictPrefix(q, p)}
           view == {p \in Paths :
                      /\ wo.elidePrefix => p \in tops \/ p \notin Within
                      /\ wo.maxDepth # unspecifiedOption =>
                           \A q \in Paths : IsPrefix(q, p) => Depth(q) <= wo.maxDepth}
           Above(p) == {q \in view : IsStrictPrefix(q, p) /\ ~\E r \in view : IsStrictPrefix(q, r) /\ IsStrictPrefix(r, p)}
<1>1. Described = {[tns |-> NodesAt(p), prefix |-> p \in Within, parent |-> UNION {NodesAt(q) : q \in Above(p)}] : p \in view}
  BY DEF Described, Within, Paths, NodesAt, Depth, Deep, Prefixed
<1>2. \A p \in Paths : p \in tops <=> Len(p) = Begin
  BY TopsAre
<1>3. view = View
  <2> HIDE DEF tops
  <2>1. QED  BY <1>2 DEF View, NotElided, Shallow
<1>4. \A p : Above(p) = ParentOf(p)
  <2> HIDE DEF view
  <2>1. QED  BY <1>3 DEF ParentOf
<1> HIDE DEF view, Above
<1>5. QED  BY <1>1, <1>3, <1>4 DEF Written

\* What is within the prefix is so from the top.
LEMMA WithinAbove ==
  ASSUME Fit, Merges, NEW p \in Within, NEW q \in Paths, IsPrefix(q, p)
  PROVE  q \in Within
<1>1. p \in Path /\ q \in Path /\ Closed(Prefixed)
  BY PathsAre, PrefixedIs DEF Within, Fit
<1>2. PICK r \in Prefixed : IsStrictPrefix(p, r)
  BY <1>1, OnPrefixIs DEF Within
<1>3. r \in Path /\ IsPrefix(p, r) /\ p # r
  BY <1>1, <1>2 DEF Closed, IsStrictPrefix
<1>4. IsPrefix(q, r)
  BY <1>1, <1>3, PrefixOrder
<1>5. q # r
  <2>1. SUFFICES ASSUME q = r PROVE FALSE
    OBVIOUS
  <2>2. Len(r) <= Len(p)
    BY <1>1, <2>1, PrefixOrder
  <2>3. QED  BY <1>1, <1>3, <2>2, PrefixOrder
<1>6. QED  BY <1>1, <1>2, <1>4, <1>5, OnPrefixIs DEF Within, IsStrictPrefix

\* How deep a path is, from the one above it.
LEMMA DepthIs ==
  ASSUME Fit, Merges, NEW p \in Paths
  PROVE  /\ Depth(p) \in Nat
         /\ Depth(p) = IF Len(p) = Begin THEN 1 ELSE IF Front(p) \in Within THEN 1 ELSE 1 + Depth(Front(p))
<1>1. p \in Path /\ Len(p) \in Nat /\ Begin \in Nat /\ Len(p) >= Begin /\ IsPrefix(p, p) /\ Within \subseteq Paths
  BY PathsAre, PrefixOrder DEF Within
<1>2. p \in Deep(p)
  <2>1. ASSUME NEW w \in Within \ {p}, IsPrefix(p, w), IsPrefix(w, p)
        PROVE  FALSE
    <3>1. w \in Path
      BY <1>1, PathsAre
    <3>2. QED  BY <1>1, <2>1, <3>1, PrefixOrder
  <2>2. QED  BY <1>1, <2>1 DEF Deep
<1>3. \A q \in Paths : IsFiniteSet(Deep(q)) /\ Depth(q) \in Nat
  <2>1. TAKE q \in Paths
  <2>2. IsFiniteSet(Deep(q))
    BY PathsFinite, FS_Subset DEF Deep
  <2>3. QED  BY <2>2, FS_CardinalityType DEF Depth
<1>4. Cardinality({p}) = 1
  BY FS_Singleton
<1>5. CASE Len(p) = Begin
  <2>1. \A q \in Paths : IsPrefix(q, p) => q = p
    BY <1>5, TopsAre DEF IsStrictPrefix
  <2>2. Deep(p) = {p}
    BY <1>2, <2>1 DEF Deep
  <2>3. QED  BY <1>3, <1>4, <1>5, <2>2 DEF Depth
<1>6. CASE Len(p) # Begin
  <2> DEFINE c == Front(p)
  <2>1. p # <<>> /\ c \in Paths
    BY <1>1, <1>6, PathsFront
  <2>2. c \in Path /\ IsPrefix(c, c) /\ Len(c) = Len(p) - 1 /\ c # p
    BY <1>1, <2>1, FrontIs, PrefixOrder
  <2>3. \A q \in Path : IsPrefix(q, p) <=> q = p \/ IsPrefix(q, c)
    BY <1>1, <2>1, PrefixOfNext
  <2> HIDE DEF c
  <2>4. CASE c \in Within
    <3>1. ASSUME NEW q \in Deep(p), q # p
          PROVE  FALSE
      <4>1. q \in Path /\ IsPrefix(q, c)
        BY <2>3, <3>1, PathsAre DEF Deep
      <4>2. QED  BY <2>2, <2>3, <2>4, <4>1 DEF Deep
    <3>2. Deep(p) = {p}
      BY <1>2, <3>1
    <3>3. QED  BY <1>3, <1>4, <1>6, <2>4, <3>2 DEF Depth, c
  <2>5. CASE c \notin Within
    <3>1. ASSUME NEW q \in Paths, q # p
          PROVE  q \in Deep(p) <=> q \in Deep(c)
      <4>1. q \in Path
        BY PathsAre
      <4>2. IsPrefix(q, p) <=> IsPrefix(q, c)
        BY <2>3, <3>1, <4>1
      <4>3. ASSUME NEW w \in Within
            PROVE  w # p /\ IsPrefix(w, p) <=> w # c /\ IsPrefix(w, c)
        <5>1. w \in Path /\ w # c
          BY <1>1, <2>5, PathsAre
        <5>2. ~IsPrefix(p, c)
          <6>1. ~(Len(p) <= Len(c))
            BY <1>1, <2>2
          <6>2. QED  BY <1>1, <2>2, <6>1, PrefixOrder
        <5>3. QED  BY <2>3, <5>1, <5>2
      <4>4. QED  BY <4>2, <4>3 DEF Deep
    <3>2. p \notin Deep(c)
      <4>1. ~(Len(p) <= Len(c))
        BY <1>1, <2>2
      <4>2. QED  BY <1>1, <2>2, <4>1, PrefixOrder DEF Deep
    <3>3. Deep(p) = Deep(c) \union {p}
      BY <1>2, <3>1, <3>2 DEF Deep
    <3>4. Cardinality(Deep(p)) = Cardinality(Deep(c)) + 1
      BY <1>3, <2>1, <3>2, <3>3, FS_AddElement
    <3>5. QED  BY <1>3, <1>6, <2>1, <2>5, <3>4 DEF Depth, c
  <2>6. QED  BY <2>4, <2>5
<1>7. QED  BY <1>5, <1>6

\* What lies above something shallow enough is so too.
LEMMA ShallowAbove ==
  ASSUME Fit, Merges, NEW p \in Paths
  PROVE  /\ \A q \in Paths : IsPrefix(q, p) /\ Shallow(p) => Shallow(q)
         /\ Len(p) > Begin => (Shallow(p) <=> Shallow(Front(p)) /\ (wo.maxDepth # unspecifiedOption => Depth(p) <= wo.maxDepth))
         /\ Len(p) = Begin => (Shallow(p) <=> (wo.maxDepth # unspecifiedOption => Depth(p) <= wo.maxDepth))
<1>1. p \in Path /\ IsPrefix(p, p) /\ \A q \in Paths : q \in Path
  BY PathsAre, PrefixOrder
<1>2. \A q, r \in Paths : IsPrefix(r, q) /\ IsPrefix(q, p) => IsPrefix(r, p)
  BY <1>1, PrefixOrder
<1>3. \A q \in Paths : IsPrefix(q, p) /\ Shallow(p) => Shallow(q)
  BY <1>2 DEF Shallow
<1>4. CASE Len(p) > Begin
  <2>1. p # <<>> /\ \A q \in Paths : IsPrefix(q, p) <=> q = p \/ IsPrefix(q, Front(p))
    BY <1>1, <1>4, PathsFront, PrefixOfNext
  <2>2. Len(p) # Begin
    BY <1>4, PathsAre
  <2>3. QED  BY <1>1, <1>3, <2>1, <2>2 DEF Shallow
<1>5. CASE Len(p) = Begin
  <2>1. \A q \in Paths : IsPrefix(q, p) => q = p
    BY <1>5, TopsAre DEF IsStrictPrefix
  <2>2. ~(Len(p) > Begin)
    BY <1>5, PathsAre
  <2>3. QED  BY <1>1, <1>3, <1>5, <2>1, <2>2 DEF Shallow
<1>6. Len(p) > Begin \/ Len(p) = Begin
  BY PathsAre
<1>7. QED  BY <1>4, <1>5, <1>6

\* A path has one parent in the view at most, and when what is right above it is
\* in the view that is the parent.
LEMMA ParentsAre ==
  ASSUME Fit, Merges, NEW p \in Paths
  PROVE  /\ \A q, r \in ParentOf(p) : q = r
         /\ Len(p) = Begin => ParentOf(p) = {}
         /\ \A q \in ParentOf(p) : q \in View /\ q \in Paths /\ IsStrictPrefix(q, p)
         /\ Len(p) > Begin /\ Front(p) \in View => \A q \in ParentOf(p) : q = Front(p)
<1>1. p \in Path /\ View \subseteq Paths /\ \A q \in Paths : q \in Path
  BY PathsAre DEF View
<1>2. \A q \in ParentOf(p) : q \in View /\ q \in Paths /\ IsStrictPrefix(q, p)
  BY <1>1 DEF ParentOf
<1>3. ASSUME NEW q \in ParentOf(p), NEW r \in View, IsStrictPrefix(r, p)
      PROVE  IsPrefix(r, q)
  <2>1. q \in Path /\ r \in Path /\ IsPrefix(q, p) /\ IsPrefix(r, p) /\ ~IsStrictPrefix(q, r)
    BY <1>1, <1>2, <1>3 DEF ParentOf, IsStrictPrefix
  <2>2. IsPrefix(q, r) \/ IsPrefix(r, q)
    <3>1. Len(q) <= Len(r) \/ Len(r) <= Len(q)
      BY <2>1 DEF Path
    <3>2. QED  BY <1>1, <2>1, <3>1, PrefixOrder
  <2>3. IsPrefix(q, q)
    BY <2>1, PrefixOrder
  <2>4. QED  BY <2>1, <2>2, <2>3 DEF IsStrictPrefix
<1>4. ASSUME NEW q \in Path, NEW r \in Path, IsPrefix(q, r), IsPrefix(r, q)
      PROVE  q = r
  BY <1>4, PrefixOrder
<1>5. \A q, r \in ParentOf(p) : q = r
  BY <1>1, <1>2, <1>3, <1>4
<1>6. Len(p) = Begin => ParentOf(p) = {}
  BY <1>2, TopsAre
<1>7. ASSUME Len(p) > Begin, Front(p) \in View, NEW q \in ParentOf(p)
      PROVE  q = Front(p)
  <2>1. p # <<>> /\ Front(p) \in Path
    BY <1>1, <1>7, PathsFront
  <2>2. IsStrictPrefix(Front(p), p) /\ IsPrefix(q, Front(p))
    BY <1>1, <1>2, <1>7, <2>1, PrefixOfNext, PrefixOrder
  <2>3. IsPrefix(Front(p), q)
    BY <1>3, <1>7, <2>2
  <2>4. QED  BY <1>1, <1>2, <1>4, <2>1, <2>2, <2>3
<1>8. QED  BY <1>2, <1>5, <1>6, <1>7

(***************************************************************************)
(* The inductive invariant of a walk.  Each class of TreeNodes with one    *)
(* visible path that the view is to show has been returned, or it, or one  *)
(* above it, waits in the heap.                                            *)
(***************************************************************************)
\* Where a SubtreeNode has its parent, and a heap entry: the nearest one above it.
Near(st, j, p) ==
  IF Len(p) = Begin THEN j = Nil
  ELSE j \in DOMAIN st /\ \E a \in ParentOf(p) : st[j].tns = NodesAt(a)

MadeAt(st, i, p) ==
  st[i].tns = NodesAt(p) /\ st[i].prefix = (p \in Within) /\ Near(st, st[i].parent, p)
WaitsAt(st, e, p) ==
  /\ e.tns = NodesAt(p) /\ e.ptn = PtnOf(p) /\ Near(st, e.parent, p)
  /\ Len(p) > Begin => Shallow(Front(p))

Made(st) ==
  /\ \A i \in DOMAIN st : \E p \in View : MadeAt(st, i, p)
  /\ \A i, j \in DOMAIN st : st[i].tns = st[j].tns => i = j
Waiting(h, st) ==
  /\ \A e \in h : \E p \in Paths : WaitsAt(st, e, p)
  /\ \A e, f \in h : \A p, q \in Paths :
       e.tns = NodesAt(p) /\ f.tns = NodesAt(q) /\ IsPrefix(p, q) => e = f
  /\ \A e \in h : \A i \in DOMAIN st : \A p, q \in Paths :
       e.tns = NodesAt(p) /\ st[i].tns = NodesAt(q) => ~IsPrefix(p, q)
Covering(h, st) ==
  \A q \in View : \/ \E i \in DOMAIN st : st[i].tns = NodesAt(q)
                  \/ \E e \in h : \E p \in Paths : e.tns = NodesAt(p) /\ IsPrefix(p, q)
Whole(st) == \A i \in DOMAIN st : st[i].tns \intersect wo.broken = {}
Sight(h, st) == Made(st) /\ Waiting(h, st) /\ Covering(h, st) /\ Whole(st)

SightInv ==
  /\ Fit
  /\ status = "new" => subtree = <<>>
  /\ status = "done" => ~MoreToVisit
  /\ status \in {"walking", "done"} => Merges
  /\ status \in {"walking", "done"} /\ MergesCleanly => Sight(heap, subtree)

\* Nothing of the view changes while the options stay.
LEMMA SameOptions ==
  ASSUME UNCHANGED wo
  PROVE  /\ Starts' = Starts /\ Prefixed' = Prefixed /\ Begin' = Begin
         /\ \A s, d : VisiblePath(s, d)' = VisiblePath(s, d)
         /\ (Fit' <=> Fit) /\ (Merges' <=> Merges) /\ (MergesCleanly' <=> MergesCleanly)
<1>1. Starts' = Starts
  BY DEF Starts, MergeLeaves, MergeTree, PathTree, PrefixChildren
<1>2. Prefixed' = Prefixed /\ Begin' = Begin
  BY DEF Prefixed, PathTree, Begin
<1>3. \A s, d : VisiblePath(s, d)' = VisiblePath(s, d)
  BY DEF VisiblePath
<1>4. (Fit' <=> Fit) /\ (Merges' <=> Merges)
  BY DEF Fit, Merges, MergeTree, PathTree
<1>5. MergesCleanly' <=> MergesCleanly
  BY <1>1 DEF MergesCleanly, KeptByPrefixes, PathTree, OnPrefix, PrefixChildren
<1>6. QED  BY <1>1, <1>2, <1>3, <1>4, <1>5

LEMMA SameView ==
  ASSUME UNCHANGED wo
  PROVE  /\ Paths' = Paths /\ Within' = Within /\ View' = View
         /\ \A p : NodesAt(p)' = NodesAt(p) /\ PtnOf(p)' = PtnOf(p) /\ ParentOf(p)' = ParentOf(p)
         /\ \A p : Shallow(p)' <=> Shallow(p)
<1>1. Starts' = Starts /\ Prefixed' = Prefixed /\ Begin' = Begin /\ \A s, d : VisiblePath(s, d)' = VisiblePath(s, d)
  BY SameOptions
<1>2. \A p : KeptByPrefixes(p)' <=> KeptByPrefixes(p)
  BY DEF KeptByPrefixes, PathTree, OnPrefix, PrefixChildren
<1>3. InSight' = InSight
  BY <1>1, <1>2 DEF InSight
<1>4. Paths' = Paths /\ \A p : NodesAt(p)' = NodesAt(p)
  BY <1>3 DEF Paths, NodesAt
<1>5. Within' = Within /\ \A p : PtnOf(p)' = PtnOf(p)
  BY <1>1, <1>4 DEF Within, PtnOf, OnPrefix, PrefixChildren
<1>6. \A p : Deep(p)' = Deep(p)
  BY <1>4, <1>5 DEF Deep
<1>7. \A p : Depth(p)' = Depth(p)
  BY <1>6 DEF Depth
<1>8. \A p : Shallow(p)' <=> Shallow(p)
  BY <1>4, <1>7 DEF Shallow
<1>9. View' = View
  BY <1>1, <1>4, <1>5, <1>8 DEF View, NotElided
<1>10. \A p : ParentOf(p)' = ParentOf(p)
  BY <1>9 DEF ParentOf
<1>11. QED  BY <1>4, <1>5, <1>8, <1>9, <1>10

-----------------------------------------------------------------------------
(* Entries *)

\* The entry that the class of a path gets.
EntryOf(p, parent, path) == [path |-> path, tns |-> NodesAt(p), parent |-> parent, ptn |-> PtnOf(p)]

LEMMA EntriesAre ==
  ASSUME Clean, NEW p \in Paths, NEW e, e.tns = NodesAt(p), e.ptn = PtnOf(p), NEW parent, NEW path
  PROVE  childEntries(e, parent, path) =
           {EntryOf(Append(p, x), parent, Append(path, x)) : x \in {y \in Nat \ {0} : Append(p, y) \in Paths}}
<1> DEFINE X == {y \in Nat \ {0} : Append(p, y) \in Paths}
<1>1. p \in Path /\ wo \in walkOptions /\ Fit /\ Merges
  BY PathsAre DEF Clean, Fit
<1>2. childEntries(e, parent, path) = EntriesByScope(PtnOf(p), Kids(p), parent, path)
  BY DEF childEntries, Kids
<1>3. ASSUME NEW x \in Nat \ {0}
      PROVE  {d \in Kids(p) : Last(d) = x} = NodesAt(Append(p, x))
  BY KidsAre
<1>4. {Last(d) : d \in Kids(p)} = X
  <2>1. \A d \in Kids(p) : Last(d) \in X
    BY <1>1, KidsAre, NodesAtIs
  <2>2. ASSUME NEW x \in X
        PROVE  \E d \in Kids(p) : Last(d) = x
    <3>1. PICK d : d \in NodesAt(Append(p, x))
      BY <1>1, NodesAtIs
    <3>2. QED  BY <3>1, KidsAre
  <2> HIDE DEF X
  <2>3. QED  BY <2>1, <2>2
<1>5. ASSUME NEW x \in X
      PROVE  newWalkHeapEntry(PtnOf(p), x, {d \in Kids(p) : Last(d) = x}, parent, path)
               = EntryOf(Append(p, x), parent, Append(path, x))
  <2>1. Descend(Prefixed, PtnOf(p), x) = PtnOf(Append(p, x))
    BY <1>1, PtnIs
  <2>2. QED  BY <1>3, <2>1 DEF newWalkHeapEntry, EntryOf, Prefixed
<1> HIDE DEF X
<1>6. EntriesByScope(PtnOf(p), Kids(p), parent, path) = {EntryOf(Append(p, x), parent, Append(path, x)) : x \in X}
  BY <1>4, <1>5 DEF EntriesByScope
<1>7. QED  BY <1>2, <1>6 DEF X

\* The classes of the starts.
LEMMA TopNodes ==
  ASSUME Fit, Merges, NEW p \in Paths, Len(p) = Begin
  PROVE  \A d : d \in NodesAt(p) <=> d \in Starts /\ Base(d) = p
<1>1. ASSUME NEW d \in NodesAt(p)
      PROVE  d \in Starts /\ Base(d) = p
  <2>1. PICK s : Shown(s, d) /\ VisiblePath(s, d) = p
    BY NodesAtIs
  <2>2. d = s
    <3>1. SUFFICES ASSUME d # s PROVE FALSE
      OBVIOUS
    <3>2. PICK tn : Shown(s, tn) /\ p = Append(VisiblePath(s, tn), Last(d)) /\ VisiblePath(s, tn) \in Path /\ Last(d) \in Nat \ {0}
      BY <2>1, <3>1, ParentShown
    <3>3. VisiblePath(s, tn) \in Paths
      BY <3>2, NodesAtIs
    <3>4. Len(VisiblePath(s, tn)) >= Begin /\ Len(VisiblePath(s, tn)) \in Nat /\ Begin \in Nat
      BY <3>3, PathsAre
    <3>5. Len(p) = Len(VisiblePath(s, tn)) + 1
      BY <3>2, AppendIs
    <3>6. QED  BY <3>4, <3>5
  <2>3. QED  BY <2>1, <2>2, ShownPath DEF Shown
<1>2. ASSUME NEW d \in Starts, Base(d) = p
      PROVE  d \in NodesAt(p)
  <2>1. d \in Path /\ d \in wo.tree /\ IsPrefix(d, d) /\ Len(d) \in Nat
    BY StartsAre, PrefixOrder DEF Path
  <2>2. Shown(d, d)
    BY <2>1 DEF Shown, Reaches
  <2>3. VisiblePath(d, d) = p
    BY <1>2, <2>2, ShownPath
  <2>4. QED  BY <2>2, <2>3, NodesAtIs
<1>3. QED  BY <1>1, <1>2

LEMMA StartNode ==
  ASSUME Fit, Merges, NEW s \in Starts
  PROVE  Base(s) \in Paths /\ Len(Base(s)) = Begin /\ s \in NodesAt(Base(s))
<1>1. s \in Path /\ s \in wo.tree /\ IsPrefix(s, s) /\ Len(s) \in Nat /\ Len(Base(s)) = Begin
  BY StartsAre, PrefixOrder DEF Path
<1>2. Shown(s, s)
  BY <1>1 DEF Shown, Reaches
<1>3. VisiblePath(s, s) = Base(s)
  BY <1>2, ShownPath
<1>4. QED  BY <1>1, <1>2, <1>3, NodesAtIs

-----------------------------------------------------------------------------
(* The start of a walk *)

\* A heap with the class of each start, and nothing returned.
LEMMA StartSees ==
  ASSUME Fit, Merges, NEW h, NEW path,
         h = {EntryOf(p, Nil, path[p]) : p \in {q \in Paths : Len(q) = Begin}}
  PROVE  Sight(h, <<>>)
<1> DEFINE tops == {q \in Paths : Len(q) = Begin}
<1>1. DOMAIN <<>> = {}
  OBVIOUS
<1>2. Made(<<>>) /\ Whole(<<>>)
  BY DEF Made, Whole
<1>3. \A e \in h : \E p \in tops : e = EntryOf(p, Nil, path[p])
  OBVIOUS
<1>4. \A p \in tops : EntryOf(p, Nil, path[p]) \in h
  OBVIOUS
<1>5. \A p \in tops : p \in Paths /\ p \in Path /\ Len(p) = Begin /\ ~(Len(p) > Begin) /\ \E d : d \in NodesAt(p)
  <2>1. TAKE p \in tops
  <2>2. Len(p) \in Nat /\ p \in Path
    BY PathsAre
  <2>3. QED  BY <2>2, NodesAtIs
<1> HIDE DEF tops
<1>6. \A p, q \in Paths : NodesAt(p) = NodesAt(q) => p = q
  BY NodesAtIs, OnePath
<1>7. Waiting(h, <<>>)
  <2>1. ASSUME NEW e \in h
        PROVE  \E p \in Paths : WaitsAt(<<>>, e, p)
    <3>1. PICK p \in tops : e = EntryOf(p, Nil, path[p])
      BY <1>3
    <3>2. WaitsAt(<<>>, e, p)
      BY <1>5, <3>1 DEF WaitsAt, Near, EntryOf
    <3>3. QED  BY <1>5, <3>2
  <2>2. ASSUME NEW e \in h, NEW f \in h, NEW p \in Paths, NEW q \in Paths,
               e.tns = NodesAt(p), f.tns = NodesAt(q), IsPrefix(p, q)
        PROVE  e = f
    <3>1. PICK a \in tops : e = EntryOf(a, Nil, path[a])
      BY <1>3
    <3>2. PICK b \in tops : f = EntryOf(b, Nil, path[b])
      BY <1>3
    <3>3. e.tns = NodesAt(a) /\ f.tns = NodesAt(b)
      BY <3>1, <3>2 DEF EntryOf
    <3>4. a = p /\ b = q
      BY <1>5, <1>6, <2>2, <3>3
    <3>5. p = q
      BY <1>5, <2>2, <3>4, TopsAre DEF IsStrictPrefix
    <3>6. QED  BY <3>1, <3>2, <3>4, <3>5
  <2>3. QED  BY <1>1, <2>1, <2>2 DEF Waiting
<1>8. Covering(h, <<>>)
  <2>1. SUFFICES ASSUME NEW q \in View
                 PROVE  \E e \in h : \E p \in Paths : e.tns = NodesAt(p) /\ IsPrefix(p, q)
    BY DEF Covering
  <2>2. q \in Paths /\ q \in Path /\ Len(q) \in Nat /\ Begin \in Nat /\ Len(q) >= Begin
    BY PathsAre DEF View
  <2>3. Begin \in 0 .. Len(q) /\ Begin \in Begin .. Len(q)
    BY <2>2
  <2> DEFINE p == Cut(q, Begin)
  <2>4. p \in Paths /\ Len(p) = Begin /\ IsPrefix(p, q)
    BY <2>2, <2>3, PathsCut, CutIs, CutIsPrefix
  <2> HIDE DEF p
  <2>5. EntryOf(p, Nil, path[p]) \in h /\ EntryOf(p, Nil, path[p]).tns = NodesAt(p)
    BY <1>4, <2>4 DEF tops, EntryOf
  <2>6. QED  BY <2>4, <2>5
<1>9. QED  BY <1>2, <1>7, <1>8 DEF Sight

LEMMA RootSees ==
  ASSUME Fit, wo.mergePrefixes = {}
  PROVE  Sight({newWalkHeapRoot}, <<>>)
<1> DEFINE path == [p \in Paths |-> <<>>]
           tops == {q \in Paths : Len(q) = Begin}
<1>1. Merges /\ Begin = 0 /\ Starts = {<<>>} /\ Base(<<>>) = <<>>
  BY DEF Merges, Begin, Starts, Base
<1>2. <<>> \in Paths /\ Len(<<>>) = Begin
  BY <1>1, StartNode
<1>3. tops = {<<>>}
  <2>1. \A q \in Paths : Len(q) = 0 => q = <<>>
    BY <1>1, PathsAre DEF Path
  <2>2. QED  BY <1>1, <1>2, <2>1
<1>4. NodesAt(<<>>) = {<<>>}
  BY <1>1, <1>2, TopNodes
<1>5. PtnOf(<<>>) = IF wo.pathPrefixes = {} THEN NoNode ELSE <<>>
  BY PrefixedIs DEF PtnOf, Fit
<1>6. newWalkHeapRoot = EntryOf(<<>>, Nil, path[<<>>])
  BY <1>2, <1>4, <1>5 DEF newWalkHeapRoot, EntryOf
<1> HIDE DEF tops, path
<1>7. {newWalkHeapRoot} = {EntryOf(p, Nil, path[p]) : p \in tops}
  BY <1>3, <1>6
<1>8. QED  BY <1>1, <1>7, StartSees DEF tops

LEMMA MergeSees ==
  ASSUME Fit, Merges, MergesCleanly, wo.mergePrefixes # {}, NEW ptn,
         ptn = IF wo.pathPrefixes = {} THEN NoNode ELSE <<>>
  PROVE  Sight(EntriesByScope(ptn, FoundLeaves(MergeTree(wo.mergePrefixes)), Nil, <<>>), <<>>)
<1> DEFINE path == [p \in Paths |-> p]
           tops == {q \in Paths : Len(q) = Begin}
           scopes == {Last(d) : d \in Starts}
<1>1. FoundLeaves(MergeTree(wo.mergePrefixes)) = Starts
  BY DEF FoundLeaves, Starts, MergesCleanly
<1>2. Begin = 1 /\ \A s \in Starts : s # <<>> /\ Base(s) = <<Last(s)>> /\ Last(s) \in Nat \ {0} /\ s \in Path
  BY StartsAre, FrontIs DEF Begin, Base
<1>3. PtnOf(<<>>) = ptn /\ wo \in walkOptions /\ <<>> \in Path
  BY PrefixedIs DEF PtnOf, Fit, Path
<1>4. ASSUME NEW x \in scopes
      PROVE  /\ <<x>> \in tops /\ path[<<x>>] = <<x>> /\ x \in Nat \ {0}
             /\ {d \in Starts : Last(d) = x} = NodesAt(<<x>>)
  <2>1. PICK s \in Starts : x = Last(s)
    OBVIOUS
  <2>2. <<x>> \in Paths /\ Len(<<x>>) = Begin
    BY <1>2, <2>1, StartNode
  <2>3. \A d : d \in NodesAt(<<x>>) <=> d \in Starts /\ Base(d) = <<x>>
    BY <2>2, TopNodes
  <2>4. \A d \in Starts : Base(d) = <<x>> <=> Last(d) = x
    BY <1>2
  <2>5. QED  BY <1>2, <2>1, <2>2, <2>3, <2>4
<1>5. ASSUME NEW q \in tops
      PROVE  \E x \in scopes : q = <<x>>
  <2>1. PICK d : d \in NodesAt(q)
    BY NodesAtIs
  <2>2. d \in Starts /\ Base(d) = q
    BY <2>1, TopNodes
  <2>3. QED  BY <1>2, <2>2
<1>6. ASSUME NEW x \in scopes
      PROVE  newWalkHeapEntry(ptn, x, {d \in Starts : Last(d) = x}, Nil, <<>>) = EntryOf(<<x>>, Nil, path[<<x>>])
  <2>1. x \in Nat \ {0} /\ Append(<<>>, x) = <<x>>
    <3>1. x \in Nat \ {0}
      BY <1>4
    <3> HIDE DEF scopes
    <3>2. QED  BY <3>1
  <2>2. Descend(Prefixed, ptn, x) = PtnOf(<<x>>)
    BY <1>3, <2>1, PtnIs
  <2> HIDE DEF scopes, tops, path
  <2>3. QED  BY <1>4, <2>1, <2>2 DEF newWalkHeapEntry, EntryOf, Prefixed
<1> HIDE DEF tops, path
<1>7. EntriesByScope(ptn, Starts, Nil, <<>>) = {EntryOf(<<x>>, Nil, path[<<x>>]) : x \in scopes}
  BY <1>6 DEF EntriesByScope
<1> HIDE DEF scopes
<1>8. {EntryOf(<<x>>, Nil, path[<<x>>]) : x \in scopes} = {EntryOf(p, Nil, path[p]) : p \in tops}
  <2> DEFINE one(x) == <<x>>
             entry(p) == EntryOf(p, Nil, path[p])
  <2>1. \A x \in scopes : one(x) \in tops
    BY <1>4
  <2>2. \A q \in tops : \E x \in scopes : q = one(x)
    BY <1>5
  <2>3. {entry(one(x)) : x \in scopes} = {entry(p) : p \in tops}
    <3> HIDE DEF one, entry
    <3>1. QED  BY <2>1, <2>2
  <2>4. QED  BY <2>3
<1>9. QED  BY <1>1, <1>7, <1>8, StartSees DEF tops

LEMMA OneClass ==
  ASSUME Fit, Merges, NEW p \in Paths, NEW q \in Paths, NodesAt(p) = NodesAt(q)
  PROVE  p = q
BY NodesAtIs, OnePath

-----------------------------------------------------------------------------
(* How deep an entry is *)

PathAt(st, i) == CHOOSE p \in View : MadeAt(st, i, p)
\* What AncestorsBelowPrefix counts.
Counts(st, i) == IF i = Nil THEN 0 ELSE IF st[i].prefix THEN 0 ELSE Depth(PathAt(st, i))

LEMMA PathAtIs ==
  ASSUME Fit, Merges, NEW st, Made(st), NEW i \in DOMAIN st
  PROVE  /\ PathAt(st, i) \in View /\ PathAt(st, i) \in Paths /\ MadeAt(st, i, PathAt(st, i))
         /\ \A p \in Paths : st[i].tns = NodesAt(p) => p = PathAt(st, i)
<1>1. \E p \in View : MadeAt(st, i, p)
  BY DEF Made
<1>2. PathAt(st, i) \in View /\ MadeAt(st, i, PathAt(st, i))
  BY <1>1 DEF PathAt
<1>3. PathAt(st, i) \in Paths
  BY <1>2 DEF View
<1>4. QED  BY <1>2, <1>3, OneClass DEF MadeAt

LEMMA EntryDepth ==
  ASSUME Fit, Merges, NEW st, Made(st), 0 \notin DOMAIN st, NEW p \in Paths, NEW j, Near(st, j, p),
         Len(p) > Begin => Shallow(Front(p))
  PROVE  1 + Counts(st, j) = Depth(p)
<1>1. p \in Path /\ Len(p) \in Nat /\ Begin \in Nat /\ Len(p) >= Begin
  BY PathsAre
<1>2. CASE Len(p) = Begin
  BY <1>2, DepthIs DEF Near, Counts
<1>3. CASE Len(p) # Begin
  <2>1. j \in DOMAIN st /\ j # Nil /\ Len(p) > Begin
    BY <1>1, <1>3 DEF Near, Nil
  <2>2. PICK a \in ParentOf(p) : st[j].tns = NodesAt(a)
    BY <1>3 DEF Near
  <2>3. a \in View /\ a \in Paths /\ IsStrictPrefix(a, p)
    BY <2>2, ParentsAre
  <2>4. a = PathAt(st, j) /\ st[j].prefix = (a \in Within)
    BY <2>1, <2>2, <2>3, PathAtIs DEF MadeAt
  <2>5. p # <<>> /\ Front(p) \in Paths /\ Shallow(Front(p))
    BY <2>1, PathsFront
  <2>6. IsPrefix(a, Front(p))
    BY <1>1, <2>3, <2>5, PathsAre, PrefixOfNext
  <2>7. Depth(p) = IF Front(p) \in Within THEN 1 ELSE 1 + Depth(Front(p))
    BY <1>3, DepthIs
  <2>8. CASE Front(p) \in Within
    <3>1. a \in Within
      BY <2>3, <2>6, <2>8, WithinAbove
    <3>2. Counts(st, j) = 0
      BY <2>1, <2>4, <3>1 DEF Counts
    <3>3. QED  BY <2>7, <2>8, <3>2
  <2>9. CASE Front(p) \notin Within
    <3>1. Front(p) \in View
      BY <2>5, <2>9 DEF View, NotElided
    <3>2. a = Front(p)
      BY <2>1, <2>2, <3>1, ParentsAre
    <3>3. Counts(st, j) = Depth(Front(p))
      BY <2>1, <2>4, <2>9, <3>2 DEF Counts
    <3>4. QED  BY <2>7, <2>9, <3>3
  <2>10. QED  BY <2>8, <2>9
<1>4. QED  BY <1>2, <1>3

Climbs(f) ==
  f = [i \in 0 .. Len(subtree) |->
         IF i = Nil \/ (i # Nil /\ subtree[i].prefix) THEN 0 ELSE 1 + f[subtree[i].parent]]

LEMMA AncestorsAre ==
  ASSUME Fit, Merges, WalkInv, Made(subtree), NEW j \in 0 .. Len(subtree)
  PROVE  AncestorsBelowPrefix(j) = Counts(subtree, j)
<1> DEFINE n == Len(subtree)
           g == [i \in 0 .. n |-> Counts(subtree, i)]
           Step(f, i) == IF i = Nil \/ (i # Nil /\ subtree[i].prefix) THEN 0 ELSE 1 + f[subtree[i].parent]
<1>1. n \in Nat /\ DOMAIN subtree = 1 .. n /\ \A i \in 1 .. n : subtree[i].parent \in 0 .. i - 1
  BY DEF WalkInv, ParentsFirst
<1>2. ASSUME NEW i \in 0 .. n
      PROVE  g[i] = Step(g, i)
  <2>1. CASE i = 0
    BY <2>1 DEF Counts, Nil
  <2>2. CASE i # 0 /\ subtree[i].prefix
    BY <2>2 DEF Counts, Nil
  <2>3. CASE i # 0 /\ ~subtree[i].prefix
    <3> DEFINE p == PathAt(subtree, i)
    <3>1. i \in 1 .. n /\ i \in DOMAIN subtree
      BY <1>1, <2>3
    <3>2. p \in View /\ p \in Paths /\ MadeAt(subtree, i, p)
      BY <3>1, PathAtIs
    <3> HIDE DEF p
    <3>3. Near(subtree, subtree[i].parent, p) /\ Shallow(p)
      BY <3>2 DEF MadeAt, View
    <3>4. Len(p) > Begin => Shallow(Front(p))
      BY <3>2, <3>3, ShallowAbove
    <3>5. 1 + Counts(subtree, subtree[i].parent) = Depth(p)
      <4>1. 0 \notin DOMAIN subtree
        BY <1>1
      <4>2. QED  BY <3>2, <3>3, <3>4, <4>1, EntryDepth
    <3>6. subtree[i].parent \in 0 .. n
      BY <1>1, <3>1
    <3>7. g[subtree[i].parent] = Counts(subtree, subtree[i].parent) /\ g[i] = Counts(subtree, i)
      BY <3>6
    <3>8. Counts(subtree, i) = Depth(p)
      BY <2>3 DEF Counts, p, Nil
    <3> HIDE DEF g
    <3>9. QED  BY <2>3, <3>5, <3>7, <3>8 DEF Nil
  <2>4. QED  BY <2>1, <2>2, <2>3
<1>3. \A f : Climbs(f) <=> f = [i \in 0 .. n |-> Step(f, i)]
  BY DEF Climbs
<1>4. g = [i \in 0 .. n |-> Step(g, i)]
  <2>1. g = [i \in 0 .. n |-> g[i]]
    OBVIOUS
  <2> HIDE DEF g, Step
  <2>2. QED  BY <1>2, <2>1
<1> DEFINE up == CHOOSE f : Climbs(f)
<1>5. up = [i \in 0 .. n |-> Step(up, i)]
  <2> HIDE DEF g, Step, n
  <2>1. QED  BY <1>3, <1>4
<1>6. AncestorsBelowPrefix(j) = up[j]
  BY DEF AncestorsBelowPrefix, Climbs
<1> HIDE DEF up, g
<1>7. ASSUME NEW i \in 0 .. n
      PROVE  up[i] = Step(up, i)
  <2> HIDE DEF Step, n
  <2>1. QED  BY <1>5, Zenon
<1> DEFINE T == {i \in 0 .. n : up[i] = g[i]}
<1>8. 0 \in T
  <2>1. Step(up, 0) = 0 /\ Step(g, 0) = 0 /\ 0 \in 0 .. n
    BY <1>1 DEF Nil
  <2> HIDE DEF Step, n
  <2>2. QED  BY <1>2, <1>7, <2>1
<1>9. ASSUME NEW i \in 1 .. n, \A k \in 1 .. i - 1 : k \in T
      PROVE  i \in T
  <2>1. i \in 0 .. n /\ subtree[i].parent \in 0 .. i - 1
    BY <1>1
  <2>2. subtree[i].parent \in T
    BY <1>8, <1>9, <2>1
  <2>3. up[subtree[i].parent] = g[subtree[i].parent]
    BY <2>2
  <2>4. Step(up, i) = Step(g, i)
    BY <2>3
  <2> HIDE DEF Step
  <2>5. QED  BY <1>2, <1>7, <2>1, <2>4
<1>10. \A i \in 1 .. n : i \in T
  <2> HIDE DEF T
  <2>1. QED  BY <1>1, <1>9, ByEarlier
<1>11. j \in T
  BY <1>1, <1>8, <1>10
<1>12. QED  BY <1>6, <1>11 DEF g

\* An entry is too deep just if its class is.
LEMMA TooDeepIs ==
  ASSUME Fit, Merges, WalkInv, Made(subtree), NEW e \in heap, NEW p \in Paths, WaitsAt(subtree, e, p)
  PROVE  TooDeep(e) <=> ~Shallow(p)
<1>1. e.parent \in 0 .. Len(subtree) /\ 0 \notin DOMAIN subtree
  BY DEF WalkInv
<1>2. AncestorsBelowPrefix(e.parent) = Counts(subtree, e.parent)
  BY <1>1, AncestorsAre
<1>3. 1 + Counts(subtree, e.parent) = Depth(p)
  BY <1>1, EntryDepth DEF WaitsAt
<1>4. TooDeep(e) <=> wo.maxDepth # unspecifiedOption /\ Depth(p) > wo.maxDepth
  BY <1>2, <1>3 DEF TooDeep
<1>5. Shallow(p) <=> (wo.maxDepth # unspecifiedOption => Depth(p) <= wo.maxDepth)
  BY ShallowAbove, PathsAre DEF WaitsAt
<1>6. wo.maxDepth # unspecifiedOption => wo.maxDepth \in Nat
  BY DEF Fit, walkOptions
<1>7. Depth(p) \in Nat
  BY DepthIs
<1>8. QED  BY <1>4, <1>5, <1>6, <1>7

-----------------------------------------------------------------------------
(* The visit of an entry *)

\* An entry that is too deep hides nothing of the view.
LEMMA SkipSees ==
  ASSUME Clean, WalkInv, Sight(heap, subtree), NEW e \in heap, TooDeep(e)
  PROVE  Sight(heap \ {e}, subtree)
<1>1. Fit /\ Merges /\ Made(subtree)
  BY DEF Clean, Sight
<1>2. PICK p \in Paths : WaitsAt(subtree, e, p)
  BY DEF Sight, Waiting
<1>3. ~Shallow(p)
  BY <1>1, <1>2, TooDeepIs
<1>4. Waiting(heap \ {e}, subtree)
  BY DEF Sight, Waiting
<1>5. Covering(heap \ {e}, subtree)
  <2>1. SUFFICES ASSUME NEW q \in View, NEW f \in heap, NEW r \in Paths, f.tns = NodesAt(r), IsPrefix(r, q)
                 PROVE  f # e
    BY DEF Sight, Covering
  <2>2. f = e => r = p
    BY <1>1, <1>2, <2>1, OneClass DEF WaitsAt
  <2>3. Shallow(r)
    BY <1>1, <2>1, ShallowAbove DEF View
  <2>4. QED  BY <1>3, <2>2, <2>3
<1>6. QED  BY <1>4, <1>5 DEF Sight

\* Returned or not, an entry leaves its children to wait in its place.
LEMMA KidsSee ==
  ASSUME Clean, Sight(heap, subtree), NEW e \in heap, NEW p \in Paths, WaitsAt(subtree, e, p), Shallow(p),
         NEW st, \A i \in DOMAIN subtree : i \in DOMAIN st /\ st[i] = subtree[i],
         \A i \in DOMAIN st : i \in DOMAIN subtree \/ st[i].tns = NodesAt(p),
         p \in View => \E i \in DOMAIN st : st[i].tns = NodesAt(p),
         NEW j, \A x \in Nat \ {0} : Near(st, j, Append(p, x)), NEW path
  PROVE  LET h == (heap \ {e}) \union childEntries(e, j, path)
         IN Waiting(h, st) /\ Covering(h, st)
<1> DEFINE X == {y \in Nat \ {0} : Append(p, y) \in Paths}
           kid(x) == EntryOf(Append(p, x), j, Append(path, x))
           h == (heap \ {e}) \union childEntries(e, j, path)
<1>1. Fit /\ Merges /\ p \in Path /\ Len(p) \in Nat /\ Begin \in Nat /\ Len(p) >= Begin /\ IsPrefix(p, p)
  BY PathsAre, PrefixOrder DEF Clean
<1>2. e.tns = NodesAt(p) /\ e.ptn = PtnOf(p)
  BY DEF WaitsAt
<1>3. childEntries(e, j, path) = {kid(x) : x \in X}
  BY <1>2, EntriesAre
<1>4. ASSUME NEW x \in X
      PROVE  /\ Append(p, x) \in Paths /\ Append(p, x) \in Path /\ kid(x).tns = NodesAt(Append(p, x)) /\ WaitsAt(st, kid(x), Append(p, x))
             /\ IsPrefix(p, Append(p, x)) /\ ~IsPrefix(Append(p, x), p)
             /\ Append(p, x) # <<>> /\ Front(Append(p, x)) = p /\ Last(Append(p, x)) = x /\ Len(Append(p, x)) = Len(p) + 1
  <2>1. /\ Append(p, x) \in Path /\ Append(p, x) # <<>> /\ Len(Append(p, x)) = Len(p) + 1
        /\ Front(Append(p, x)) = p /\ Last(Append(p, x)) = x /\ IsStrictPrefix(p, Append(p, x))
    BY <1>1, AppendIs
  <2>2. ~IsPrefix(Append(p, x), p)
    <3> DEFINE c == Append(p, x)
    <3>1. c \in Path /\ ~(Len(c) <= Len(p))
      BY <1>1, <2>1
    <3> HIDE DEF c
    <3>2. ~IsPrefix(c, p)
      BY <1>1, <3>1, PrefixOrder
    <3>3. QED  BY <3>2 DEF c
  <2>3. kid(x).tns = NodesAt(Append(p, x)) /\ kid(x).ptn = PtnOf(Append(p, x)) /\ kid(x).parent = j
    BY DEF EntryOf
  <2>4. Near(st, j, Append(p, x))
    OBVIOUS
  <2> HIDE DEF kid
  <2>5. WaitsAt(st, kid(x), Append(p, x))
    BY <2>1, <2>3, <2>4 DEF WaitsAt
  <2>6. QED  BY <2>1, <2>2, <2>3, <2>5 DEF IsStrictPrefix
<1>5. \A f \in h : \/ f \in heap /\ f # e
                   \/ \E x \in X : f = kid(x)
  BY <1>3
<1>6. \A x \in X : kid(x) \in h
  BY <1>3
<1>7. \A f \in heap : f # e => f \in h
  OBVIOUS
<1> HIDE DEF kid, X, h
<1>8. \A q, r \in Paths : NodesAt(q) = NodesAt(r) => q = r
  BY <1>1, OneClass
<1>9. \A q \in Paths : q \in Path
  BY <1>1, PathsAre
\* Any entry that is left is neither above nor below the one that is visited.
<1>10. ASSUME NEW f \in heap, f # e, NEW r \in Paths, f.tns = NodesAt(r)
       PROVE  ~IsPrefix(p, r) /\ ~IsPrefix(r, p)
  BY <1>2, <1>10 DEF Sight, Waiting
<1>11. ASSUME NEW f \in h
       PROVE  \E q \in Paths : WaitsAt(st, f, q)
  <2>1. CASE f \in heap
    <3>1. PICK q \in Paths : WaitsAt(subtree, f, q)
      BY <2>1 DEF Sight, Waiting
    <3>2. WaitsAt(st, f, q)
      BY <3>1 DEF WaitsAt, Near
    <3>3. QED  BY <3>2
  <2>2. QED  BY <1>4, <1>5, <2>1
<1>12. ASSUME NEW f \in h, NEW g \in h, NEW r \in Paths, NEW q \in Paths, f.tns = NodesAt(r), g.tns = NodesAt(q), IsPrefix(r, q)
       PROVE  f = g
  <2>1. CASE f \in heap /\ f # e /\ g \in heap /\ g # e
    BY <1>12, <2>1 DEF Sight, Waiting
  <2>2. ASSUME f \in heap, f # e, NEW y \in X, g = kid(y)
        PROVE  FALSE
    <3>1. q = Append(p, y)
      BY <1>4, <1>8, <1>12, <2>2
    <3>2. r = Append(p, y) \/ IsPrefix(r, p)
      BY <1>4, <1>9, <1>12, <3>1, PrefixOfNext
    <3>3. QED  BY <1>4, <1>10, <1>12, <2>2, <3>2
  <2>3. ASSUME NEW x \in X, f = kid(x), g \in heap, g # e
        PROVE  FALSE
    <3>1. r = Append(p, x)
      BY <1>4, <1>8, <1>12, <2>3
    <3>2. IsPrefix(p, q)
      BY <1>1, <1>4, <1>9, <1>12, <3>1, PrefixOrder
    <3>3. QED  BY <1>10, <1>12, <2>3, <3>2
  <2>4. ASSUME NEW x \in X, f = kid(x), NEW y \in X, g = kid(y)
        PROVE  f = g
    <3>1. r = Append(p, x) /\ q = Append(p, y)
      BY <1>4, <1>8, <1>12, <2>4
    <3>2. Len(q) <= Len(r)
      BY <1>1, <1>4, <3>1
    <3>3. r = q
      BY <1>9, <1>12, <3>2, PrefixOrder
    <3>4. x = y
      BY <1>4, <3>1, <3>3
    <3>5. QED  BY <2>4, <3>4
  <2>5. QED  BY <1>5, <2>1, <2>2, <2>3, <2>4
<1>13. ASSUME NEW f \in h, NEW i \in DOMAIN st, NEW r \in Paths, NEW q \in Paths, f.tns = NodesAt(r), st[i].tns = NodesAt(q), IsPrefix(r, q)
       PROVE  FALSE
  <2>1. q = p \/ i \in DOMAIN subtree
    BY <1>8, <1>13
  <2>2. CASE f \in heap /\ f # e
    BY <1>10, <1>13, <2>1, <2>2 DEF Sight, Waiting
  <2>3. ASSUME NEW x \in X, f = kid(x)
        PROVE  FALSE
    <3>1. r = Append(p, x)
      BY <1>4, <1>8, <1>13, <2>3
    <3>2. IsPrefix(p, q)
      BY <1>1, <1>4, <1>9, <1>13, <3>1, PrefixOrder
    <3>3. CASE i \in DOMAIN subtree
      BY <1>2, <1>13, <3>2, <3>3 DEF Sight, Waiting
    <3>4. QED  BY <1>4, <1>13, <2>1, <3>1, <3>3
  <2>4. QED  BY <1>5, <2>2, <2>3
<1>14. Waiting(h, st)
  BY <1>11, <1>12, <1>13 DEF Waiting
<1>15. Covering(h, st)
  <2>1. SUFFICES ASSUME NEW q \in View, ~\E i \in DOMAIN st : st[i].tns = NodesAt(q)
                 PROVE  \E f \in h : \E r \in Paths : f.tns = NodesAt(r) /\ IsPrefix(r, q)
    BY DEF Covering
  <2>2. ~\E i \in DOMAIN subtree : subtree[i].tns = NodesAt(q)
    BY <2>1
  <2>3. PICK f \in heap : \E r \in Paths : f.tns = NodesAt(r) /\ IsPrefix(r, q)
    BY <2>2 DEF Sight, Covering
  <2>4. CASE f # e
    BY <1>7, <2>3, <2>4
  <2>5. CASE f = e
    <3>1. IsPrefix(p, q) /\ q \in Paths /\ q \in Path /\ p # q
      BY <1>2, <1>8, <1>9, <2>1, <2>3, <2>5 DEF View
    <3>2. Len(q) \in Nat /\ Len(p) < Len(q)
      <4>1. Len(q) \in Nat /\ Len(p) <= Len(q) /\ ~(Len(q) <= Len(p))
        BY <1>1, <3>1, PrefixOrder DEF Path
      <4>2. QED  BY <1>1, <4>1
    <3> DEFINE m == Len(p) + 1
               c == Cut(q, m)
    <3>3. m \in 0 .. Len(q) /\ m \in Begin .. Len(q) /\ m > Begin /\ m - 1 = Len(p) /\ Len(p) \in 0 .. m
      BY <1>1, <3>2
    <3> HIDE DEF m
    <3>4. c \in Paths /\ Len(c) = m /\ IsPrefix(c, q)
      BY <1>1, <3>1, <3>3, PathsCut, CutIs, CutIsPrefix
    <3>5. Front(c) = p
      <4>1. Front(c) = Cut(c, Len(p))
        BY <1>1, <1>9, <3>3, <3>4, PathsFront, FrontIs
      <4>2. Cut(c, Len(p)) = Cut(q, Len(p))
        BY <3>1, <3>3, CutOfCut
      <4>3. p = Cut(q, Len(p))
        BY <1>1, <3>1, PrefixIs
      <4>4. QED  BY <4>1, <4>2, <4>3
    <3>6. c = Append(p, Last(c)) /\ Last(c) \in Nat \ {0}
      BY <1>1, <3>3, <3>4, <3>5, PathsFront
    <3> HIDE DEF c
    <3>7. Last(c) \in X
      BY <3>4, <3>6 DEF X
    <3>8. kid(Last(c)).tns = NodesAt(c) /\ kid(Last(c)) \in h
      BY <1>4, <1>6, <3>6, <3>7
    <3>9. QED  BY <3>4, <3>8
  <2>6. QED  BY <2>4, <2>5
<1>16. QED  BY <1>14, <1>15 DEF h

\* Whether an entry is returned goes by its class.
LEMMA ReturnedIs ==
  ASSUME Clean, 0 \notin DOMAIN subtree, NEW e, NEW p \in Paths, WaitsAt(subtree, e, p)
  PROVE  /\ IsPrefixEntry(e) <=> p \in Within
         /\ e.parent = Nil <=> Len(p) = Begin
         /\ IsReturned(e) <=> NotElided(p)
<1>1. p \in Path /\ wo \in walkOptions
  BY PathsAre DEF Clean, Fit
<1>2. IsPrefixEntry(e) <=> p \in Within
  BY <1>1, PtnIs DEF IsPrefixEntry, WaitsAt, Within, Prefixed
<1>3. e.parent = Nil <=> Len(p) = Begin
  BY DEF WaitsAt, Near, Nil
<1>4. QED  BY <1>2, <1>3 DEF IsReturned, NotElided

LEMMA ReturnSees ==
  ASSUME Clean, WalkInv, Sight(heap, subtree), NEW e \in heap, ~TooDeep(e), IsReturned(e), Return(e),
         \A tn \in e.tns : Asked(e.ptn, tn) \intersect wo.broken = {}
  PROVE  Sight(heap', subtree')
<1> DEFINE stn == [parent |-> e.parent, path |-> e.path, tns |-> e.tns, prefix |-> IsPrefixEntry(e)]
           n == Len(subtree)
           st == Append(subtree, stn)
<1>1. Fit /\ Merges /\ Made(subtree) /\ n \in Nat /\ DOMAIN subtree = 1 .. n /\ 0 \notin DOMAIN subtree
  BY DEF Clean, Sight, WalkInv
<1>2. PICK p \in Paths : WaitsAt(subtree, e, p)
  BY DEF Sight, Waiting
<1>3. Shallow(p) /\ NotElided(p) /\ p \in View /\ (IsPrefixEntry(e) <=> p \in Within) /\ p \in Path /\ e.tns = NodesAt(p)
  BY <1>1, <1>2, TooDeepIs, ReturnedIs, PathsAre DEF View, WaitsAt
<1>4. /\ DOMAIN st = 1 .. n + 1 /\ Len(st) = n + 1 /\ n + 1 \in DOMAIN st /\ n + 1 \notin DOMAIN subtree
      /\ \A i \in DOMAIN subtree : i \in DOMAIN st /\ st[i] = subtree[i]
      /\ \A i \in DOMAIN st : i \in DOMAIN subtree \/ i = n + 1
      /\ st[n + 1] = stn
  BY <1>1
<1>5. stn.tns = NodesAt(p) /\ stn.prefix = (p \in Within) /\ stn.parent = e.parent
  <2>1. stn.prefix = IsPrefixEntry(e) /\ stn.tns = e.tns /\ stn.parent = e.parent
    OBVIOUS
  <2>2. IsPrefixEntry(e) = (p \in Within)
    BY <1>3 DEF IsPrefixEntry, OnPrefix
  <2>3. QED  BY <1>3, <2>1, <2>2
<1>6. subtree' = st /\ heap' = (heap \ {e}) \union childEntries(e, n + 1, e.path)
  <2>1. subtree' = st /\ heap' = (heap \ {e}) \union childEntries(e, Len(subtree'), e.path)
    BY DEF Return
  <2>2. QED  BY <1>4, <2>1
<1> HIDE DEF st, stn, n
<1>7. \A j, q : Near(subtree, j, q) => Near(st, j, q)
  BY <1>4 DEF Near
<1>8. Made(st)
  <2>1. ASSUME NEW i \in DOMAIN subtree
        PROVE  \E q \in View : MadeAt(st, i, q)
    <3>1. PICK q \in View : MadeAt(subtree, i, q)
      BY <1>1 DEF Made
    <3>2. MadeAt(st, i, q)
      BY <1>4, <1>7, <3>1 DEF MadeAt
    <3>3. QED  BY <3>2
  <2>2. MadeAt(st, n + 1, p)
    BY <1>2, <1>4, <1>5, <1>7 DEF MadeAt, WaitsAt
  <2>3. ASSUME NEW i \in DOMAIN subtree, subtree[i].tns = NodesAt(p)
        PROVE  FALSE
    <3>1. IsPrefix(p, p)
      BY <1>3, PrefixOrder
    <3>2. QED  BY <1>3, <2>3, <3>1 DEF Sight, Waiting
  <2>4. \A i, k \in DOMAIN st : st[i].tns = st[k].tns => i = k
    BY <1>1, <1>4, <1>5, <2>3 DEF Made
  <2>5. QED  BY <1>3, <1>4, <2>1, <2>2, <2>4 DEF Made
<1>9. Whole(st)
  <2>1. \A tn \in e.tns : tn \notin wo.broken
    BY DEF Asked
  <2>2. QED  BY <1>3, <1>4, <1>5, <2>1 DEF Whole, Sight
<1>10. ASSUME NEW x \in Nat \ {0}
       PROVE  Near(st, n + 1, Append(p, x))
  <2> DEFINE c == Append(p, x)
  <2>1. c \in Path /\ c # <<>> /\ Front(c) = p /\ IsStrictPrefix(p, c) /\ Len(c) = Len(p) + 1
    BY <1>3, AppendIs
  <2> HIDE DEF c
  <2>2. ASSUME NEW r \in View, IsStrictPrefix(p, r), IsStrictPrefix(r, c)
        PROVE  FALSE
    <3>1. r \in Path
      BY <1>1, PathsAre DEF View
    <3>2. IsPrefix(r, p)
      BY <2>1, <2>2, <3>1, PrefixOfNext
    <3>3. QED  BY <1>3, <2>2, <3>1, <3>2, PrefixOrder DEF IsStrictPrefix
  <2>3. p \in ParentOf(c)
    BY <1>3, <2>1, <2>2 DEF ParentOf
  <2>4. Len(c) # Begin
    BY <1>1, <2>1, PathsAre
  <2>5. QED  BY <1>4, <1>5, <2>3, <2>4 DEF Near, c
<1>11. Waiting(heap', st) /\ Covering(heap', st)
  <2>1. \A i \in DOMAIN st : i \in DOMAIN subtree \/ st[i].tns = NodesAt(p)
    BY <1>4, <1>5
  <2>2. \E i \in DOMAIN st : st[i].tns = NodesAt(p)
    BY <1>4, <1>5
  <2>3. QED  BY <1>2, <1>3, <1>4, <1>6, <1>10, <2>1, <2>2, KidsSee
<1>12. QED  BY <1>6, <1>8, <1>9, <1>11 DEF Sight

LEMMA ElideSees ==
  ASSUME Clean, WalkInv, Sight(heap, subtree), NEW e \in heap, ~TooDeep(e), ~IsReturned(e), Elide(e)
  PROVE  Sight(heap', subtree')
<1>1. Fit /\ Merges /\ Made(subtree) /\ 0 \notin DOMAIN subtree
  BY DEF Clean, Sight, WalkInv
<1>2. PICK p \in Paths : WaitsAt(subtree, e, p)
  BY DEF Sight, Waiting
<1>3. Shallow(p) /\ ~NotElided(p) /\ p \notin View /\ p \in Path /\ Len(p) # Begin
  BY <1>1, <1>2, TooDeepIs, ReturnedIs, PathsAre DEF View, NotElided
<1>4. PICK a \in ParentOf(p) : e.parent \in DOMAIN subtree /\ subtree[e.parent].tns = NodesAt(a)
  BY <1>2, <1>3 DEF WaitsAt, Near
<1>5. a \in View /\ a \in Paths /\ a \in Path /\ IsStrictPrefix(a, p)
  BY <1>1, <1>4, ParentsAre, PathsAre
<1>6. ASSUME NEW x \in Nat \ {0}
      PROVE  Near(subtree, e.parent, Append(p, x))
  <2> DEFINE c == Append(p, x)
  <2>1. c \in Path /\ c # <<>> /\ Front(c) = p /\ Len(c) = Len(p) + 1
    BY <1>3, AppendIs
  <2> HIDE DEF c
  <2>2. IsStrictPrefix(a, c)
    BY <1>3, <1>5, <2>1, PrefixOfNext DEF IsStrictPrefix
  <2>3. ASSUME NEW r \in View, IsStrictPrefix(a, r), IsStrictPrefix(r, c)
        PROVE  FALSE
    <3>1. r \in Path
      BY <1>1, PathsAre DEF View
    <3>2. IsPrefix(r, p) /\ r # p
      BY <1>3, <2>1, <2>3, <3>1, PrefixOfNext
    <3>3. IsStrictPrefix(r, p)
      BY <3>2 DEF IsStrictPrefix
    <3>4. QED  BY <1>4, <2>3, <3>3 DEF ParentOf
  <2>4. a \in ParentOf(c)
    BY <1>5, <2>2, <2>3 DEF ParentOf
  <2>5. Len(c) # Begin
    BY <1>1, <2>1, PathsAre
  <2>6. QED  BY <1>4, <2>4, <2>5 DEF Near, c
<1>7. subtree' = subtree /\ heap' = (heap \ {e}) \union childEntries(e, e.parent, subtree[e.parent].path)
  BY DEF Elide
<1>8. Waiting(heap', subtree) /\ Covering(heap', subtree)
  <2>1. /\ \A i \in DOMAIN subtree : i \in DOMAIN subtree /\ subtree[i] = subtree[i]
        /\ \A i \in DOMAIN subtree : i \in DOMAIN subtree \/ subtree[i].tns = NodesAt(p)
    OBVIOUS
  <2>2. QED  BY <1>2, <1>3, <1>6, <1>7, <2>1, KidsSee
<1>9. QED  BY <1>7, <1>8 DEF Sight

-----------------------------------------------------------------------------
(* Every step keeps the view in sight *)

LEMMA SameSight ==
  ASSUME UNCHANGED wo
  PROVE  Sight(heap, subtree)' <=> Sight(heap', subtree')
<1>1. /\ Paths' = Paths /\ Within' = Within /\ View' = View /\ Begin' = Begin
      /\ \A p : NodesAt(p)' = NodesAt(p) /\ PtnOf(p)' = PtnOf(p) /\ ParentOf(p)' = ParentOf(p)
      /\ \A p : Shallow(p)' <=> Shallow(p)
  BY SameOptions, SameView
<1>2. \A j, p : Near(subtree, j, p)' <=> Near(subtree', j, p)
  BY <1>1 DEF Near
<1>3. \A i, p : MadeAt(subtree, i, p)' <=> MadeAt(subtree', i, p)
  BY <1>1, <1>2 DEF MadeAt
<1>4. \A e, p : WaitsAt(subtree, e, p)' <=> WaitsAt(subtree', e, p)
  BY <1>1, <1>2 DEF WaitsAt
<1>5. Made(subtree)' <=> Made(subtree')
  BY <1>1, <1>3 DEF Made
<1>6. Waiting(heap, subtree)' <=> Waiting(heap', subtree')
  BY <1>1, <1>4 DEF Waiting
<1>7. Covering(heap, subtree)' <=> Covering(heap', subtree')
  BY <1>1 DEF Covering
<1>8. Whole(subtree)' <=> Whole(subtree')
  BY DEF Whole
<1>9. QED  BY <1>5, <1>6, <1>7, <1>8 DEF Sight

LEMMA SightKept ==
  ASSUME SightInv, UNCHANGED wo,
         status' = "new" => subtree' = <<>>, status' = "done" => ~MoreToVisit',
         status' \in {"walking", "done"} => Merges,
         status' \in {"walking", "done"} /\ MergesCleanly => Sight(heap', subtree')
  PROVE  SightInv'
<1>1. (Fit' <=> Fit) /\ (Merges' <=> Merges) /\ (MergesCleanly' <=> MergesCleanly)
  BY SameOptions
<1>2. Sight(heap, subtree)' <=> Sight(heap', subtree')
  BY SameSight
<1>3. QED  BY <1>1, <1>2 DEF SightInv

LEMMA InitialSight == Init => SightInv
<1>1. ASSUME Init
      PROVE  SightInv
  <2>1. wo \in Walks /\ status = "new"
    BY <1>1 DEF Init, WalkInit
  <2>2. Fit
    BY <2>1, TreesAssumption DEF Fit
  <2>3. QED  BY <1>1, <2>1, <2>2 DEF SightInv, Init, WalkInit
<1>2. QED  BY <1>1

LEMMA VisitSees ==
  ASSUME WalkInv, SightInv, NEW e \in heap, Visit(e)
  PROVE  SightInv'
<1>1. UNCHANGED wo /\ status = "walking"
  BY DEF Visit
<1>2. CASE Fail(e)
  BY <1>1, <1>2, SightKept DEF Fail
<1>3. CASE ~Fail(e)
  <2>1. status' = "walking" /\ Fit /\ Merges
    BY <1>1, <1>3 DEF Visit, Skip, SightInv
  <2>2. ASSUME MergesCleanly
        PROVE  Sight(heap', subtree')
    <3>1. Clean /\ Sight(heap, subtree)
      BY <1>1, <2>1, <2>2 DEF Clean, SightInv
    <3>2. CASE Skip(e)
      <4>1. TooDeep(e) /\ heap' = heap \ {e} /\ subtree' = subtree
        BY <3>2 DEF Skip
      <4>2. QED  BY <3>1, <4>1, SkipSees
    <3>3. CASE ~Skip(e)
      <4>1. ~TooDeep(e) /\ \A tn \in e.tns : Asked(e.ptn, tn) \intersect wo.broken = {}
        BY <1>3, <3>3 DEF Visit
      <4>2. CASE IsReturned(e)
        BY <1>3, <3>1, <3>3, <4>1, <4>2, ReturnSees DEF Visit
      <4>3. CASE ~IsReturned(e)
        BY <1>3, <3>1, <3>3, <4>1, <4>3, ElideSees DEF Visit
      <4>4. QED  BY <4>2, <4>3
    <3>4. QED  BY <3>2, <3>3
  <2>3. QED  BY <1>1, <2>1, <2>2, SightKept
<1>4. QED  BY <1>2, <1>3

LEMMA NextKeepsSight ==
  ASSUME WalkInv, SightInv, [Next]_vars
  PROVE  SightInv'
<1>1. CASE UNCHANGED <<wo, heap, subtree>> /\ status' \notin {"new", "walking", "done"}
  BY <1>1, SightKept
<1>2. CASE StartMerge
  <2>1. /\ UNCHANGED <<wo, subtree>> /\ wo.mergePrefixes # {} /\ status' \in {"panicked", "walking"}
        /\ status' = "walking" => Merges
    BY <1>2 DEF StartMerge, Merges
  <2>2. ASSUME status' = "walking", MergesCleanly
        PROVE  Sight(heap', subtree')
    <3> DEFINE ptn == IF wo.pathPrefixes = {} THEN NoNode ELSE <<>>
    <3>1. heap' = EntriesByScope(ptn, FoundLeaves(MergeTree(wo.mergePrefixes)), Nil, <<>>)
      BY <1>2, <2>2 DEF StartMerge
    <3>2. subtree' = <<>>
      BY <1>2 DEF StartMerge, SightInv
    <3>3. QED  BY <2>1, <2>2, <3>1, <3>2, MergeSees DEF SightInv
  <2>3. QED  BY <2>1, <2>2, SightKept
<1>3. CASE StartAtRoot
  <2>1. UNCHANGED <<wo, subtree>> /\ wo.mergePrefixes = {} /\ status' = "walking" /\ heap' = {newWalkHeapRoot}
    BY <1>3 DEF StartAtRoot
  <2>2. Sight(heap', subtree')
    <3>1. subtree' = <<>>
      BY <1>3 DEF StartAtRoot, SightInv
    <3>2. QED  BY <2>1, <3>1, RootSees DEF SightInv
  <2>3. QED  BY <2>1, <2>2, SightKept DEF Merges
<1>4. ASSUME NEW e \in heap, Visit(e)
      PROVE  SightInv'
  BY <1>4, VisitSees
<1>5. CASE Finish
  <2>1. UNCHANGED <<wo, heap, subtree, added>> /\ status = "walking" /\ ~MoreToVisit
    BY <1>5 DEF Finish
  <2>2. ~MoreToVisit'
    BY <2>1 DEF MoreToVisit
  <2>3. status' = "done" /\ (status' \in {"walking", "done"} => status \in {"walking", "done"})
    BY <1>5 DEF Finish
  <2>4. Merges /\ (MergesCleanly => Sight(heap', subtree'))
    BY <2>1 DEF SightInv
  <2>5. QED  BY <2>1, <2>2, <2>3, <2>4, SightKept
<1>6. CASE AskAgain
  <2>1. status' = "new" /\ subtree' = <<>>
    BY <1>6 DEF AskAgain
  <2>2. PICK opts \in Again : wo' = [opts EXCEPT !.tree = wo.tree]
    BY <1>6 DEF AskAgain
  <2>3. opts \in walkOptions
    BY TreesAssumption
  <2>4. wo' \in walkOptions /\ wo'.tree = wo.tree
    BY <2>2, <2>3 DEF walkOptions, SightInv, Fit
  <2>5. Fit'
    BY <2>4 DEF Fit, SightInv, walkOptions, PrefixesOf, Path
  <2>6. QED  BY <2>1, <2>5 DEF SightInv
<1>7. CASE Walk
  BY <1>2, <1>3, <1>4, <1>5, <1>7 DEF Walk, WalkNext
<1>8. CASE BuildResponse
  BY <1>1, <1>8 DEF BuildResponse
<1>9. CASE UNCHANGED serverVars
  <2>1. UNCHANGED <<wo, status, heap, subtree, added>>
    BY <1>9 DEF serverVars, walkVars
  <2>2. MoreToVisit' <=> MoreToVisit
    BY <2>1 DEF MoreToVisit
  <2>3. QED  BY <2>1, <2>2, SightKept DEF SightInv
<1>10. CASE OnResponse \/ Lost
  <2>1. UNCHANGED <<wo, status, heap, subtree, added>>
    BY <1>10 DEF OnResponse, Lost, walkVars
  <2>2. MoreToVisit' <=> MoreToVisit
    BY <2>1 DEF MoreToVisit
  <2>3. QED  BY <2>1, <2>2, SightKept DEF SightInv
<1>11. CASE Resize \/ RedrawDebounced \/ RedrawObserved \/ Destroy \/ \E tn \in wo.tree : CallOut(tn)
  BY <1>9, <1>11 DEF Resize, RedrawDebounced, RedrawObserved, Destroy, CallOut
<1>12. CASE UNCHANGED vars
  BY <1>9, <1>12 DEF vars
<1>13. QED  BY <1>6, <1>7, <1>8, <1>10, <1>11, <1>12 DEF Next

-----------------------------------------------------------------------------
(* What a walk returns *)

LEMMA WrittenOnce ==
  ASSUME Fit, Merges, NEW p \in View, NEW q \in View, Written(p) = Written(q)
  PROVE  p = q
<1>1. NodesAt(p) = NodesAt(q)
  BY DEF Written
<1>2. QED  BY <1>1, OneClass DEF View

\* A SubtreeNode, as it is in Returned.
RecordOf(i) ==
  [tns |-> subtree[i].tns, prefix |-> subtree[i].prefix,
   parent |-> IF subtree[i].parent = Nil THEN {} ELSE subtree[subtree[i].parent].tns]

LEMMA RecordIs ==
  ASSUME Fit, Merges, WalkInv, Made(subtree), NEW i \in DOMAIN subtree
  PROVE  RecordOf(i) = Written(PathAt(subtree, i))
<1> DEFINE p == PathAt(subtree, i)
           j == subtree[i].parent
           above == UNION {NodesAt(q) : q \in ParentOf(p)}
<1>1. p \in View /\ p \in Paths /\ MadeAt(subtree, i, p)
  BY PathAtIs
<1> HIDE DEF p
<1>2. subtree[i].tns = NodesAt(p) /\ subtree[i].prefix = (p \in Within) /\ Near(subtree, j, p)
  BY <1>1 DEF MadeAt
<1>3. (IF j = Nil THEN {} ELSE subtree[j].tns) = above
  <2>1. CASE Len(p) = Begin
    <3>1. j = Nil
      BY <1>2, <2>1 DEF Near
    <3>2. ParentOf(p) = {}
      BY <1>1, <2>1, ParentsAre
    <3>3. above = {}
      BY <3>2
    <3>4. QED  BY <3>1, <3>3
  <2>2. CASE Len(p) # Begin
    <3>1. j # Nil
      BY <1>2, <2>2 DEF Near, WalkInv, Nil
    <3>2. PICK a \in ParentOf(p) : subtree[j].tns = NodesAt(a)
      BY <1>2, <2>2 DEF Near
    <3>3. ParentOf(p) = {a}
      BY <1>1, <3>2, ParentsAre
    <3>4. above = NodesAt(a)
      BY <3>3
    <3>5. QED  BY <3>1, <3>2, <3>4
  <2>3. QED  BY <2>1, <2>2
<1> HIDE DEF above, j
<1>4. RecordOf(i) = [tns |-> NodesAt(p), prefix |-> (p \in Within), parent |-> above]
  BY <1>2, <1>3 DEF RecordOf, j
<1>5. QED  BY <1>4 DEF Written, above, p

\* All that is returned is of the view, and nothing twice.
LEMMA ReturnedOf ==
  ASSUME Fit, Merges, WalkInv, Made(subtree)
  PROVE  /\ Returned = {RecordOf(i) : i \in DOMAIN subtree} /\ Returned \subseteq Described
         /\ \A i, j \in DOMAIN subtree : RecordOf(i) = RecordOf(j) => i = j
         /\ \A p \in View : Written(p) \in Returned <=> \E i \in DOMAIN subtree : subtree[i].tns = NodesAt(p)
<1>1. Returned = {RecordOf(i) : i \in DOMAIN subtree}
  BY DEF Returned, RecordOf
<1>2. \A i \in DOMAIN subtree : PathAt(subtree, i) \in View /\ RecordOf(i) = Written(PathAt(subtree, i))
  BY RecordIs, PathAtIs
<1>3. Described = {Written(p) : p \in View}
  BY DescribedIs
<1>4. Returned \subseteq Described
  BY <1>1, <1>2, <1>3
<1>5. \A i, j \in DOMAIN subtree : RecordOf(i) = RecordOf(j) => i = j
  <2>1. \A i \in DOMAIN subtree : RecordOf(i).tns = subtree[i].tns
    BY DEF RecordOf
  <2>2. QED  BY <2>1 DEF Made
<1>6. ASSUME NEW p \in View
      PROVE  Written(p) \in Returned <=> \E i \in DOMAIN subtree : subtree[i].tns = NodesAt(p)
  <2>1. ASSUME Written(p) \in Returned
        PROVE  \E i \in DOMAIN subtree : subtree[i].tns = NodesAt(p)
    <3>1. PICK i \in DOMAIN subtree : Written(p) = RecordOf(i)
      BY <1>1, <2>1
    <3>2. QED  BY <3>1 DEF Written, RecordOf
  <2>2. ASSUME NEW i \in DOMAIN subtree, subtree[i].tns = NodesAt(p)
        PROVE  Written(p) \in Returned
    <3>1. p = PathAt(subtree, i)
      BY <2>2, PathAtIs DEF View
    <3>2. QED  BY <1>1, <1>2, <3>1
  <2>3. QED  BY <2>1, <2>2
<1>7. QED  BY <1>1, <1>4, <1>5, <1>6

LEMMA DescribedFinite ==
  ASSUME Fit, Merges
  PROVE  IsFiniteSet(Described)
<1> DEFINE f == [p \in View |-> Written(p)]
<1>1. IsFiniteSet(View)
  BY PathsFinite, FS_Subset DEF View
<1>2. f \in Surjection(View, Described)
  BY DescribedIs DEF Surjection
<1>3. QED  BY <1>1, <1>2, FS_Surjection

LEMMA ViewReturned ==
  ASSUME WalkInv, SightInv
  PROVE  WalkIsWholeView
<1>1. SUFFICES ASSUME status = "done", wo.maxNodes = unspecifiedOption, MergesCleanly
               PROVE  /\ Returned = Described
                      /\ Len(subtree) = Cardinality(Described)
                      /\ \A n \in Returned : n.tns \intersect wo.broken = {}
  BY DEF WalkIsWholeView
<1>2. Fit /\ Merges /\ Sight(heap, subtree) /\ Made(subtree) /\ ~MoreToVisit
  BY <1>1 DEF SightInv, Sight
<1>3. heap = {}
  BY <1>1, <1>2 DEF MoreToVisit
<1>4. /\ Returned = {RecordOf(i) : i \in DOMAIN subtree} /\ Returned \subseteq Described
      /\ \A i, j \in DOMAIN subtree : RecordOf(i) = RecordOf(j) => i = j
      /\ \A p \in View : Written(p) \in Returned <=> \E i \in DOMAIN subtree : subtree[i].tns = NodesAt(p)
  BY <1>2, ReturnedOf
<1>5. \A p \in View : Written(p) \in Returned
  BY <1>2, <1>3, <1>4 DEF Sight, Covering
<1>6. Returned = Described
  BY <1>2, <1>4, <1>5, DescribedIs
<1>7. Len(subtree) = Cardinality(Described)
  <2> DEFINE n == Len(subtree)
             f == [i \in 1 .. n |-> RecordOf(i)]
  <2>1. n \in Nat /\ DOMAIN subtree = 1 .. n
    BY DEF WalkInv
  <2>2. f \in Surjection(1 .. n, Described)
    BY <1>4, <1>6, <2>1 DEF Surjection
  <2>3. f \in Injection(1 .. n, Described)
    BY <1>4, <1>6, <2>1 DEF Injection, IsInjective
  <2> HIDE DEF n
  <2>4. IsFiniteSet(1 .. n) /\ Cardinality(1 .. n) = n
    BY <2>1, FS_Interval
  <2>5. QED  BY <2>2, <2>3, <2>4, FS_Surjection DEF n
<1>8. \A n \in Returned : n.tns \intersect wo.broken = {}
  <2>1. \A i \in DOMAIN subtree : RecordOf(i).tns \intersect wo.broken = {}
    BY <1>2 DEF Sight, Whole, RecordOf
  <2>2. QED  BY <1>4, <2>1
<1>9. QED  BY <1>6, <1>7, <1>8

(***************************************************************************)
(* Walk() without MaxNodes: whatever the tree and the other options, and   *)
(* in whatever order it visits, it returns what they describe: each        *)
(* TreeNode in sight, once, with those that share its path, below the      *)
(* nearest one that is shown.                                              *)
(***************************************************************************)
THEOREM WholeViewWalked == Spec => []WalkIsWholeView
<1>1. Init => WalkInv /\ SightInv
  BY InitialView, InitialSight DEF ViewInv
<1>2. WalkInv /\ SightInv /\ [Next]_vars => (WalkInv /\ SightInv)'
  BY NextKeepsWalk, NextKeepsSight
<1>3. WalkInv /\ SightInv => WalkIsWholeView
  BY ViewReturned
<1>4. QED  BY <1>1, <1>2, <1>3, PTL DEF Spec

-----------------------------------------------------------------------------
(* What a class weighs *)

LEMMA VisibleGrows ==
  ASSUME NEW s \in Path, NEW d \in Path, NEW b \in Len(s) .. Len(d)
  PROVE  Len(VisiblePath(s, Cut(d, b))) <= Len(VisiblePath(s, d))
<1>1. Len(s) \in Nat /\ Len(d) \in Nat /\ b \in Nat /\ Len(s) <= b /\ b <= Len(d)
  BY DEF Path
<1> DEFINE L(i) == Len(VisiblePath(s, Cut(d, b + i)))
           T == {i \in 0 .. Len(d) - b : L(0) <= L(i)}
<1>2. \A i \in 0 .. Len(d) - b : L(i) \in Nat
  <2>1. TAKE i \in 0 .. Len(d) - b
  <2>2. b + i \in 0 .. Len(d) /\ b + i >= Len(s)
    BY <1>1
  <2>3. Cut(d, b + i) \in Path /\ Len(Cut(d, b + i)) = b + i
    BY <2>2, CutIs
  <2>4. VisiblePath(s, Cut(d, b + i)) \in Path
    BY <2>2, <2>3, VisibleIs
  <2>5. QED  BY <2>4 DEF Path
<1>3. ASSUME NEW i \in 0 .. Len(d) - b - 1
      PROVE  L(i) <= L(i + 1)
  <2> DEFINE k == b + i + 1
  <2>1. k \in 0 .. Len(d) /\ k # 0 /\ Len(s) < k /\ k - 1 = b + i /\ k = b + (i + 1) /\ k - 1 \in 0 .. k /\ k - 1 >= Len(s) /\ k \in Nat
    BY <1>1
  <2> HIDE DEF k
  <2>2. Cut(d, k) \in Path /\ Len(Cut(d, k)) = k
    BY <2>1, CutIs
  <2>3. Cut(d, k) # <<>>
    BY <2>1, <2>2
  <2>4. /\ Front(Cut(d, k)) = Cut(d, k - 1) /\ Last(Cut(d, k)) \in Nat \ {0}
        /\ Front(Cut(d, k)) \in Path /\ Len(Front(Cut(d, k))) = k - 1
    <3>1. Cut(Cut(d, k), k - 1) = Cut(d, k - 1)
      BY <2>1, CutOfCut
    <3>2. QED  BY <2>2, <2>3, <3>1, FrontIs
  <2> DEFINE v == VisiblePath(s, Cut(d, k))
             u == VisiblePath(s, Cut(d, k - 1))
  <2>5. u \in Path
    BY <2>1, <2>4, VisibleIs
  <2>6. v = u \/ v = Append(u, Last(Cut(d, k)))
    BY <2>1, <2>2, <2>4, VisibleIs
  <2>7. L(i) = Len(u) /\ L(i + 1) = Len(v)
    BY <2>1
  <2> HIDE DEF u, v, L
  <2>8. Len(u) <= Len(v)
    <3>1. Len(u) \in Nat
      BY <2>5 DEF Path
    <3>2. Len(Append(u, Last(Cut(d, k)))) = Len(u) + 1
      BY <2>4, <2>5, AppendIs
    <3>3. QED  BY <2>6, <3>1, <3>2
  <2>9. QED  BY <2>7, <2>8
<1>4. \A n \in 0 .. Len(d) - b : n \in T
  <2>1. TAKE n \in 0 .. Len(d) - b
  <2>2. 0 \in T /\ n \in Nat
    BY <1>1, <1>2
  <2>3. ASSUME NEW i \in 0 .. n - 1, i \in T
        PROVE  i + 1 \in T
    <3>1. i \in 0 .. Len(d) - b - 1 /\ i + 1 \in 0 .. Len(d) - b /\ 0 \in 0 .. Len(d) - b /\ i \in 0 .. Len(d) - b
      BY <1>1
    <3>2. L(0) \in Nat /\ L(i) \in Nat /\ L(i + 1) \in Nat
      BY <1>2, <3>1
    <3>3. L(0) <= L(i) /\ L(i) <= L(i + 1)
      BY <1>3, <2>3, <3>1
    <3> HIDE DEF L
    <3>4. QED  BY <3>1, <3>2, <3>3
  <2> HIDE DEF T
  <2>4. QED  BY <2>2, <2>3, Induction
<1>5. Len(d) - b \in 0 .. Len(d) - b /\ b + (Len(d) - b) = Len(d) /\ b + 0 = b
  BY <1>1
<1>6. Cut(d, Len(d)) = d
  BY SubSeqFull DEF Cut, Path
<1>7. L(0) <= L(Len(d) - b)
  BY <1>4, <1>5
<1>8. QED  BY <1>5, <1>6, <1>7

\* No TreeNode of a class is below another.
LEMMA ClassIsLevel ==
  ASSUME Fit, Merges, NEW p \in Paths, NEW c \in NodesAt(p), NEW d \in NodesAt(p), IsPrefix(c, d)
  PROVE  c = d
<1>1. PICK s : Shown(s, c) /\ VisiblePath(s, c) = p
  BY NodesAtIs
<1>2. PICK t : Shown(t, d) /\ VisiblePath(t, d) = p
  BY NodesAtIs
<1>3. s \in Path /\ t \in Path /\ c \in Path /\ d \in Path /\ IsPrefix(s, c) /\ IsPrefix(t, d) /\ Len(s) \in Nat /\ Len(c) \in Nat /\ Len(d) \in Nat
  BY <1>1, <1>2, ShownIs DEF Shown, Reaches
<1>4. s = t
  <2>1. IsPrefix(s, d)
    BY <1>3, PrefixOrder
  <2>2. Len(s) \in Nat /\ Len(t) \in Nat
    BY <1>3 DEF Path
  <2>3. IsPrefix(s, t) \/ IsPrefix(t, s)
    BY <1>3, <2>1, <2>2, PrefixOrder
  <2>4. QED  BY <1>1, <1>2, <2>3, StartsAre DEF Shown
<1>5. SUFFICES ASSUME c # d PROVE FALSE
  OBVIOUS
<1>6. Len(s) <= Len(c) /\ Len(c) < Len(d)
  <2>1. Len(s) <= Len(c) /\ Len(c) <= Len(d) /\ ~(Len(d) <= Len(c))
    BY <1>3, <1>5, PrefixOrder
  <2>2. QED  BY <1>3, <2>1
<1>7. d # s
  BY <1>3, <1>6
<1>8. PICK tn : /\ Shown(s, tn) /\ IsPrefix(tn, d) /\ tn # d /\ HiddenBetween(tn, d)
                /\ p = Append(VisiblePath(s, tn), Last(d)) /\ VisiblePath(s, tn) \in Path /\ Last(d) \in Nat \ {0}
  BY <1>2, <1>4, <1>7, ParentShown
<1>9. d # <<>> /\ VisiblePath(s, Front(d)) = VisiblePath(s, tn)
  BY <1>3, <1>8, ShownIs, FrontHidden DEF Shown, Reaches
<1>10. Front(d) \in Path /\ Len(Front(d)) = Len(d) - 1 /\ IsPrefix(c, Front(d))
  BY <1>3, <1>5, <1>9, FrontIs, PrefixOfNext
<1>11. Len(c) \in Len(s) .. Len(Front(d)) /\ Cut(Front(d), Len(c)) = c
  BY <1>3, <1>6, <1>10, PrefixIs
<1>12. Len(p) <= Len(VisiblePath(s, tn))
  BY <1>1, <1>3, <1>9, <1>10, <1>11, VisibleGrows
<1>13. Len(p) = Len(VisiblePath(s, tn)) + 1 /\ Len(VisiblePath(s, tn)) \in Nat
  BY <1>8, AppendIs DEF Path
<1>14. QED  BY <1>12, <1>13

FamilyOf(tns) == {d \in wo.tree : \E tn \in tns : IsPrefix(tn, d)}

\* The tree of a walk is one of those whose weights are known.
Known == \E w \in Walks : w.tree = wo.tree

LEMMA WeightIs ==
  ASSUME Fit, Known, WeightsAreTotal, NEW x \in wo.tree
  PROVE  Weight[x] = Total(Self, FamilyOf({x})) /\ Weight[x] \in Nat
<1>1. PICK w \in Walks : w.tree = wo.tree
  BY DEF Known
<1>2. Weight[x] = FoldSet(LAMBDA d, sum : Self[d] + sum, 0, {d \in w.tree : IsPrefix(x, d)})
  BY <1>1 DEF WeightsAreTotal
<1>3. {d \in w.tree : IsPrefix(x, d)} = FamilyOf({x})
  BY <1>1 DEF FamilyOf
<1>4. FoldSet(LAMBDA d, sum : Self[d] + sum, 0, FamilyOf({x})) = Total(Self, FamilyOf({x}))
  BY DEF FoldSet, MapThenFoldSet, Total, Adds, PickOf
<1>5. Weighs(Self, FamilyOf({x}))
  BY <1>1, TreesAssumption, FS_Subset DEF FamilyOf, Weighs, Fit
<1>6. QED  BY <1>2, <1>3, <1>4, <1>5, TotalInNat

LEMMA FamilyWeighs ==
  ASSUME Fit, Known, NEW tns
  PROVE  Weighs(Self, FamilyOf(tns))
BY TreesAssumption, FS_Subset DEF FamilyOf, Weighs, Fit, Known

\* A class weighs what its TreeNodes and those below them do.
LEMMA ClassWeight ==
  ASSUME Fit, Merges, Known, WeightsAreTotal, NEW p \in Paths
  PROVE  Weights(NodesAt(p)) = Total(Self, FamilyOf(NodesAt(p))) /\ Weights(NodesAt(p)) \in Nat
<1> DEFINE N == NodesAt(p)
           T == {A \in SUBSET N : Total(Weight, A) = Total(Self, FamilyOf(A))}
<1>1. N \subseteq wo.tree /\ IsFiniteSet(N)
  BY NodesAtIs, FS_Subset DEF Fit
<1>2. \A A \in SUBSET N : Weighs(Weight, A)
  BY <1>1, WeightIs, FS_Subset DEF Weighs
<1>3. ASSUME NEW A \in SUBSET N, \A B \in SUBSET A : B # A => B \in T
      PROVE  A \in T
  <2>1. CASE A = {}
    <3>1. FamilyOf(A) = {} /\ IsFiniteSet({})
      BY <2>1, FS_EmptySet DEF FamilyOf
    <3>2. Total(Weight, {}) = 0 /\ Total(Self, {}) = 0
      BY <3>1, TotalPicks
    <3>3. QED  BY <2>1, <3>1, <3>2
  <2>2. CASE A # {}
    <3>1. PICK x \in A : TRUE
      BY <2>2
    <3> DEFINE B == A \ {x}
    <3>2. B \in T
      BY <1>3, <3>1
    <3>3. Total(Weight, A) = Weight[x] + Total(Weight, B)
      BY <1>2, TotalTakes
    <3>4. Weight[x] = Total(Self, FamilyOf({x}))
      BY <1>1, WeightIs
    <3>5. FamilyOf(A) = FamilyOf({x}) \union FamilyOf(B)
      BY DEF FamilyOf
    <3>6. FamilyOf({x}) \intersect FamilyOf(B) = {}
      <4>1. SUFFICES ASSUME NEW d \in wo.tree, NEW y \in B, IsPrefix(x, d), IsPrefix(y, d)
                     PROVE  FALSE
        BY DEF FamilyOf
      <4>2. x \in N /\ y \in N /\ x # y /\ x \in Path /\ y \in Path /\ d \in Path /\ Len(x) \in Nat /\ Len(y) \in Nat
        BY <1>1, TreeIs DEF Path
      <4>3. IsPrefix(x, y) \/ IsPrefix(y, x)
        BY <4>1, <4>2, PrefixOrder
      <4>4. QED  BY <4>2, <4>3, ClassIsLevel
    <3>7. Total(Self, FamilyOf(A)) = Total(Self, FamilyOf({x})) + Total(Self, FamilyOf(B))
      <4>1. Weighs(Self, FamilyOf({x})) /\ Weighs(Self, FamilyOf(B))
        BY FamilyWeighs
      <4>2. QED  BY <3>5, <3>6, <4>1, TotalOfParts
    <3>8. QED  BY <3>2, <3>3, <3>4, <3>7
  <2>3. QED  BY <2>1, <2>2
<1>4. N \in T
  <2>1. \A A \in SUBSET N : A \in T
    <3> HIDE DEF T, N
    <3>1. QED  BY <1>1, <1>3, BySubsets
  <2>2. QED  BY <2>1
<1>5. Weights(N) = Total(Weight, N)
  BY DEF Weights, FoldSet, MapThenFoldSet, Total, Adds, PickOf
<1>6. QED  BY <1>2, <1>4, <1>5, TotalInNat

LEMMA FamilyNarrows ==
  ASSUME Fit, Merges, NEW p \in Paths, NEW q \in Paths, IsPrefix(p, q)
  PROVE  FamilyOf(NodesAt(q)) \subseteq FamilyOf(NodesAt(p))
<1>1. ASSUME NEW r \in Paths, Len(r) > Begin
      PROVE  FamilyOf(NodesAt(r)) \subseteq FamilyOf(NodesAt(Front(r)))
  <2>1. ASSUME NEW d \in NodesAt(r)
        PROVE  \E tn \in NodesAt(Front(r)) : IsPrefix(tn, d)
    <3>1. PICK s : Shown(s, d) /\ VisiblePath(s, d) = r
      BY NodesAtIs
    <3>2. d # s
      BY <1>1, <3>1, ShownPath, PathsAre
    <3>3. PICK tn : /\ Shown(s, tn) /\ IsPrefix(tn, d) /\ r = Append(VisiblePath(s, tn), Last(d))
                    /\ VisiblePath(s, tn) \in Path /\ Last(d) \in Nat \ {0}
      BY <3>1, <3>2, ParentShown
    <3>4. Front(r) = VisiblePath(s, tn)
      BY <3>3, AppendIs
    <3>5. QED  BY <3>3, <3>4, NodesAtIs
  <2>2. NodesAt(r) \subseteq wo.tree /\ NodesAt(Front(r)) \subseteq wo.tree /\ wo.tree \subseteq Path
    BY NodesAtIs, TreeIs
  <2>3. ASSUME NEW d \in NodesAt(r), NEW c \in wo.tree, IsPrefix(d, c)
        PROVE  \E tn \in NodesAt(Front(r)) : IsPrefix(tn, c)
    <3>1. PICK tn \in NodesAt(Front(r)) : IsPrefix(tn, d)
      BY <2>1
    <3>2. tn \in Path /\ d \in Path /\ c \in Path
      BY <2>2
    <3>3. QED  BY <2>3, <3>1, <3>2, PrefixOrder
  <2>4. QED  BY <2>3 DEF FamilyOf
<1>2. p \in Path /\ q \in Path /\ Len(p) \in Nat /\ Len(q) \in Nat /\ Begin \in Nat /\ Len(p) >= Begin /\ Len(p) <= Len(q)
  BY PathsAre, PrefixOrder
<1> DEFINE F(i) == FamilyOf(NodesAt(Cut(q, Len(q) - i)))
           T == {i \in 0 .. Len(q) - Len(p) : FamilyOf(NodesAt(q)) \subseteq F(i)}
<1>3. 0 \in T
  <2>1. Cut(q, Len(q) - 0) = q
    BY <1>2, SubSeqFull DEF Cut, Path
  <2>2. QED  BY <1>2, <2>1
<1>4. ASSUME NEW i \in 0 .. (Len(q) - Len(p)) - 1, i \in T
      PROVE  i + 1 \in T
  <2> DEFINE m == Len(q) - i
             c == Cut(q, m)
  <2>1. m \in 0 .. Len(q) /\ m \in Begin .. Len(q) /\ m > Begin /\ m - 1 \in 0 .. m /\ m - 1 = Len(q) - (i + 1) /\ i + 1 \in 0 .. Len(q) - Len(p)
    BY <1>2
  <2> HIDE DEF m
  <2>2. c \in Paths /\ c \in Path /\ Len(c) = m
    BY <1>2, <2>1, PathsCut, CutIs
  <2>3. c # <<>> /\ Front(c) = Cut(c, m - 1) /\ Cut(c, m - 1) = Cut(q, m - 1)
    BY <1>2, <2>1, <2>2, PathsFront, FrontIs, CutOfCut
  <2>4. F(i) = FamilyOf(NodesAt(c)) /\ F(i + 1) = FamilyOf(NodesAt(Front(c)))
    BY <2>1, <2>3 DEF m
  <2>5. FamilyOf(NodesAt(c)) \subseteq FamilyOf(NodesAt(Front(c)))
    BY <1>1, <2>1, <2>2
  <2>6. QED  BY <1>4, <2>1, <2>4, <2>5
<1>5. Len(q) - Len(p) \in Nat /\ Len(q) - (Len(q) - Len(p)) = Len(p) /\ Len(q) - Len(p) \in 0 .. Len(q) - Len(p)
  BY <1>2
<1>6. Len(q) - Len(p) \in T
  <2> HIDE DEF T
  <2>1. QED  BY <1>3, <1>4, <1>5, Induction
<1>7. Cut(q, Len(p)) = p
  BY <1>2, PrefixIs
<1>8. QED  BY <1>5, <1>6, <1>7

LEMMA BelowWeighsLess ==
  ASSUME Fit, Merges, Known, WeightsAreTotal, NEW p \in Paths, NEW q \in Paths, IsPrefix(p, q)
  PROVE  /\ Weights(NodesAt(p)) \in Nat /\ Weights(NodesAt(q)) \in Nat
         /\ Weights(NodesAt(q)) <= Weights(NodesAt(p))
<1>1. FamilyOf(NodesAt(q)) \in SUBSET FamilyOf(NodesAt(p))
  BY FamilyNarrows
<1>2. Weighs(Self, FamilyOf(NodesAt(p)))
  BY FamilyWeighs
<1>3. QED  BY <1>1, <1>2, ClassWeight, TotalOfPart

(***************************************************************************)
(* The inductive invariant of a walk with MaxNodes: what has been returned *)
(* weighs no less than what waits, and addedNodes counts it.               *)
(***************************************************************************)
Counted(st) == {i \in DOMAIN st : ~st[i].prefix}
Sorted(h, st) == \A i \in DOMAIN st : \A e \in h : Weights(st[i].tns) >= Weights(e.tns)
Counting(n, st) == n = Cardinality(Counted(st)) /\ (wo.maxNodes # unspecifiedOption => n <= wo.maxNodes)

HeavyInv ==
  /\ Known
  /\ status = "new" => added = 0
  /\ status \in {"walking", "done"} /\ MergesCleanly => Counting(added, subtree) /\ Sorted(heap, subtree)

LEMMA EntriesWeigh ==
  ASSUME Clean, Known, WeightsAreTotal, Sight(heap, subtree)
  PROVE  /\ \A e \in heap : Weights(e.tns) \in Nat
         /\ \A i \in DOMAIN subtree : Weights(subtree[i].tns) \in Nat
<1>1. \A e \in heap : \E p \in Paths : e.tns = NodesAt(p)
  BY DEF Sight, Waiting, WaitsAt
<1>2. \A i \in DOMAIN subtree : \E p \in Paths : subtree[i].tns = NodesAt(p)
  BY DEF Sight, Made, MadeAt, View
<1>3. \A p \in Paths : Weights(NodesAt(p)) \in Nat
  BY ClassWeight DEF Clean
<1>4. QED  BY <1>1, <1>2, <1>3

LEMMA KidsWeigh ==
  ASSUME Clean, Known, WeightsAreTotal, NEW e, NEW p \in Paths, WaitsAt(subtree, e, p), NEW j, NEW path,
         NEW c \in childEntries(e, j, path)
  PROVE  Weights(c.tns) \in Nat /\ Weights(e.tns) \in Nat /\ Weights(c.tns) <= Weights(e.tns)
<1>1. e.tns = NodesAt(p) /\ e.ptn = PtnOf(p)
  BY DEF WaitsAt
<1>2. PICK x \in Nat \ {0} : Append(p, x) \in Paths /\ c = EntryOf(Append(p, x), j, Append(path, x))
  BY <1>1, EntriesAre
<1>3. c.tns = NodesAt(Append(p, x))
  BY <1>2 DEF EntryOf
<1>4. IsPrefix(p, Append(p, x)) /\ Fit /\ Merges
  BY PathsAre, AppendIs DEF IsStrictPrefix, Clean
<1>5. QED  BY <1>1, <1>2, <1>3, <1>4, BelowWeighsLess

\* The heaviest entry goes, and lighter ones come.
LEMMA VisitSorts ==
  ASSUME Clean, Known, WeightsAreTotal, Sight(heap, subtree), Sorted(heap, subtree),
         NEW e \in Heaviest, NEW j, NEW path, NEW st,
         \A i \in DOMAIN st : st[i].tns = e.tns \/ (i \in DOMAIN subtree /\ st[i] = subtree[i])
  PROVE  Sorted((heap \ {e}) \union childEntries(e, j, path), st)
<1>1. e \in heap /\ \A f \in heap : Weights(e.tns) >= Weights(f.tns)
  BY DEF Heaviest, EntryWeight, Weights
<1>2. PICK p \in Paths : WaitsAt(subtree, e, p)
  BY <1>1 DEF Sight, Waiting
<1>3. \A c \in childEntries(e, j, path) : Weights(c.tns) \in Nat /\ Weights(c.tns) <= Weights(e.tns)
  BY <1>2, KidsWeigh
<1>4. ASSUME NEW i \in DOMAIN st
      PROVE  Weights(st[i].tns) >= Weights(e.tns) /\ Weights(st[i].tns) \in Nat
  <2>1. CASE st[i].tns = e.tns
    BY <1>1, <2>1, EntriesWeigh
  <2>2. CASE i \in DOMAIN subtree /\ st[i] = subtree[i]
    BY <1>1, <2>2, EntriesWeigh DEF Sorted
  <2>3. QED  BY <2>1, <2>2
<1>5. Weights(e.tns) \in Nat /\ \A f \in heap : Weights(f.tns) \in Nat
  BY <1>1, EntriesWeigh
<1>6. ASSUME NEW f \in (heap \ {e}) \union childEntries(e, j, path)
      PROVE  Weights(f.tns) <= Weights(e.tns) /\ Weights(f.tns) \in Nat
  BY <1>1, <1>3, <1>5
<1>7. QED  BY <1>4, <1>5, <1>6 DEF Sorted

LEMMA CountedFinite ==
  ASSUME WalkInv
  PROVE  IsFiniteSet(Counted(subtree)) /\ Cardinality(Counted(subtree)) \in Nat
<1>1. IsFiniteSet(1 .. Len(subtree)) /\ DOMAIN subtree = 1 .. Len(subtree)
  BY FS_Interval DEF WalkInv
<1>2. IsFiniteSet(Counted(subtree))
  BY <1>1, FS_Subset DEF Counted
<1>3. QED  BY <1>2, FS_CardinalityType

LEMMA MayAdd ==
  ASSUME Fit, WalkInv, Counting(added, subtree), MoreToVisit
  PROVE  added \in Nat /\ (wo.maxNodes # unspecifiedOption => added + 1 <= wo.maxNodes)
<1>1. added \in Nat
  BY CountedFinite DEF Counting
<1>2. wo.maxNodes # unspecifiedOption => wo.maxNodes \in Nat /\ added < wo.maxNodes
  BY DEF MoreToVisit, Fit, walkOptions
<1>3. QED  BY <1>1, <1>2

LEMMA ReturnCounts ==
  ASSUME Clean, Known, WeightsAreTotal, WalkInv, Sight(heap, subtree),
         Counting(added, subtree), Sorted(heap, subtree), NEW e \in Heaviest, MoreToVisit, Return(e)
  PROVE  Counting(added', subtree') /\ Sorted(heap', subtree')
<1> DEFINE stn == [parent |-> e.parent, path |-> e.path, tns |-> e.tns, prefix |-> IsPrefixEntry(e)]
           n == Len(subtree)
           st == Append(subtree, stn)
<1>1. n \in Nat /\ DOMAIN subtree = 1 .. n
  BY DEF WalkInv
<1>2. /\ DOMAIN st = 1 .. n + 1 /\ n + 1 \notin DOMAIN subtree /\ \A i \in DOMAIN subtree : i \in DOMAIN st /\ st[i] = subtree[i]
      /\ \A i \in DOMAIN st : i \in DOMAIN subtree \/ i = n + 1
      /\ n + 1 \in DOMAIN st /\ st[n + 1] = stn
  BY <1>1
<1>3. stn.tns = e.tns /\ stn.prefix = IsPrefixEntry(e)
  OBVIOUS
<1>4. subtree' = st /\ heap' = (heap \ {e}) \union childEntries(e, Len(subtree'), e.path)
      /\ added' = IF stn.prefix THEN added ELSE added + 1
  BY DEF Return
<1> HIDE DEF st, stn, n
<1>5. Sorted(heap', subtree')
  <2>1. \A i \in DOMAIN st : st[i].tns = e.tns \/ (i \in DOMAIN subtree /\ st[i] = subtree[i])
    BY <1>2, <1>3
  <2>2. QED  BY <1>4, <2>1, VisitSorts
<1>6. added \in Nat /\ (wo.maxNodes # unspecifiedOption => added + 1 <= wo.maxNodes)
  BY MayAdd DEF Clean
<1>7. IsFiniteSet(Counted(subtree)) /\ added = Cardinality(Counted(subtree)) /\ n + 1 \notin Counted(subtree)
  BY <1>2, CountedFinite DEF Counting, Counted
<1>8. CASE stn.prefix
  <2>1. Counted(st) = Counted(subtree)
    BY <1>2, <1>8 DEF Counted
  <2>2. QED  BY <1>4, <1>5, <1>8, <2>1 DEF Counting
<1>9. CASE ~stn.prefix
  <2>1. Counted(st) = Counted(subtree) \union {n + 1}
    BY <1>2, <1>9 DEF Counted
  <2>2. Cardinality(Counted(st)) = Cardinality(Counted(subtree)) + 1
    BY <1>7, <2>1, FS_AddElement
  <2>3. QED  BY <1>4, <1>5, <1>6, <1>7, <1>9, <2>2 DEF Counting
<1>10. QED  BY <1>8, <1>9

\* An elided entry lies within the prefix, as does its parent: it does not count.
LEMMA ElideCounts ==
  ASSUME Clean, Known, WeightsAreTotal, WalkInv, Sight(heap, subtree),
         Counting(added, subtree), Sorted(heap, subtree), NEW e \in Heaviest, ~IsReturned(e), Elide(e)
  PROVE  Counting(added', subtree') /\ Sorted(heap', subtree')
<1>1. Fit /\ Merges /\ Made(subtree) /\ e \in heap /\ 0 \notin DOMAIN subtree
  BY DEF Clean, Sight, Heaviest, WalkInv
<1>2. PICK p \in Paths : WaitsAt(subtree, e, p)
  BY <1>1 DEF Sight, Waiting
<1>3. p \in Within /\ Len(p) # Begin
  BY <1>1, <1>2, ReturnedIs DEF NotElided
<1>4. PICK a \in ParentOf(p) : e.parent \in DOMAIN subtree /\ subtree[e.parent].tns = NodesAt(a)
  BY <1>2, <1>3 DEF WaitsAt, Near
<1>5. a \in Paths /\ IsPrefix(a, p)
  BY <1>1, <1>4, ParentsAre DEF IsStrictPrefix
<1>6. a \in Within
  BY <1>1, <1>3, <1>5, WithinAbove
<1>7. a = PathAt(subtree, e.parent) /\ MadeAt(subtree, e.parent, PathAt(subtree, e.parent))
  BY <1>1, <1>4, <1>5, PathAtIs
<1>8. subtree[e.parent].prefix
  BY <1>6, <1>7 DEF MadeAt
<1>9. added' = added /\ subtree' = subtree /\ heap' = (heap \ {e}) \union childEntries(e, e.parent, subtree[e.parent].path)
  BY <1>8 DEF Elide
<1>10. Sorted(heap', subtree)
  <2>1. \A i \in DOMAIN subtree : subtree[i].tns = e.tns \/ (i \in DOMAIN subtree /\ subtree[i] = subtree[i])
    OBVIOUS
  <2>2. QED  BY <1>9, <2>1, VisitSorts
<1>11. QED  BY <1>9, <1>10

LEMMA HeavyKept ==
  ASSUME HeavyInv, UNCHANGED wo, status' = "new" => added' = 0,
         status' \in {"walking", "done"} /\ MergesCleanly => Counting(added', subtree') /\ Sorted(heap', subtree')
  PROVE  HeavyInv'
<1>1. MergesCleanly' <=> MergesCleanly
  BY SameOptions
<1>2. (Known' <=> Known) /\ (Counting(added, subtree)' <=> Counting(added', subtree'))
  BY DEF Known, Counting, Counted
<1>3. Sorted(heap, subtree)' <=> Sorted(heap', subtree')
  <2>1. \A tns : Weights(tns)' = Weights(tns)
    BY Zenon DEF Weights, FoldSet, MapThenFoldSet
  <2>2. QED  BY <2>1, Zenon DEF Sorted
<1>4. QED  BY <1>1, <1>2, <1>3 DEF HeavyInv

LEMMA StartCounts ==
  ASSUME Fit, NEW h
  PROVE  Counting(0, <<>>) /\ Sorted(h, <<>>)
<1>1. Counted(<<>>) = {} /\ Sorted(h, <<>>)
  BY DEF Counted, Sorted
<1>2. wo.maxNodes # unspecifiedOption => wo.maxNodes \in Nat
  BY DEF Fit, walkOptions
<1>3. Cardinality({}) = 0
  BY FS_EmptySet
<1>4. wo.maxNodes # unspecifiedOption => 0 <= wo.maxNodes
  BY <1>2
<1>5. QED  BY <1>1, <1>3, <1>4, Zenon DEF Counting

LEMMA VisitCounts ==
  ASSUME WeightsAreTotal, WalkInv, SightInv, HeavyInv, NEW e \in heap, Visit(e)
  PROVE  HeavyInv'
<1>1. UNCHANGED wo /\ status = "walking" /\ MoreToVisit /\ e \in Heaviest
  BY DEF Visit
<1>2. CASE Fail(e)
  BY <1>1, <1>2, HeavyKept DEF Fail
<1>3. CASE ~Fail(e)
  <2>1. status' = "walking" /\ Fit /\ Merges /\ Known
    BY <1>1, <1>3 DEF Visit, Skip, SightInv, HeavyInv
  <2>2. ASSUME MergesCleanly
        PROVE  Counting(added', subtree') /\ Sorted(heap', subtree')
    <3>1. Clean /\ Sight(heap, subtree) /\ Counting(added, subtree) /\ Sorted(heap, subtree)
      BY <1>1, <2>1, <2>2 DEF Clean, SightInv, HeavyInv
    <3>2. CASE Skip(e)
      BY <3>1, <3>2 DEF Skip, Sorted
    <3>3. CASE ~Skip(e)
      <4>1. IF IsReturned(e) THEN Return(e) ELSE Elide(e)
        BY <1>3, <3>3 DEF Visit
      <4>2. QED  BY <1>1, <2>1, <3>1, <4>1, ReturnCounts, ElideCounts
    <3>4. QED  BY <3>2, <3>3
  <2>3. QED  BY <1>1, <2>1, <2>2, HeavyKept
<1>4. QED  BY <1>2, <1>3

LEMMA NextKeepsHeavy ==
  ASSUME WeightsAreTotal, WalkInv, SightInv, HeavyInv, [Next]_vars
  PROVE  HeavyInv'
<1>1. CASE UNCHANGED wo /\ status' \notin {"new", "walking", "done"}
  BY <1>1, HeavyKept
<1>2. CASE StartMerge \/ StartAtRoot
  <2>1. UNCHANGED <<wo, subtree, added>> /\ status = "new" /\ status' \in {"panicked", "walking"}
    BY <1>2 DEF StartMerge, StartAtRoot
  <2>2. subtree' = <<>> /\ added' = 0 /\ Fit
    BY <2>1 DEF SightInv, HeavyInv
  <2>3. QED  BY <2>1, <2>2, StartCounts, HeavyKept
<1>3. ASSUME NEW e \in heap, Visit(e)
      PROVE  HeavyInv'
  BY <1>3, VisitCounts
<1>4. CASE UNCHANGED <<wo, heap, subtree, added>> /\ status' = "done" /\ status = "walking"
  BY <1>4, HeavyKept DEF HeavyInv
<1>5. CASE AskAgain
  <2>1. status' = "new" /\ added' = 0
    BY <1>5 DEF AskAgain
  <2>2. PICK opts \in Again : wo' = [opts EXCEPT !.tree = wo.tree]
    BY <1>5 DEF AskAgain
  <2>3. opts \in walkOptions
    BY TreesAssumption
  <2>4. wo'.tree = wo.tree
    BY <2>2, <2>3 DEF walkOptions
  <2>5. QED  BY <2>1, <2>4 DEF HeavyInv, Known
<1>6. CASE Walk
  BY <1>2, <1>3, <1>4, <1>6 DEF Walk, WalkNext, Finish
<1>7. CASE BuildResponse
  BY <1>1, <1>7 DEF BuildResponse
<1>8. CASE UNCHANGED <<wo, status, heap, subtree, added>>
  BY <1>8, HeavyKept DEF HeavyInv
<1>9. CASE OnResponse \/ Lost
  BY <1>8, <1>9 DEF OnResponse, Lost, walkVars
<1>10. CASE UNCHANGED serverVars
  BY <1>8, <1>10 DEF serverVars, walkVars
<1>11. CASE Resize \/ RedrawDebounced \/ RedrawObserved \/ Destroy \/ \E tn \in wo.tree : CallOut(tn)
  BY <1>10, <1>11 DEF Resize, RedrawDebounced, RedrawObserved, Destroy, CallOut
<1>12. CASE UNCHANGED vars
  BY <1>10, <1>12 DEF vars
<1>13. QED  BY <1>5, <1>6, <1>7, <1>9, <1>11, <1>12 DEF Next

LEMMA HeaviestReturned ==
  ASSUME WeightsAreTotal, WalkInv, SightInv, HeavyInv
  PROVE  HeaviestKept
<1> DEFINE kept == NotPrefix(Returned)
           wanted == NotPrefix(Described)
           g == [i \in Counted(subtree) |-> RecordOf(i)]
<1>1. SUFFICES ASSUME status = "done", wo.maxNodes # unspecifiedOption, MergesCleanly
               PROVE  /\ kept \subseteq wanted
                      /\ Cardinality(Counted(subtree)) =
                           IF Cardinality(wanted) < wo.maxNodes THEN Cardinality(wanted) ELSE wo.maxNodes
                      /\ \A n \in kept, out \in wanted \ kept : Weights(n.tns) >= Weights(out.tns)
  BY DEF HeaviestKept, Counted
<1>2. /\ Fit /\ Merges /\ Clean /\ Known /\ Sight(heap, subtree) /\ Made(subtree) /\ ~MoreToVisit
      /\ Counting(added, subtree) /\ Sorted(heap, subtree)
  BY <1>1 DEF SightInv, Sight, HeavyInv, Clean
<1>3. /\ Returned = {RecordOf(i) : i \in DOMAIN subtree} /\ Returned \subseteq Described
      /\ \A i, j \in DOMAIN subtree : RecordOf(i) = RecordOf(j) => i = j
      /\ \A p \in View : Written(p) \in Returned <=> \E i \in DOMAIN subtree : subtree[i].tns = NodesAt(p)
  BY <1>2, ReturnedOf
<1>4. kept \subseteq wanted
  BY <1>3 DEF NotPrefix
<1>5. IsFiniteSet(wanted) /\ IsFiniteSet(kept) /\ Cardinality(wanted) \in Nat /\ Cardinality(kept) <= Cardinality(wanted)
  <2>1. IsFiniteSet(wanted)
    BY <1>2, DescribedFinite, FS_Subset DEF NotPrefix
  <2> HIDE DEF kept, wanted
  <2>2. QED  BY <1>4, <2>1, FS_Subset, FS_CardinalityType
<1>6. Cardinality(kept) = Cardinality(Counted(subtree)) /\ Cardinality(Counted(subtree)) \in Nat
  <2>1. \A i \in DOMAIN subtree : RecordOf(i).prefix = subtree[i].prefix
    BY DEF RecordOf
  <2>2. \A i \in Counted(subtree) : i \in DOMAIN subtree /\ RecordOf(i) \in kept
    BY <1>3, <2>1 DEF Counted, NotPrefix
  <2>3. \A n \in kept : \E i \in Counted(subtree) : n = RecordOf(i)
    BY <1>3, <2>1 DEF Counted, NotPrefix
  <2> HIDE DEF kept
  <2>4. g \in Surjection(Counted(subtree), kept)
    BY <2>2, <2>3 DEF Surjection
  <2>5. g \in Injection(Counted(subtree), kept)
    BY <1>3, <2>2 DEF Injection, IsInjective
  <2> HIDE DEF g
  <2>6. QED  BY <2>4, <2>5, CountedFinite, FS_Surjection
<1>7. added = Cardinality(Counted(subtree)) /\ added <= wo.maxNodes /\ wo.maxNodes \in Nat
  BY <1>1, <1>2 DEF Counting, Fit, walkOptions
\* What is in the view and has not been returned, is below an entry.
<1>8. ASSUME NEW out \in wanted, out \notin kept
      PROVE  \E e \in heap : Weights(e.tns) \in Nat /\ Weights(out.tns) \in Nat /\ Weights(out.tns) <= Weights(e.tns)
  <2>1. PICK q \in View : out = Written(q)
    BY <1>2, DescribedIs DEF NotPrefix
  <2>2. Written(q) \notin Returned
    BY <1>8, <2>1 DEF NotPrefix
  <2>3. PICK e \in heap : \E p \in Paths : e.tns = NodesAt(p) /\ IsPrefix(p, q)
    BY <1>2, <1>3, <2>2 DEF Sight, Covering
  <2>4. out.tns = NodesAt(q) /\ q \in Paths
    BY <2>1 DEF Written, View
  <2>5. QED  BY <1>2, <2>3, <2>4, BelowWeighsLess
<1>9. Cardinality(Counted(subtree)) = IF Cardinality(wanted) < wo.maxNodes THEN Cardinality(wanted) ELSE wo.maxNodes
  <2>1. CASE heap = {}
    <3>1. kept = wanted
      BY <1>4, <1>8, <2>1
    <3> HIDE DEF kept, wanted
    <3>2. QED  BY <1>5, <1>6, <1>7, <3>1
  <2>2. CASE heap # {}
    <3>1. ~(added < wo.maxNodes)
      BY <1>1, <1>2, <2>2 DEF MoreToVisit
    <3> HIDE DEF kept, wanted
    <3>2. QED  BY <1>5, <1>6, <1>7, <3>1
  <2>3. QED  BY <2>1, <2>2
<1>10. ASSUME NEW n \in kept, NEW out \in wanted \ kept
       PROVE  Weights(n.tns) >= Weights(out.tns)
  <2>1. PICK i \in DOMAIN subtree : n = RecordOf(i)
    BY <1>3 DEF NotPrefix
  <2>2. PICK e \in heap : Weights(e.tns) \in Nat /\ Weights(out.tns) \in Nat /\ Weights(out.tns) <= Weights(e.tns)
    BY <1>8
  <2>3. Weights(subtree[i].tns) \in Nat /\ Weights(subtree[i].tns) >= Weights(e.tns)
    BY <1>2, <2>1, <2>2, EntriesWeigh DEF Sorted
  <2>4. n.tns = subtree[i].tns
    BY <2>1 DEF RecordOf
  <2> HIDE DEF kept, wanted
  <2>5. QED  BY <2>2, <2>3, <2>4
<1>11. QED  BY <1>4, <1>9, <1>10

(***************************************************************************)
(* Walk() with MaxNodes, where CompareFn orders by total weights: it       *)
(* returns as many nodes as it may, of those that the other options        *)
(* describe, and leaves none out that weighs more than one it returned.    *)
(***************************************************************************)
THEOREM HeaviestAreKept ==
  ASSUME WeightsAreTotal
  PROVE  Spec => []HeaviestKept
<1>1. Init => WalkInv /\ SightInv /\ HeavyInv
  <2>1. ASSUME Init
        PROVE  HeavyInv
    <3>1. wo \in Walks /\ status = "new" /\ added = 0
      BY <2>1 DEF Init, WalkInit
    <3>2. QED  BY <3>1 DEF HeavyInv, Known
  <2>2. QED  BY <2>1, InitialView, InitialSight DEF ViewInv
<1>2. WalkInv /\ SightInv /\ HeavyInv /\ [Next]_vars => (WalkInv /\ SightInv /\ HeavyInv)'
  BY NextKeepsWalk, NextKeepsSight, NextKeepsHeavy
<1>3. WalkInv /\ SightInv /\ HeavyInv => HeaviestKept
  BY HeaviestReturned
<1>4. QED  BY <1>1, <1>2, <1>3, PTL DEF Spec
=============================================================================
