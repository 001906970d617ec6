------------------------------ MODULE MCTreeView ------------------------------
(***************************************************************************)
(* A tree of ten nodes whose scopes come back at several depths, as those  *)
(* of the tests of walk.go do, and walks with every option and with the    *)
(* pairs of options that meet in the code.                                 *)
(***************************************************************************)
EXTENDS TreeView

MCTree == {<<>>, <<1>>, <<2>>, <<1, 1>>, <<1, 2>>, <<2, 1>>, <<1, 1, 2>>, <<1, 2, 1>>,
           <<2, 1, 1>>, <<2, 1, 2>>}
MCSelf == [p \in MCTree |->
  CASE p \in {<<1>>, <<2, 1>>} -> 0 [] p = <<1, 2, 1>> -> 4 [] p = <<1, 1, 2>> -> 2 [] p = <<2>> -> 3
    [] OTHER -> 1]
\* Total weights.
MCWeight == [p \in MCTree |-> FoldSet(LAMBDA q, sum : MCSelf[q] + sum, 0, {q \in MCTree : IsPrefix(p, q)})]

Plain == [tree |-> MCTree, mergePrefixes |-> {}, pathPrefixes |-> {}, elidePrefix |-> FALSE,
          maxDepth |-> unspecifiedOption, maxNodes |-> unspecifiedOption,
          filteredIn |-> MCTree, elided |-> {}, broken |-> {}]

Filters == {MCTree, MCTree \ {<<1, 1>>}}
Elisions == {{}, {<<1>>, <<2, 1>>}, {<<1, 2>>, <<1, 1>>}}
PathPrefixes == {{}, {<<2>>}, {<<2, 1>>}, {<<1>>, <<1, 2>>, <<2>>}}
Merges == {{<<1>>, <<2, 1>>}, {<<1, 1>>, <<1, 2>>, <<1>>}, {<<1, 1>>, <<2, 1>>}}
Depths == {unspecifiedOption, 2}

MCWalks ==
  {[Plain EXCEPT !.filteredIn = f, !.elided = e, !.pathPrefixes = p, !.elidePrefix = x, !.maxDepth = d] :
     f \in Filters, e \in Elisions, p \in PathPrefixes, x \in BOOLEAN, d \in Depths}
  \union
  {[Plain EXCEPT !.mergePrefixes = q, !.elided = e, !.filteredIn = f, !.maxDepth = d, !.maxNodes = n] :
     q \in Merges, e \in Elisions, f \in Filters, d \in Depths, n \in {unspecifiedOption, 3}}
  \union
  {[Plain EXCEPT !.maxNodes = n, !.elided = e, !.pathPrefixes = p] :
     n \in {0, 1, 3}, e \in Elisions, p \in PathPrefixes}
  \union
  {[Plain EXCEPT !.broken = b, !.maxDepth = d, !.mergePrefixes = q] :
     b \in {{<<2, 1>>}, {<<2>>}}, d \in {1, 3}, q \in {{}, {<<1, 1>>, <<2, 1>>}}}
  \union
  {[Plain EXCEPT !.mergePrefixes = {<<1>>, <<2, 1>>}, !.pathPrefixes = {p}] : p \in {<<1, 1>>, <<2>>}}
  \union
  {[Plain EXCEPT !.maxDepth = 0], [Plain EXCEPT !.mergePrefixes = {<<>>}]}

ASSUME TotalWeightsAssumption == WeightsAreTotal

MCAgain == {[Plain EXCEPT !.maxNodes = 2]}
=============================================================================
