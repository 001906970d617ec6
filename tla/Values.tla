-------------------------------- MODULE Values --------------------------------
(***************************************************************************)
(* What a Value (value.ts) holds, and the operations the interactions of a *)
(* tool are made of: fold, compare, includes and prefixOf.                 *)
(*                                                                         *)
(* The eleven classes differ in what their elements are (the family) and   *)
(* in whether they hold one element, a list or a set (the shape).          *)
(* Elements of every family are natural numbers in the order `compare'     *)
(* gives them: 0 is the family's zero ("", 0, no duration, the epoch).  Of  *)
(* texts, those above PlainText hold a character encodeURIComponent        *)
(* escapes, and so do the escaped texts, because of their `%'.             *)
(*                                                                         *)
(* A datum is what a Value of some kind holds, [kind, data].               *)
(***************************************************************************)
EXTENDS Integers, Sequences, FiniteSets, TLC

CONSTANT PlainText
ASSUME PlainTextAssumption == PlainText \in Nat

EmptyValue        == [family |-> "none",      shape |-> "empty"]
StringValue       == [family |-> "text",      shape |-> "scalar"]
StringListValue   == [family |-> "text",      shape |-> "list"]
StringSetValue    == [family |-> "text",      shape |-> "set"]
IntegerValue      == [family |-> "integer",   shape |-> "scalar"]
IntegerListValue  == [family |-> "integer",   shape |-> "list"]
IntegerSetValue   == [family |-> "integer",   shape |-> "set"]
DoubleValue       == [family |-> "double",    shape |-> "scalar"]
DurationValue     == [family |-> "duration",  shape |-> "scalar"]
TimestampValue    == [family |-> "timestamp", shape |-> "scalar"]

Kinds == {EmptyValue, StringValue, StringListValue, StringSetValue, IntegerValue,
          IntegerListValue, IntegerSetValue, DoubleValue, DurationValue, TimestampValue}

Empty == [kind |-> EmptyValue, data |-> 0]
Zero(kind) == CASE kind.shape = "list" -> <<>> [] kind.shape = "set" -> {} [] OTHER -> 0

Elements(seq) == {seq[i] : i \in DOMAIN seq}

-----------------------------------------------------------------------------
(* fold *)

\* Whether a Value of kind `to' can be folded into from one of kind `from'.
Accepts(to, from) ==
  /\ to # EmptyValue
  /\ \/ from = EmptyValue
     \/ /\ from.family = to.family
        /\ to.shape = "scalar" => from.shape = "scalar"
        /\ to.shape = "list" => from.shape \in {"scalar", "list"}

\* What a list or set takes an acceptable datum for.
AsList(v) == IF v.kind.shape = "scalar" THEN <<v.data>> ELSE v.data
AsSet(v) == CASE v.kind.shape = "scalar" -> {v.data}
              [] v.kind.shape = "list" -> Elements(v.data)
              [] OTHER -> v.data

FoldScalar(mine, other, toggle) == IF toggle /\ mine = other THEN 0 ELSE other

FoldList(mine, other, replace, toggle) ==
  IF toggle /\ mine = other THEN <<>> ELSE IF replace THEN other ELSE mine \o other

FoldSet(mine, other, replace, toggle) ==
  CASE replace /\ toggle /\ mine = other -> {}
    [] replace /\ ~(toggle /\ mine = other) -> other
    [] ~replace /\ toggle -> (mine \ other) \cup (other \ mine)
    [] ~replace /\ ~toggle -> mine \cup other

\* What is held after folding v into a Value that holds `mine'.
Fold(kind, mine, v, replace, toggle) ==
  CASE v.kind = EmptyValue -> Zero(kind)
    [] v.kind # EmptyValue /\ kind.shape = "scalar" -> FoldScalar(mine, v.data, toggle)
    [] v.kind # EmptyValue /\ kind.shape = "list" -> FoldList(mine, AsList(v), replace, toggle)
    [] v.kind # EmptyValue /\ kind.shape = "set" -> FoldSet(mine, AsSet(v), replace, toggle)

-----------------------------------------------------------------------------
(* compare, includes and prefixOf *)

\* The elements of a set in order.
InOrder(S) == CHOOSE seq \in [1 .. Cardinality(S) -> S] :
                \A i, j \in DOMAIN seq : i < j => seq[i] < seq[j]

\* What a list or a set compares itself with: nothing, if the families differ or
\* (lists) the other is a set.
ComparableList(family, v) ==
  IF v.kind.family = family /\ v.kind.shape # "set" THEN AsList(v) ELSE <<>>
ComparableSet(family, v) ==
  CASE v.kind.family # family -> <<>>
    [] v.kind.family = family /\ v.kind.shape = "set" -> InOrder(v.data)
    [] v.kind.family = family /\ v.kind.shape # "set" -> SortSeq(AsList(v), <)

CompareScalar(x, y) ==
  IF y.kind = x.kind THEN x.data - y.data ELSE IF y.kind = EmptyValue THEN x.data ELSE 1

\* By length, then by the leftmost element that differs.
CompareSequences(a, b) ==
  LET differs == {i \in DOMAIN a : a[i] # b[i]}
  IN  IF Len(a) # Len(b) THEN Len(a) - Len(b)
      ELSE IF differs = {} THEN 0
      ELSE LET i == CHOOSE i \in differs : \A j \in differs : i <= j IN a[i] - b[i]

Compare(x, y) ==
  CASE x.kind.shape = "scalar" -> CompareScalar(x, y)
    [] x.kind.shape = "list" -> CompareSequences(x.data, ComparableList(x.kind.family, y))
    [] x.kind.shape = "set" -> CompareSequences(InOrder(x.data), ComparableSet(x.kind.family, y))
    [] x.kind.shape = "empty" -> IF y.kind = EmptyValue THEN 0 ELSE 1

Includes(x, y) ==
  CASE x.kind.shape \in {"scalar", "empty"} -> Compare(x, y) = 0
    [] x.kind.shape = "list" -> x.data = ComparableList(x.kind.family, y)
    [] x.kind.shape = "set" -> Elements(ComparableSet(x.kind.family, y)) \subseteq x.data

\* Of the modelled texts only the empty one begins another.
PrefixOf(x, y) ==
  /\ x.kind.family \in {"text", "integer"} /\ y.kind = x.kind
  /\ \/ x.kind = StringValue /\ x.data \in {0, y.data}
     \/ x.kind.shape = "list" /\ Len(x.data) <= Len(y.data) /\ x.data = SubSeq(y.data, 1, Len(x.data))

-----------------------------------------------------------------------------
(* toV and fromV *)

EncodeURIComponent(text) == IF text <= PlainText THEN text ELSE text + 1

\* toV() without a string table, read back by fromV(): sets turn into lists, in
\* order, and a single text is escaped and stays so.
ThereAndBack(v) ==
  CASE v.kind = StringValue -> [v EXCEPT !.data = EncodeURIComponent(v.data)]
    [] v.kind.shape = "set" -> [kind |-> [v.kind EXCEPT !.shape = "list"], data |-> InOrder(v.data)]
    [] OTHER -> v
=============================================================================
