---------------------------- MODULE MCFilterFetch -----------------------------
(***************************************************************************)
(* A small tool.  Two texts mirror each other through watches, a list and  *)
(* two sets are filled from them, and one of the texts and one of the sets *)
(* are the parameters of a query.  It is given twice, as the constants of  *)
(* FilterFetch and as a template of which the directives make them.        *)
(***************************************************************************)
EXTENDS Templates, FilterFetch

CONSTANTS text, mirror, other, list, chosen, shown, count, nothing, missing

MCNames == {text, mirror, other, list, chosen, shown, count, nothing}
MCKindOf == [n \in MCNames |->
  CASE n \in {text, mirror, other} -> StringValue
    [] n = list -> StringListValue
    [] n \in {chosen, shown} -> StringSetValue
    [] n = count -> IntegerValue
    [] n = nothing -> EmptyValue]
MCFirst == [n \in MCNames |->
  CASE n \in {text, mirror, nothing} -> 0
    [] n = other -> 2
    [] n = list -> <<1>>
    [] n = chosen -> {1}
    [] n = shown -> {}
    [] n = count -> 1]
MCParameters == {text, chosen}

Fold2(op, to, from) == [op |-> op, to |-> to, from |-> from]

IsEqual == [test |-> "equals", x |-> text, y |-> other]
IsUnknown == [test |-> "equals", x |-> text, y |-> missing]
Has == [test |-> "includes", x |-> chosen, y |-> other]
Lacks == [test |-> "not", of |-> {Has}]
Both == [test |-> "and", of |-> {Lacks, IsEqual}]
Some == [test |-> "or", of |-> {Has, IsUnknown}]
Recent == [test |-> "changed", of |-> {list}, lasts |-> TRUE]
Begins == [test |-> "prefixOf", x |-> mirror, y |-> other]
MCPredicates == {IsEqual, IsUnknown, Has, Lacks, Both, Some, Recent, Begins}

SwitchOn(p, q) == [op |-> "switch", cases |->
  <<[pred |-> p, of |-> <<Fold2("toggle", chosen, other)>>],
    [pred |-> q, of |-> <<[op |-> "popLeft", to |-> list]>>]>>]

\* Those of several updates end with one that throws.
MCActions == <<
  \* choose: a text is set or cleared, then toggled in a set
  <<Fold2("setOrClear", text, other), Fold2("toggle", chosen, text), [op |-> "clear", of |-> <<nothing>>]>>,
  \* show: one set is made the other
  <<Fold2("set", shown, chosen), Fold2("toggle", shown, other), [op |-> "popLeft", to |-> other]>>,
  \* exchange; what follows the exchange of two families does not run
  <<Fold2("swap", mirror, other), Fold2("swap", mirror, missing), Fold2("swap", text, count),
    [op |-> "clear", of |-> <<text>>]>>,
  \* fill and drain the list, as the predicates say
  <<[op |-> "pushLeft", to |-> list, of |-> <<other, list>>], SwitchOn(Some, Both),
    [op |-> "pushLeft", to |-> list, of |-> <<count>>]>>,
  <<[op |-> "if", pred |-> Recent,
     then |-> <<[op |-> "do", of |-> <<Fold2("extend", list, mirror), SwitchOn(IsUnknown, Begins)>>]>>,
     else |-> <<>>]>>,
  \* clear returns at the undefined reference
  <<[op |-> "clear", of |-> <<chosen, missing, list>>], Fold2("setIfEmpty", mirror, other)>>,
  \* add to a set; a swap of which only the first half is possible
  <<Fold2("extend", chosen, other), Fold2("swap", list, mirror)>> >>

Callback(type, does) == [type |-> type, does |-> does]
MCCallbacks == <<
  Callback("copy", Sets(mirror, text)),
  Callback("copy back", Sets(text, mirror)),
  Callback("show", <<Fold2("set", shown, chosen), Fold2("set", count, shown)>>),
  Callback("reset", <<[op |-> "clear", of |-> <<text>>]>>),
  Callback("unused", Sets(other, text))>>
MCWatches == [i \in 1 .. 4 |->
  [of |-> <<{text}, {mirror}, {chosen}, {shown}>>[i], does |-> MCCallbacks[i].does]]

-----------------------------------------------------------------------------
(* The same as a template *)

\* Lines of a template, d deep.
Line(d, tag) == <<[depth |-> d, tag |-> tag]>>
Ref(d, tag, key) == <<[depth |-> d, tag |-> tag, key |-> key]>>
Globally(d, keys) == [i \in DOMAIN keys |-> Ref(d, "global-ref", keys[i])[1]]
Of(d, tag, keys) == Line(d, tag) \o Globally(d + 1, keys)
Local(d, key) == Ref(d, "local-ref", key)
Value(d, key) == <<[depth |-> d, tag |-> "value", key |-> key]>>
Text(d, letters) == <<[depth |-> d, tag |-> "string", text |-> letters]>>
Changes(d, keys) == <<[depth |-> d, tag |-> "changed", noDebounce |-> FALSE]>> \o Globally(d + 1, keys)
Map(d, keys) ==
  LET entries[i \in 0 .. Len(keys)] ==
        IF i = 0 THEN <<>> ELSE entries[i - 1] \o Value(d + 1, keys[i]) \o Globally(d + 2, <<keys[i]>>)
  IN  Line(d, "value-map") \o entries[Len(keys)]

Core ==
  Line(0, "app-core") \o Line(1, "global-state") \o Line(2, "value-map")
  \o Value(3, text) \o Text(4, 0)
  \o Value(3, mirror) \o Text(4, 0)
  \o Value(3, other) \o Text(4, 2)
  \o Value(3, list) \o Line(4, "string-list") \o Text(5, 1)
  \o Value(3, chosen) \o Line(4, "string-set") \o Text(5, 1)
  \o Value(3, shown) \o Line(4, "string-set")
  \o Value(3, count) \o <<[depth |-> 4, tag |-> "int", number |-> 1]>>
  \o Value(3, nothing) \o Line(4, "empty")
  \o <<[depth |-> 1, tag |-> "data-query", id |-> "default"]>> \o Map(2, <<>>)

Series ==
  <<[depth |-> 1, tag |-> "data-series", dataQueryID |-> "default"]>>
  \o Line(2, "query") \o Text(3, 1)
  \o Line(2, "parameters") \o Map(3, <<text, chosen>>)
  \o Line(2, "interactions")
  \o <<[depth |-> 3, tag |-> "reaction", target |-> "data-series", type |-> "fetch"]>>
  \o Changes(4, <<text, chosen>>)

EqualLine(d) == Of(d, "equals", <<text, other>>)
UnknownLine(d) == Of(d, "equals", <<text>>) \o Local(d + 1, missing)
HasLine(d) == Of(d, "includes", <<chosen, other>>)
BothLine(d) == Line(d, "and") \o Line(d + 1, "not") \o HasLine(d + 2) \o EqualLine(d + 1)
SomeLine(d) == Line(d, "or") \o HasLine(d + 1) \o UnknownLine(d + 1)
BeginsLine(d) == Of(d, "prefix-of", <<mirror, other>>)

SwitchLines(d, P(_), Q(_)) ==
  Line(d, "switch")
  \o Line(d + 1, "case") \o P(d + 2) \o Of(d + 2, "toggle", <<chosen, other>>)
  \o Line(d + 1, "case") \o Q(d + 2) \o Of(d + 2, "pop-left", <<list>>)

Action(type) == <<[depth |-> 2, tag |-> "action", target |-> "tool", type |-> type]>>
Watch(type, keys) == <<[depth |-> 2, tag |-> "watch", type |-> type]>> \o Map(3, keys)

\* Actions of several updates end with one that throws.
Tool ==
  Line(1, "interactions")
  \* a text is set or cleared, then toggled in a set
  \o Action("choose") \o Of(3, "set-or-clear", <<text, other>>) \o Of(3, "toggle", <<chosen, text>>)
     \o Of(3, "clear", <<nothing>>)
  \* one set is made the other
  \o Action("show") \o Of(3, "set", <<shown, chosen>>) \o Of(3, "toggle", <<shown, other>>)
     \o Of(3, "pop-left", <<other>>)
  \* what follows the exchange of two families does not run
  \o Action("exchange") \o Of(3, "swap", <<mirror, other>>) \o Of(3, "swap", <<mirror>>) \o Local(4, missing)
     \o Of(3, "swap", <<text, count>>) \o Of(3, "clear", <<text>>)
  \* the list is filled and drained, as the predicates say
  \o Action("fill") \o Of(3, "push-left", <<list, other, list>>) \o SwitchLines(3, SomeLine, BothLine)
     \o Of(3, "push-left", <<list, count>>)
  \o Action("drain") \o Line(3, "if") \o Changes(4, <<list>>) \o Line(4, "then")
     \o Of(5, "extend", <<list, mirror>>) \o SwitchLines(5, UnknownLine, BeginsLine)
  \* clear returns at the undefined reference
  \o Action("clear") \o Of(3, "clear", <<chosen>>) \o Local(4, missing) \o Globally(4, <<list>>)
     \o Of(3, "set-if-empty", <<mirror, other>>)
  \* add to a set; a swap of which only the first half is possible
  \o Action("add") \o Of(3, "extend", <<chosen, other>>) \o Of(3, "swap", <<list, mirror>>)
  \o Watch("copy", <<text>>) \o Watch("copy back", <<mirror>>)
  \o Watch("show", <<chosen>>) \o Watch("reset", <<shown>>)

MCTemplate == Core \o Line(0, "component") \o Series \o Tool

TheCore == CHOOSE core \in AppCoreDirective(1) : TRUE
Component == CHOOSE i \in DOMAIN Template : Tag(i) = "component"
TheSeries == CHOOSE series \in DataSeriesDirective(ContentChildren(Component, {"data-series"})[1], TheCore) : TRUE
Interacting == ContentChildren(Component, {"interactions"})[1]
TheInteractions == InteractionsDirective(Interacting)

DoneTo(type) == UpdatesOf(TheInteractions, <<"tool", type>>)

\* What the directives make of the template is the tool that the runs execute.
ASSUME TheToolIsTheTemplate ==
  /\ TheCore.globalState = [n \in MCNames |-> [kind |-> MCKindOf[n], data |-> MCFirst[n]]]
  /\ TheSeries.parameters = MCParameters
  /\ TheSeries.reactions = [type \in {FETCH} |-> [test |-> "changed", of |-> MCParameters, lasts |-> TRUE]]
  /\ PredicatesIn(Interacting) = MCPredicates
  /\ MCActions = <<DoneTo("choose"), DoneTo("show"), DoneTo("exchange"), DoneTo("fill"),
                   DoneTo("drain"), DoneTo("clear"), DoneTo("add")>>
  /\ MCWatches = WatchAll(TheInteractions, MCCallbacks)
  /\ ~TheInteractions.throws
=============================================================================
