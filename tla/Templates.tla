------------------------------- MODULE Templates -------------------------------
(***************************************************************************)
(* How a tool is made out of an Angular template: the directives that      *)
(* build global state, interactions and series, in the form in which       *)
(* Interactions and FilterFetch have them.                                 *)
(*                                                                         *)
(* A template is the sequence of its elements in document order, each      *)
(* [tag, depth] and its attributes; an element is its position.  What the  *)
(* directive of an element returns is a set: it is empty if the directive  *)
(* throws a ConfigurationError.  A reference is the key of the Value it    *)
(* stands for.                                                             *)
(***************************************************************************)
EXTENDS Values
SE == INSTANCE SequencesExt

CONSTANT Template

ASSUME TemplateAssumption == \A i \in DOMAIN Template : Template[i].depth \in Nat

Tag(t) == Template[t].tag
Key(t) == Template[t].key

RefTags == {"global-ref", "local-ref"}
ValueTags == RefTags \cup {"empty", "string", "string-list", "string-set", "int",
                           "int-list", "int-set", "dbl", "dur", "timestamp"}
UpdateTags == {"then", "else", "if", "case", "switch", "clear", "set", "toggle", "set-or-clear",
               "extend", "set-if-empty", "swap", "push-left", "pop-left"}
PredicateTags == {"changed", "true", "false", "not", "and", "or", "equals", "less-than",
                  "greater-than", "includes", "prefix-of"}

\* What is between the tags of an element.
Content[t \in DOMAIN Template] ==
  {i \in DOMAIN Template : i > t /\ \A j \in t + 1 .. i : Template[j].depth > Template[t].depth}

Tagged(elements, tags) ==
  SelectSeq([i \in DOMAIN Template |-> i], LAMBDA i : i \in elements /\ Tag(i) \in tags)

\* A content query for many looks at the children,
ContentChildren(t, tags) ==
  Tagged({i \in Content[t] : Template[i].depth = Template[t].depth + 1}, tags)

\* one for a single element takes the first at any depth.
ContentChild(t, tags) ==
  LET found == Tagged(Content[t], tags) IN IF found = <<>> THEN {} ELSE {Head(found)}

\* What all of a sequence return, if none of them throws.
Each(results) ==
  IF \E i \in DOMAIN results : results[i] = {} THEN {}
  ELSE {[i \in DOMAIN results |-> CHOOSE r \in results[i] : TRUE]}

-----------------------------------------------------------------------------
(* Values *)

Texts(t) ==
  LET strs == ContentChildren(t, {"string"}) IN [i \in DOMAIN strs |-> Template[strs[i]].text]
Ints(t) ==
  LET ints == ContentChildren(t, {"int"}) IN [i \in DOMAIN ints |-> Template[ints[i]].number]

StringLiteral(t) ==
  CASE Tag(t) = "string"      -> [kind |-> StringValue, data |-> Template[t].text]
    [] Tag(t) = "string-list" -> [kind |-> StringListValue, data |-> Texts(t)]
    [] Tag(t) = "string-set"  -> [kind |-> StringSetValue, data |-> Elements(Texts(t))]

\* The timestamp literal is the zero time, whatever is in it.
NumberLiteral(t) ==
  CASE Tag(t) = "int"       -> [kind |-> IntegerValue, data |-> Template[t].number]
    [] Tag(t) = "int-list"  -> [kind |-> IntegerListValue, data |-> Ints(t)]
    [] Tag(t) = "int-set"   -> [kind |-> IntegerSetValue, data |-> Elements(Ints(t))]
    [] Tag(t) = "dbl"       -> [kind |-> DoubleValue, data |-> Template[t].number]
    [] Tag(t) = "dur"       -> [kind |-> DurationValue, data |-> Template[t].number]
    [] Tag(t) = "timestamp" -> [kind |-> TimestampValue, data |-> 0]

Literal(t) ==
  CASE Tag(t) = "empty" -> Empty
    [] Tag(t) \in {"string", "string-list", "string-set"} -> StringLiteral(t)
    [] OTHER -> NumberLiteral(t)

\* The arguments of an update or a predicate, in order (none of them a literal).
ValueRefs(t) ==
  LET refs == ContentChildren(t, RefTags) IN [i \in DOMAIN refs |-> Key(refs[i])]

\* From keys to the elements that specify the Values; of twins the last counts.
ValueMapDirective(t) ==
  LET wrappers == ContentChildren(t, {"value"})
      last(key) == CHOOSE i \in DOMAIN wrappers :
                     /\ Key(wrappers[i]) = key
                     /\ \A j \in DOMAIN wrappers : Key(wrappers[j]) = key => j <= i
  IN  {[key \in {Key(wrappers[i]) : i \in DOMAIN wrappers} |-> vals[last(key)]] :
         vals \in Each([i \in DOMAIN wrappers |-> ContentChild(wrappers[i], ValueTags)])}

ValueMapIn(t) == UNION {ValueMapDirective(vm) : vm \in ContentChild(t, {"value-map"})}

\* Where there is no local state a local reference throws; that the keys of the
\* global ones exist is seen to when the AppCore is published.
Globals(vm) == {Key(vm[key]) : key \in {key \in DOMAIN vm : Tag(vm[key]) = "global-ref"}}
GlobalsIn(t) == {Globals(vm) : vm \in {vm \in ValueMapIn(t) :
                   \A key \in DOMAIN vm : Tag(vm[key]) # "local-ref"}}

-----------------------------------------------------------------------------
(* Updates and predicates *)

\* get is what get() of each element returns; updates and predicates contain others.
Gets(get, t, tags) == LET ds == ContentChildren(t, tags) IN Each([i \in DOMAIN ds |-> get[ds[i]]])
GetOne(get, t, tags) == UNION {get[d] : d \in ContentChild(t, tags)}

\* `then', and `else' likewise.
ThenDirective(get, t) == {[op |-> "do", of |-> updates] : updates \in Gets(get, t, UpdateTags)}

\* An `if' without an `else' of its own takes one that is in its `then'.
IfDirective(get, t) ==
  {[op |-> "if", pred |-> pred, then |-> <<do>>, else |-> otherwise] :
     pred \in GetOne(get, t, PredicateTags),
     do \in GetOne(get, t, {"then"}),
     otherwise \in IF ContentChild(t, {"else"}) = {} THEN {<<>>}
                   ELSE {<<do>> : do \in GetOne(get, t, {"else"})}}

CaseDirective(get, t) ==
  {[pred |-> pred, of |-> updates] :
     pred \in GetOne(get, t, PredicateTags), updates \in Gets(get, t, UpdateTags)}

SwitchDirective(get, t) ==
  LET ds == ContentChildren(t, {"case"})
  IN  {[op |-> "switch", cases |-> cases] : cases \in Each([i \in DOMAIN ds |-> CaseDirective(get, ds[i])])}

\* No argument at all is noted as an error that get() never throws.
ClearDirective(t) == {[op |-> "clear", of |-> ValueRefs(t)]}

TwoRefs(t) == {refs \in {ValueRefs(t)} : Len(refs) = 2}
OfTwo(op, t) == {[op |-> op, to |-> refs[1], from |-> refs[2]] : refs \in TwoRefs(t)}

SetDirective(t) == OfTwo("set", t)
ToggleDirective(t) == OfTwo("toggle", t)
SetOrClearDirective(t) == OfTwo("setOrClear", t)
ExtendDirective(t) == OfTwo("extend", t)
SetIfEmptyDirective(t) == OfTwo("setIfEmpty", t)
SwapDirective(t) == OfTwo("swap", t)

PushLeftDirective(t) ==
  {[op |-> "pushLeft", to |-> Head(refs), of |-> Tail(refs)] :
     refs \in {refs \in {ValueRefs(t)} : Len(refs) > 1}}

PopLeftDirective(t) == {[op |-> "popLeft", to |-> Key(ref)] : ref \in ContentChild(t, RefTags)}

\* An instantaneous pulse is over before anybody can ask.
ChangedDirective(t) ==
  {[test |-> "changed", of |-> Elements(ValueRefs(t)), lasts |-> ~Template[t].noDebounce]}

TrueDirective(t) == {[test |-> "true"]}
FalseDirective(t) == {[test |-> "false"]}
NotDirective(get, t) == {[test |-> "not", of |-> {pred}] : pred \in GetOne(get, t, PredicateTags)}

OfMany(get, test, t) ==
  {[test |-> test, of |-> Elements(preds)] :
     preds \in {preds \in Gets(get, t, PredicateTags) : Len(preds) >= 2}}
AndDirective(get, t) == OfMany(get, "and", t)
OrDirective(get, t) == OfMany(get, "or", t)

Comparing(test, t) == {[test |-> test, x |-> refs[1], y |-> refs[2]] : refs \in TwoRefs(t)}
EqualsDirective(t) == Comparing("equals", t)
LessThanDirective(t) == Comparing("lessThan", t)
GreaterThanDirective(t) == Comparing("greaterThan", t)
IncludesDirective(t) == Comparing("includes", t)
PrefixOfDirective(t) == Comparing("prefixOf", t)

\* What the updates and predicates of a template are; a `case' by itself is a
\* switch of one.
Got[t \in DOMAIN Template] ==
  CASE Tag(t) \in {"then", "else"} -> ThenDirective(Got, t)
    [] Tag(t) = "if" -> IfDirective(Got, t)
    [] Tag(t) = "case" -> {[op |-> "switch", cases |-> <<case>>] : case \in CaseDirective(Got, t)}
    [] Tag(t) = "switch" -> SwitchDirective(Got, t)
    [] Tag(t) = "clear" -> ClearDirective(t)
    [] Tag(t) = "set" -> SetDirective(t)
    [] Tag(t) = "toggle" -> ToggleDirective(t)
    [] Tag(t) = "set-or-clear" -> SetOrClearDirective(t)
    [] Tag(t) = "extend" -> ExtendDirective(t)
    [] Tag(t) = "set-if-empty" -> SetIfEmptyDirective(t)
    [] Tag(t) = "swap" -> SwapDirective(t)
    [] Tag(t) = "push-left" -> PushLeftDirective(t)
    [] Tag(t) = "pop-left" -> PopLeftDirective(t)
    [] Tag(t) = "changed" -> ChangedDirective(t)
    [] Tag(t) = "true" -> TrueDirective(t)
    [] Tag(t) = "false" -> FalseDirective(t)
    [] Tag(t) = "not" -> NotDirective(Got, t)
    [] Tag(t) = "and" -> AndDirective(Got, t)
    [] Tag(t) = "or" -> OrDirective(Got, t)
    [] Tag(t) = "equals" -> EqualsDirective(t)
    [] Tag(t) = "less-than" -> LessThanDirective(t)
    [] Tag(t) = "greater-than" -> GreaterThanDirective(t)
    [] Tag(t) = "includes" -> IncludesDirective(t)
    [] Tag(t) = "prefix-of" -> PrefixOfDirective(t)
    [] OTHER -> {}

\* The predicates in a template, with their parts.
PredicatesIn(t) ==
  LET found == UNION {Got[i] : i \in {i \in Content[t] : Tag(i) \in PredicateTags}}
  IN  {pred : pred \in found}

-----------------------------------------------------------------------------
(* Interactions *)

ActionDirective(t) == Gets(Got, t, UpdateTags)
ReactionDirective(t) == GetOne(Got, t, PredicateTags)
WatchDirective(t) == GlobalsIn(t)

InteractionTags == <<"action", "reaction", "watch">>

Part(t) ==
  CASE Tag(t) = "action" -> ActionDirective(t)
    [] Tag(t) = "reaction" -> ReactionDirective(t)
    [] Tag(t) = "watch" -> WatchDirective(t)

(***************************************************************************)
(* The interactions of a component, by target and type (watches by type).  *)
(* They are kept before they are complete: if a part throws, so does the   *)
(* first get(), and later ones return what was there by then.              *)
(***************************************************************************)
InteractionsDirective(t) ==
  LET parts == SE!FlattenSeq([i \in 1 .. 3 |-> ContentChildren(t, {InteractionTags[i]})])
      part == [i \in DOMAIN parts |-> Part(parts[i])]
      made == {i \in DOMAIN parts : \A j \in 1 .. i : part[j] # {}}
      name(i) == IF Tag(parts[i]) = "watch" THEN Template[parts[i]].type
                 ELSE <<Template[parts[i]].target, Template[parts[i]].type>>
      of(tag) ==
        LET mine == {i \in made : Tag(parts[i]) = tag}
            last(n) == CHOOSE i \in mine : name(i) = n /\ \A j \in mine : name(j) = n => j <= i
        IN  [n \in {name(i) : i \in mine} |-> CHOOSE p \in part[last(n)] : TRUE]
  IN  [actions |-> of("action"), reactions |-> of("reaction"), watches |-> of("watch"),
       throws |-> made # DOMAIN parts]

\* A user action for which there is no Action does nothing.
UpdatesOf(interactions, action) ==
  IF action \in DOMAIN interactions.actions THEN interactions.actions[action] ELSE <<>>

\* watchAll() gives a component's callbacks, in its order, to the watches it has.
WatchAll(interactions, callbacks) ==
  LET heard == SelectSeq(callbacks, LAMBDA cb : cb.type \in DOMAIN interactions.watches)
  IN  [i \in DOMAIN heard |-> [of |-> interactions.watches[heard[i].type], does |-> heard[i].does]]

SupportsOnly(interactions, actions, reactions, watches) ==
  /\ DOMAIN interactions.actions \subseteq actions
  /\ DOMAIN interactions.reactions \subseteq reactions
  /\ DOMAIN interactions.watches \subseteq watches

-----------------------------------------------------------------------------
(* Global state and data *)

\* The initial Values; a reference cannot be resolved before there is one.
GlobalStateDirective(t) ==
  {[key \in DOMAIN vm |-> Literal(vm[key])] : vm \in {vm \in ValueMapIn(t) :
     \A key \in DOMAIN vm : Tag(vm[key]) \notin RefTags}}

DataQueryDirective(t) == {[id |-> Template[t].id, filters |-> filters] : filters \in GlobalsIn(t)}

\* There must be a global state, and data queries of different ids.
AppCoreDirective(t) ==
  LET queries == ContentChildren(t, {"data-query"})
  IN  {[globalState |-> state, dataQueries |-> dqs] :
         state \in UNION {GlobalStateDirective(g) : g \in ContentChild(t, {"global-state"})},
         dqs \in {dqs \in Each([i \in DOMAIN queries |-> DataQueryDirective(queries[i])]) :
                    /\ dqs # <<>>
                    /\ \A i, j \in DOMAIN dqs : i # j => dqs[i].id # dqs[j].id}}

QueryDirective(t) == ContentChild(t, ValueTags)
NamesQuery(query, globals) ==
  \/ Tag(query) = "string"
  \/ /\ Tag(query) = "global-ref" /\ Key(query) \in DOMAIN globals
     /\ globals[Key(query)].kind = StringValue

\* The parameters may be left out; of reactions there may only be `fetch'.
ParametersDirective(t) == IF ContentChild(t, {"value-map"}) = {} THEN {{}} ELSE GlobalsIn(t)

FETCH == <<"data-series", "fetch">>

DataSeriesDirective(t, core) ==
  LET params == ContentChild(t, {"parameters"})
      queries == UNION {QueryDirective(q) : q \in ContentChild(t, {"query"})}
  IN  {[dataQueryID |-> Template[t].dataQueryID, parameters |-> names, reactions |-> i.reactions] :
         query \in {q \in queries : NamesQuery(q, core.globalState)},
         names \in IF params = {} THEN {{}} ELSE UNION {ParametersDirective(p) : p \in params},
         i \in {i \in {InteractionsDirective(d) : d \in ContentChild(t, {"interactions"})} :
                  ~i.throws /\ SupportsOnly(i, {}, {FETCH}, {})}}
=============================================================================
