----------------------------- MODULE Interactions -----------------------------
(***************************************************************************)
(* The interactions of a tool (interactions.ts): actions, which are lists  *)
(* of updates of Values, and watches, whose callbacks run when a Value     *)
(* changes.                                                                *)
(*                                                                         *)
(* An action is synchronous code, but each Value it changes calls its      *)
(* subscribers at once, in the middle of the update, and their callbacks   *)
(* may run updates in turn.  So an update is a step of its own, and the    *)
(* callbacks that wait to be resumed form a stack.                         *)
(*                                                                         *)
(* A Set object is handed from one Value to another by reference: `twins'  *)
(* says whose Set object is one and the same.                              *)
(***************************************************************************)
EXTENDS Values

CONSTANTS
  Names,       \* the Values that exist; a reference to any other is undefined
  KindOf,      \* their classes
  First,       \* what they hold at first
  Predicates,  \* the predicates that occur in updates, and their parts
  Actions,     \* the actions, each the sequence of its updates
  Watches,     \* the watches, in order: those of a change, and what they do
  MaxEvents    \* bound: how many user actions happen

ASSUME StoreAssumption ==
  /\ KindOf \in [Names -> Kinds]
  /\ DOMAIN First = Names
  /\ Watches \in Seq(Elements(Watches))
  /\ MaxEvents \in Nat

VARIABLES
  held,    \* what each Value holds
  twins,   \* the Values that hold the same Set object as this one
  news,    \* the Values that called their subscribers in the last step
  stack,   \* the updates yet to run: of the innermost callback first
  events   \* how many user actions were begun

storeVars == <<held, twins, news>>
interactionVars == <<storeVars, stack, events>>

Init ==
  /\ held = First
  /\ twins = [n \in Names |-> {n}]
  /\ news = {}
  /\ stack = <<>>
  /\ events = 0

Datum(n) == [kind |-> KindOf[n], data |-> held[n]]

-----------------------------------------------------------------------------
(* Values change *)

\* n now holds the Set object of the Values in `others' (none: one of its own).
Regroup(n, others) ==
  twins' = [m \in Names |-> IF m \in others \cup {n} THEN others \cup {n} ELSE twins[m] \ {n}]

BadStoreByLength(n, new, others) ==
  \/ /\ KindOf[n].shape = "list" => Len(new) # Len(held[n])
     /\ new # held[n]
     /\ held' = [held EXCEPT ![n] = new]
     /\ news' = {n}
     /\ Regroup(n, others)
  \/ /\ KindOf[n].shape = "list" => Len(new) = Len(held[n])
     /\ KindOf[n].shape # "list" => new = held[n]
     /\ held' = [held EXCEPT ![n] = new]
     /\ news' = {}
     /\ UNCHANGED twins

BadStoreTellsAlways(n, new, others) ==
  /\ held' = [held EXCEPT ![n] = new]
  /\ news' = {n}
  /\ Regroup(n, others)

\* The setter of `val': what is equal is not stored and nobody is told.
Store(n, new, others) ==
  \/ /\ new # held[n]
     /\ held' = [held EXCEPT ![n] = new]
     /\ news' = {n}
     /\ Regroup(n, others)
  \/ /\ new = held[n]
     /\ news' = {}
     /\ UNCHANGED <<held, twins>>

\* foldSet() that neither replaces nor toggles adds to the Set object in place:
\* the setter then finds nothing new, and whoever shares the object has changed.
AddInPlace(n, new) ==
  /\ held' = [m \in Names |-> IF m \in twins[n] THEN new ELSE held[m]]
  /\ news' = {}
  /\ UNCHANGED twins

\* A set that is replaced by another takes that one's Set object, except that
\* IntegerSetValue copies a set of its own size.
TakesObject(n, v, toggle) ==
  /\ KindOf[n].shape = "set" /\ v.kind.shape = "set"
  /\ ~(toggle /\ held[n] = v.data)
  /\ KindOf[n].family = "text" \/ Cardinality(held[n]) # Cardinality(v.data)

\* n.fold(v), where v holds the Set object of the Values in `others'.
FoldInto(n, v, others, replace, toggle) ==
  LET new == Fold(KindOf[n], held[n], v, replace, toggle)
  IN  IF KindOf[n].shape = "set" /\ v.kind # EmptyValue /\ ~replace /\ ~toggle
      THEN AddInPlace(n, new)
      ELSE Store(n, new, IF replace /\ TakesObject(n, v, toggle) THEN others ELSE {})

-----------------------------------------------------------------------------
(* Predicates *)

Defined(refs) == refs \subseteq Names

Relates(test, x, y) ==
  CASE test = "equals" -> Compare(x, y) = 0
    [] test = "lessThan" -> Compare(x, y) < 0
    [] test = "greaterThan" -> Compare(x, y) > 0
    [] test = "includes" -> Includes(x, y)
    [] test = "prefixOf" -> PrefixOf(x, y)

(***************************************************************************)
(* What a new subscriber of the predicate's match has been sent last, as a *)
(* set: nothing is sent for undefined references, nor by a combination one *)
(* part of which sends nothing.  A Changed is true for whoever subscribes, *)
(* unless it makes a mere pulse.                                           *)
(***************************************************************************)
Current[p \in Predicates] ==
  CASE p.test \in {"true", "false"} -> {p.test = "true"}
    [] p.test = "not" -> {~b : b \in UNION {Current[q] : q \in p.of}}
    [] p.test = "and" -> IF p.of # {} /\ \A q \in p.of : Current[q] # {}
                         THEN {\A q \in p.of : TRUE \in Current[q]} ELSE {}
    [] p.test = "or" -> IF p.of # {} /\ \A q \in p.of : Current[q] # {}
                        THEN {\E q \in p.of : TRUE \in Current[q]} ELSE {}
    [] p.test = "changed" -> IF p.of \cap Names = {} THEN {} ELSE {p.lasts}
    [] OTHER -> IF Defined({p.x, p.y}) THEN {Relates(p.test, Datum(p.x), Datum(p.y))} ELSE {}

\* If, Case and Switch ask for the value at this moment.
Holds(p) == TRUE \in Current[p]

-----------------------------------------------------------------------------
(* Updates *)

update == Head(Head(stack))
rest == Tail(Head(stack))

\* What the watches of the Values in `emitted' do, in the order of the watches.
Callbacks(emitted) ==
  LET of[i \in 0 .. Len(Watches)] ==
        IF i = 0 THEN <<>>
        ELSE IF Watches[i].of \cap emitted # {} /\ Watches[i].does # <<>>
        THEN Append(of[i - 1], Watches[i].does) ELSE of[i - 1]
  IN  of[Len(Watches)]

Frame(todo) == IF todo = <<>> THEN <<>> ELSE <<todo>>

BadProceedUnlessNested(todo) ==
  stack' = (IF Len(stack) > 1 THEN <<>> ELSE Callbacks(news')) \o Frame(todo) \o Tail(stack)

\* Those who watch what this step changed are called before `todo' goes on.
Proceed(todo) == stack' = Callbacks(news') \o Frame(todo) \o Tail(stack)

\* An update without effect on any Value.
Skip(todo) == news' = {} /\ Proceed(todo) /\ UNCHANGED <<held, twins>>

\* A watch catches what its callback throws; the code it interrupted goes on.
\* What an action throws ends the action.
Throw == news' = {} /\ stack' = Tail(stack) /\ UNCHANGED <<held, twins>>

Begin(a) ==
  /\ stack = <<>>
  /\ events < MaxEvents
  /\ events' = events + 1
  /\ stack' = <<Actions[a]>>
  /\ news' = {}
  /\ UNCHANGED <<held, twins>>

Running(ops) == stack # <<>> /\ update.op \in ops /\ UNCHANGED events

Do == Running({"do"}) /\ Skip(update.of \o rest)

If == Running({"if"}) /\ Skip((IF Holds(update.pred) THEN update.then ELSE update.else) \o rest)

\* The first case whose predicate holds; a Case by itself is a switch of one.
Switch ==
  /\ Running({"switch"})
  /\ LET true == {i \in DOMAIN update.cases : Holds(update.cases[i].pred)}
     IN  \/ /\ true = {}
            /\ Skip(rest)
         \/ \E i \in true : /\ \A j \in true : i <= j
                            /\ Skip(update.cases[i].of \o rest)

\* Clear goes through its references and returns at the first undefined one.
Clear ==
  /\ Running({"clear"})
  /\ IF update.of = <<>> \/ Head(update.of) \notin Names
     THEN Skip(rest)
     ELSE IF ~Accepts(KindOf[Head(update.of)], EmptyValue) THEN Throw
     ELSE /\ FoldInto(Head(update.of), Empty, {}, TRUE, FALSE)
          /\ Proceed(<<[update EXCEPT !.of = Tail(update.of)]>> \o rest)

\* Set, Toggle, SetOrClear, Extend and SetIfEmpty differ in how they fold.
Folding ==
  LET to == update.to from == update.from
      idle == \/ ~Defined({to, from})
              \/ update.op = "setIfEmpty" /\ Compare(Datum(to), Empty) # 0
  IN  /\ Running({"set", "toggle", "setOrClear", "extend", "setIfEmpty"})
      /\ IF idle THEN Skip(rest)
         ELSE IF ~Accepts(KindOf[to], KindOf[from]) THEN Throw
         ELSE /\ FoldInto(to, Datum(from), twins[from],
                          update.op \in {"set", "setOrClear", "setIfEmpty"},
                          update.op \in {"toggle", "setOrClear"})
              /\ Proceed(rest)

\* Swap folds twice; what the first fold calls runs in between.
Swap ==
  LET to == update.to from == update.from
  IN  /\ Running({"swap"})
      /\ IF ~Defined({to, from}) THEN Skip(rest)
         ELSE IF ~Accepts(KindOf[to], KindOf[from]) THEN Throw
         ELSE /\ FoldInto(to, Datum(from), twins[from], TRUE, FALSE)
              /\ Proceed(<<[op |-> "swapBack", to |-> from, temp |-> ThereAndBack(Datum(to))]>> \o rest)

SwapBack ==
  /\ Running({"swapBack"})
  /\ IF ~Accepts(KindOf[update.to], update.temp.kind) THEN Throw
     ELSE FoldInto(update.to, update.temp, {}, TRUE, FALSE) /\ Proceed(rest)

IsList(ref) == ref \in Names /\ KindOf[ref].shape = "list"

PopLeft ==
  /\ Running({"popLeft"})
  /\ IF ~IsList(update.to) THEN Throw
     ELSE /\ Store(update.to, SubSeq(held[update.to], 2, Len(held[update.to])), {})
          /\ Proceed(rest)

\* The first reference is the list; the others go, in their order, before it.
PushLeft ==
  LET to == update.to
      fits(ref) == ref \in Names /\ KindOf[ref].family = KindOf[to].family /\ KindOf[ref].shape # "set"
  IN  /\ Running({"pushLeft"})
      /\ IF ~IsList(to) \/ \E i \in DOMAIN update.of : ~fits(update.of[i]) THEN Throw
         ELSE LET pushed[i \in 0 .. Len(update.of)] ==
                    IF i = 0 THEN <<>> ELSE pushed[i - 1] \o AsList(Datum(update.of[i]))
              IN  Store(to, pushed[Len(update.of)] \o held[to], {}) /\ Proceed(rest)

Step == \/ Do \/ If \/ Switch \/ Clear \/ Folding \/ Swap \/ SwapBack \/ PopLeft \/ PushLeft

Next == Step \/ \E a \in DOMAIN Actions : Begin(a)

Spec == Init /\ [][Next]_interactionVars /\ WF_interactionVars(Step)

-----------------------------------------------------------------------------
(* Properties *)

\* Sharing a Set object is an equivalence, and who shares one holds the same set.
SharersAgree ==
  \A n \in Names : /\ n \in twins[n]
                    /\ \A m \in twins[n] : twins[m] = twins[n] /\ held[m] = held[n]

(***************************************************************************)
(* A Value that changes and tells nobody is a set that `extend' added to,  *)
(* or that shares its Set object with such a one.                          *)
(***************************************************************************)
OnlyExtendIsSilent ==
  [][\A n \in Names : held'[n] # held[n] /\ n \notin news' =>
       update.op = "extend" /\ n \in twins[update.to]]_interactionVars

(***************************************************************************)
(* Two scalars or lists of one class whose watches set each from the other *)
(* agree whenever no callback runs, whichever of them was changed, and     *)
(* however deep in other callbacks.                                        *)
(***************************************************************************)
Sets(to, from) == <<[op |-> "set", to |-> to, from |-> from]>>
Follows(to, from) == \E w \in Elements(Watches) : from \in w.of /\ w.does = Sets(to, from)
MirrorsAgree ==
  stack = <<>> =>
    \A a, b \in Names :
      /\ KindOf[a] = KindOf[b] /\ KindOf[a].shape \in {"scalar", "list"}
      /\ Follows(a, b) /\ Follows(b, a)
      => held[a] = held[b]

\* Watches that set each other's Values come to an end, and so does each action.
UpdatesEnd == (stack # <<>>) ~> (stack = <<>>)
=============================================================================
