-------------------------- MODULE InteractionsProofs --------------------------
(***************************************************************************)
(* Proofs about the interactions of any tool: who shares a Set object      *)
(* holds the same set, the only change of a Value of which nobody is told  *)
(* is that of a set which is extended, Values that mirror each other agree *)
(* once no callback runs, and what changes is fetched.                     *)
(***************************************************************************)
EXTENDS FilterFetch, Inductions

\* Toggling a datum in a set and then again changes nothing (foldSet).
LEMMA ToggledTwice ==
  ASSUME NEW mine, NEW other
  PROVE  FoldSet(FoldSet(mine, other, FALSE, TRUE), other, FALSE, TRUE) = mine
BY DEF FoldSet

\* Replacing a set does not look at what it was, unless it toggles (foldSet).
LEMMA Replaced ==
  ASSUME NEW mine, NEW other, NEW toggle \in BOOLEAN, ~(toggle /\ mine = other)
  PROVE  FoldSet(mine, other, TRUE, toggle) = other
BY DEF FoldSet

-----------------------------------------------------------------------------
\* Only sets share objects.
SharersAreSets ==
  \A n \in Names : \A m \in twins[n] : m = n \/ (KindOf[n].shape = "set" /\ KindOf[m].shape = "set")

IInv ==
  /\ DOMAIN held = Names
  /\ twins \in [Names -> SUBSET Names]
  /\ SharersAgree
  /\ SharersAreSets

\* The object a Value is given is one whose sharers hold what it takes on.
LEMMA StoreShares ==
  ASSUME IInv, NEW n \in Names, NEW new, NEW others \in SUBSET Names, Store(n, new, others),
         \A m \in others : twins[m] = others /\ held[m] = new,
         \A m \in others : KindOf[n].shape = "set" /\ KindOf[m].shape = "set"
  PROVE  IInv'
<1>1. CASE new = held[n]
  BY <1>1 DEF IInv, Store, SharersAgree, SharersAreSets
<1>2. CASE new # held[n]
  <2>1. held' = [held EXCEPT ![n] = new] /\ Regroup(n, others) /\ n \notin others
    BY <1>2 DEF Store
  <2>2. DOMAIN held' = Names /\ \A m \in Names : held'[m] = IF m = n THEN new ELSE held[m]
    BY <2>1 DEF IInv
  <2>3. twins' \in [Names -> SUBSET Names]
    BY <2>1 DEF Regroup, IInv
  <2>4. /\ twins'[n] = others \cup {n}
        /\ \A m \in others : twins'[m] = others \cup {n}
        /\ \A m \in Names \ (others \cup {n}) : twins'[m] = twins[m] \ {n}
    BY <2>1 DEF Regroup
  <2>5. ASSUME NEW a \in Names
        PROVE  a \in twins'[a] /\ \A m \in twins'[a] : twins'[m] = twins'[a] /\ held'[m] = held'[a]
    <3>1. CASE a \in others \cup {n}
      <4>1. twins'[a] = others \cup {n} /\ \A m \in others \cup {n} : twins'[m] = others \cup {n}
        BY <3>1, <2>4
      <4>2. \A m \in others \cup {n} : held'[m] = new
        BY <2>2
      <4>3. QED  BY <3>1, <4>1, <4>2
    <3>2. CASE a \notin others \cup {n}
      <4>1. \A m \in twins[a] : m \in Names /\ m \notin others /\ twins[m] = twins[a]
        BY <3>2 DEF IInv, SharersAgree
      <4>2. twins'[a] = twins[a] \ {n}
        BY <3>2, <2>4
      <4>3. ASSUME NEW m \in twins'[a]
            PROVE  twins'[m] = twins'[a] /\ held'[m] = held'[a]
        <5>1. m \in Names /\ m \notin others /\ twins[m] = twins[a] /\ m # n
          BY <4>1, <4>2
        <5>2. twins'[m] = twins[m] \ {n}
          BY <5>1, <2>4
        <5>3. held'[m] = held[m] /\ held'[a] = held[a]
          BY <5>1, <3>2, <2>2
        <5>4. held[m] = held[a]
          BY <4>2 DEF IInv, SharersAgree
        <5>5. QED  BY <5>1, <5>2, <5>3, <5>4, <4>2
      <4>4. QED  BY <3>2, <4>2, <4>3 DEF IInv, SharersAgree
    <3>3. QED  BY <3>1, <3>2
  <2>6. SharersAreSets'
    <3>1. \A m \in others \cup {n} : m = n \/ (KindOf[n].shape = "set" /\ KindOf[m].shape = "set")
      OBVIOUS
    <3>2. ASSUME NEW a \in Names, NEW m \in twins'[a]
          PROVE  m = a \/ (KindOf[a].shape = "set" /\ KindOf[m].shape = "set")
      <4>1. CASE a \in others \cup {n}
        BY <4>1, <3>1, <3>2, <2>4
      <4>2. CASE a \notin others \cup {n}
        BY <4>2, <3>2, <2>4 DEF SharersAreSets, IInv
      <4>3. QED  BY <4>1, <4>2
    <3>3. QED  BY <3>2 DEF SharersAreSets
  <2>7. QED  BY <2>2, <2>3, <2>5, <2>6 DEF IInv, SharersAgree
<1>3. QED  BY <1>1, <1>2

\* Whoever shares the object that is added to changes with it.
LEMMA AddShares ==
  ASSUME IInv, NEW n \in Names, NEW new, AddInPlace(n, new)
  PROVE  IInv'
<1>1. twins' = twins /\ \A m \in Names : held'[m] = IF m \in twins[n] THEN new ELSE held[m]
  BY DEF AddInPlace
<1>2. DOMAIN held' = Names
  BY DEF AddInPlace
<1>3. \A a, m \in Names : m \in twins[a] => (m \in twins[n] <=> a \in twins[n])
  BY DEF IInv, SharersAgree
<1>4. QED  BY <1>1, <1>2, <1>3 DEF IInv, SharersAgree, SharersAreSets

\* Folding a Value into another, whether or not it hands over its object.
LEMMA FoldShares ==
  ASSUME IInv, NEW n \in Names, NEW v, NEW others \in SUBSET Names,
         NEW replace \in BOOLEAN, NEW toggle \in BOOLEAN,
         FoldInto(n, v, others, replace, toggle),
         \A m \in others : twins[m] = others /\ held[m] = v.data,
         v.kind.shape = "set" => \A m \in others : KindOf[m].shape = "set"
  PROVE  IInv'
<1> DEFINE new == Fold(KindOf[n], held[n], v, replace, toggle)
           given == IF replace /\ TakesObject(n, v, toggle) THEN others ELSE {}
<1>1. AddInPlace(n, new) \/ Store(n, new, given)
  BY DEF FoldInto
<1>2. CASE AddInPlace(n, new)
  BY <1>2, AddShares
<1>3. CASE Store(n, new, given)
  <2>1. given \in SUBSET Names
    OBVIOUS
  <2>2. \A m \in given : twins[m] = given /\ held[m] = new
    <3>1. SUFFICES ASSUME replace, TakesObject(n, v, toggle) PROVE new = v.data
      OBVIOUS
    <3>2. /\ v.kind # EmptyValue
          /\ KindOf[n].shape = "set" /\ v.kind.shape = "set"
          /\ ~(toggle /\ held[n] = v.data)
      BY <3>1 DEF TakesObject, EmptyValue
    <3>3. new = FoldSet(held[n], AsSet(v), replace, toggle)
      BY <3>2 DEF Fold
    <3>4. AsSet(v) = v.data
      BY <3>2 DEF AsSet
    <3>5. QED  BY <3>1, <3>2, <3>3, <3>4, Replaced
  <2>3. \A m \in given : KindOf[n].shape = "set" /\ KindOf[m].shape = "set"
    BY DEF TakesObject
  <2>4. QED  BY <1>3, <2>1, <2>2, <2>3, StoreShares
<1>4. QED  BY <1>1, <1>2, <1>3

-----------------------------------------------------------------------------
\* What OnlyExtendIsSilent says of a step, and that it is a set that changes.
Silence ==
  \A n \in Names : held'[n] # held[n] /\ n \notin news' =>
    update.op = "extend" /\ n \in twins[update.to] /\ KindOf[n].shape = "set"

\* The setter tells of whatever it changes.
LEMMA StoreTells ==
  ASSUME IInv, NEW n, NEW new, NEW others, Store(n, new, others)
  PROVE  \A m \in Names : held'[m] # held[m] => m \in news'
BY DEF IInv, Store

\* A fold that replaces or toggles goes through the setter.
LEMMA FoldTells ==
  ASSUME IInv, NEW n, NEW v, NEW others, NEW replace \in BOOLEAN, NEW toggle \in BOOLEAN,
         FoldInto(n, v, others, replace, toggle)
  PROVE  \A m \in Names : held'[m] # held[m] /\ m \notin news' =>
           ~replace /\ ~toggle /\ m \in twins[n] /\ KindOf[n].shape = "set"
<1> DEFINE new == Fold(KindOf[n], held[n], v, replace, toggle)
           given == IF replace /\ TakesObject(n, v, toggle) THEN others ELSE {}
<1>1. (AddInPlace(n, new) /\ ~replace /\ ~toggle /\ KindOf[n].shape = "set") \/ Store(n, new, given)
  BY DEF FoldInto
<1>2. CASE AddInPlace(n, new) /\ ~replace /\ ~toggle /\ KindOf[n].shape = "set"
  BY <1>2 DEF AddInPlace
<1>3. CASE Store(n, new, given)
  BY <1>3, StoreTells
<1>4. QED  BY <1>1, <1>2, <1>3

\* A step that leaves the Values alone.
LEMMA Idle ==
  ASSUME IInv, UNCHANGED <<held, twins>>
  PROVE  IInv' /\ Silence
BY DEF IInv, SharersAgree, SharersAreSets, Silence

\* A Value that is given data of its own, though it may not exist.
LEMMA OwnData ==
  ASSUME IInv, NEW n, NEW new, Store(n, new, {})
  PROVE  IInv' /\ Silence
<1>1. Silence
  BY StoreTells DEF Silence
<1>2. CASE n \in Names
  BY <1>1, <1>2, StoreShares
<1>3. CASE n \notin Names
  <2>1. DOMAIN held' = Names /\ \A m \in Names : held'[m] = held[m]
    BY <1>3 DEF Store, IInv
  <2>2. twins' \in [Names -> SUBSET Names] /\ \A m \in Names : twins'[m] = twins[m]
    <3>1. UNCHANGED twins \/ twins' = [m \in Names |-> IF m \in {n} THEN {n} ELSE twins[m] \ {n}]
      BY DEF Store, Regroup
    <3>2. \A m \in Names : m \notin {n} /\ twins[m] \ {n} = twins[m]
      BY <1>3 DEF IInv
    <3>3. UNCHANGED twins \/ twins' = [m \in Names |-> twins[m]]
      BY <3>1, <3>2
    <3>4. QED  BY <3>3 DEF IInv
  <2>3. QED  BY <1>1, <2>1, <2>2 DEF IInv, SharersAgree, SharersAreSets
<1>4. QED  BY <1>2, <1>3

\* A replacement by data nobody else holds.
LEMMA OwnFold ==
  ASSUME IInv, NEW n, NEW v, NEW toggle \in BOOLEAN, FoldInto(n, v, {}, TRUE, toggle)
  PROVE  IInv' /\ Silence
<1>1. PICK new : Store(n, new, {})
  BY DEF FoldInto
<1>2. QED  BY <1>1, OwnData

\* A fold of another Value.
LEMMA FoldOf ==
  ASSUME IInv, NEW n \in Names, NEW from \in Names,
         NEW replace \in BOOLEAN, NEW toggle \in BOOLEAN,
         FoldInto(n, Datum(from), twins[from], replace, toggle),
         ~replace /\ ~toggle => update.op = "extend" /\ n = update.to
  PROVE  IInv' /\ Silence
<1>1. Datum(from).data = held[from]
  BY DEF Datum
<1>2. twins[from] \in SUBSET Names /\ \A m \in twins[from] : twins[m] = twins[from] /\ held[m] = held[from]
  BY DEF IInv, SharersAgree
<1>3. Datum(from).kind.shape = "set" => \A m \in twins[from] : KindOf[m].shape = "set"
  BY DEF Datum, IInv, SharersAreSets
<1>4. IInv'
  BY <1>1, <1>2, <1>3, FoldShares
<1>5. Silence
  BY FoldTells DEF Silence, IInv, SharersAreSets
<1>6. QED  BY <1>4, <1>5

LEMMA StepKeeps ==
  ASSUME IInv, Step
  PROVE  IInv' /\ Silence
<1>1. CASE Do \/ If \/ Switch
  BY <1>1, Idle DEF Do, If, Switch, Skip
<1>2. CASE Clear
  <2>1. UNCHANGED <<held, twins>> \/ FoldInto(Head(update.of), Empty, {}, TRUE, FALSE)
    BY <1>2 DEF Clear, Skip, Throw
  <2>2. QED  BY <2>1, Idle, OwnFold
<1>3. CASE Folding
  <2> DEFINE replace == update.op \in {"set", "setOrClear", "setIfEmpty"}
             toggle == update.op \in {"toggle", "setOrClear"}
  <2>1. \/ UNCHANGED <<held, twins>>
        \/ /\ update.to \in Names /\ update.from \in Names
           /\ FoldInto(update.to, Datum(update.from), twins[update.from], replace, toggle)
    BY <1>3 DEF Folding, Skip, Throw, Defined
  <2>2. ~replace /\ ~toggle => update.op = "extend"
    BY <1>3 DEF Folding, Running
  <2>3. replace \in BOOLEAN /\ toggle \in BOOLEAN
    OBVIOUS
  <2>4. QED  BY <2>1, <2>2, <2>3, Idle, FoldOf
<1>4. CASE Swap
  <2>1. \/ UNCHANGED <<held, twins>>
        \/ /\ update.to \in Names /\ update.from \in Names
           /\ FoldInto(update.to, Datum(update.from), twins[update.from], TRUE, FALSE)
    BY <1>4 DEF Swap, Skip, Throw, Defined
  <2>2. QED  BY <2>1, Idle, FoldOf
<1>5. CASE SwapBack
  <2>1. UNCHANGED <<held, twins>> \/ FoldInto(update.to, update.temp, {}, TRUE, FALSE)
    BY <1>5 DEF SwapBack, Throw
  <2>2. QED  BY <2>1, Idle, OwnFold
<1>6. CASE PopLeft \/ PushLeft
  <2>1. UNCHANGED <<held, twins>> \/ \E new : Store(update.to, new, {})
    BY <1>6 DEF PopLeft, PushLeft, Throw
  <2>2. QED  BY <2>1, Idle, OwnData
<1>7. QED  BY <1>1, <1>2, <1>3, <1>4, <1>5, <1>6 DEF Step

LEMMA NextKeeps ==
  ASSUME IInv, Next
  PROVE  IInv' /\ Silence
<1>1. CASE Step
  BY <1>1, StepKeeps
<1>2. CASE \E a \in DOMAIN Actions : Begin(a)
  BY <1>2, Idle DEF Begin
<1>3. QED  BY <1>1, <1>2 DEF Next

\* The interactions of a tool, whatever else it does.
Interacts == Init /\ [][Next]_interactionVars

LEMMA Invariance == Interacts => []IInv
<1>1. Init => IInv
  <2>1. SUFFICES ASSUME Init PROVE IInv
    OBVIOUS
  <2>2. DOMAIN held = Names /\ twins \in [Names -> SUBSET Names] /\ \A n \in Names : twins[n] = {n}
    BY <2>1, StoreAssumption DEF Init
  <2>3. QED  BY <2>2 DEF IInv, SharersAgree, SharersAreSets
<1>2. IInv /\ [Next]_interactionVars => IInv'
  BY NextKeeps, Idle DEF interactionVars, storeVars
<1>3. QED  BY <1>1, <1>2, PTL DEF Interacts

\* Whose Set object is whose is an equivalence, and whoever shares one holds the
\* same set, whatever actions and watches a tool is configured with.
THEOREM Sharing == Spec => []SharersAgree
<1>1. IInv => SharersAgree
  BY DEF IInv
<1>2. QED  BY <1>1, Invariance, PTL DEF Spec, Interacts

\* Whatever actions and watches a tool is configured with, a Value changes without
\* telling its subscribers only where `extend' adds to a set that it shares.
THEOREM Silent == Spec => OnlyExtendIsSilent
<1>1. IInv /\ [Next]_interactionVars => [Silence]_interactionVars
  BY NextKeeps
<1>2. Spec => [][Silence]_interactionVars
  BY <1>1, Invariance, PTL DEF Spec, Interacts
<1>3. [Silence]_interactionVars =>
        [\A n \in Names : held'[n] # held[n] /\ n \notin news' =>
           update.op = "extend" /\ n \in twins[update.to]]_interactionVars
  BY DEF Silence
<1>4. QED  BY <1>2, <1>3, PTL DEF OnlyExtendIsSilent

-----------------------------------------------------------------------------
(***************************************************************************)
(* What Callbacks() computes: the callbacks of the watches of the Values   *)
(* that changed are among them.                                            *)
(***************************************************************************)
LEMMA CallbacksHave ==
  ASSUME NEW emitted
  PROVE  \E U : /\ Callbacks(emitted) \in Seq(U)
                /\ \A w \in Elements(Watches) :
                     w.of \cap emitted # {} /\ w.does # <<>> => w.does \in Elements(Callbacks(emitted))
<1> DEFINE n == Len(Watches)
           U == {w.does : w \in Elements(Watches)}
           called == {i \in 1 .. n : Watches[i].of \cap emitted # {} /\ Watches[i].does # <<>>}
           next == [i \in 1 .. n |-> [p \in Seq(U) |->
                      IF i \in called THEN Append(p, Watches[i].does) ELSE p]]
           At(f, i) == IF i = 0 THEN <<>>
                       ELSE IF Watches[i].of \cap emitted # {} /\ Watches[i].does # <<>>
                       THEN Append(f[i - 1], Watches[i].does) ELSE f[i - 1]
<1>1. n \in Nat /\ DOMAIN Watches = 1 .. n /\ \A i \in 1 .. n : Watches[i].does \in U
  BY StoreAssumption DEF Elements
<1>2. next \in [1 .. n -> [Seq(U) -> Seq(U)]] /\ <<>> \in Seq(U)
  BY <1>1
<1>3. PICK f \in [0 .. n -> Seq(U)] : f[0] = <<>> /\ \A i \in 1 .. n : f[i] = next[i][f[i - 1]]
  <2> DEFINE S == Seq(U)
             start == <<>>
  <2>1. n \in Nat /\ start \in S /\ next \in StepFunctions(n, S)
    BY <1>1, <1>2 DEF StepFunctions
  <2>2. \E f : f \in Runs(n, S, start, next)
    <3> HIDE DEF n, U, S, start, called, next, At
    <3>1. QED  BY <2>1, Recursion
  <2>3. QED  BY <2>2 DEF Runs
<1>4. ASSUME NEW i \in 1 .. n
      PROVE  f[i] = IF i \in called THEN Append(f[i - 1], Watches[i].does) ELSE f[i - 1]
  <2>1. f[i - 1] \in Seq(U)
    BY <1>1
  <2>2. f[i] = next[i][f[i - 1]]
    BY <1>3
  <2> HIDE DEF called
  <2>3. QED  BY <2>1, <2>2
<1>5. f = [i \in 0 .. n |-> At(f, i)]
  <2>1. ASSUME NEW i \in 0 .. n
        PROVE  f[i] = At(f, i)
    <3>1. CASE i = 0
      BY <1>3, <3>1
    <3>2. CASE i # 0
      <4>1. i \in 1 .. n
        BY <1>1, <3>2
      <4>2. f[i] = IF i \in called THEN Append(f[i - 1], Watches[i].does) ELSE f[i - 1]
        BY <1>4, <4>1
      <4> HIDE DEF n, U, next
      <4>3. QED  BY <3>2, <4>1, <4>2
    <3>3. QED  BY <3>1, <3>2
  <2> HIDE DEF At, n
  <2>2. QED  BY <2>1
<1>6. ASSUME NEW g, g = [i \in 0 .. n |-> At(g, i)]
      PROVE  g = f
  <2>1. g[0] = <<>>
    BY <1>1, <1>6
  <2>2. ASSUME NEW i \in 1 .. n, f[i - 1] = g[i - 1]
        PROVE  f[i] = g[i]
    <3>1. i \in 0 .. n /\ i # 0
      BY <1>1
    <3>2. g[i] = At(g, i)
      <4> HIDE DEF At, n
      <4>1. QED  BY <1>6, <3>1
    <3>3. f[i] = IF i \in called THEN Append(f[i - 1], Watches[i].does) ELSE f[i - 1]
      BY <1>4
    <3> HIDE DEF n, U, next
    <3>4. QED  BY <2>2, <3>1, <3>2, <3>3
  <2>3. g = [i \in 0 .. n |-> g[i]]
    <3> HIDE DEF At, n
    <3>1. QED  BY <1>6
  <2>4. f = [i \in 0 .. n |-> f[i]]
    OBVIOUS
  <2>5. n \in Nat /\ f[0] = g[0]
    BY <1>1, <1>3, <2>1
  <2> HIDE DEF n, U, called, next, At
  <2>6. QED  BY <2>2, <2>3, <2>4, <2>5, RecursionDetermines
<1>7. f = CHOOSE g : g = [i \in 0 .. n |-> At(g, i)]
  <2> HIDE DEF At, n
  <2>1. QED  BY <1>5, <1>6
<1>8. Callbacks(emitted) = f[n]
  BY <1>7 DEF Callbacks
<1>9. \A i \in 1 .. n : i \in called => Watches[i].does \in Elements(f[n])
  <2> HIDE DEF n, U, called, next, At
  <2> DEFINE T == {m \in 0 .. n : \A i \in 1 .. m : i \in called => Watches[i].does \in Elements(f[m])}
  <2>1. 0 \in T
    BY <1>1
  <2>2. ASSUME NEW m \in 0 .. n - 1, m \in T
        PROVE  m + 1 \in T
    <3>1. m + 1 \in 1 .. n /\ (m + 1) - 1 = m
      BY <1>1
    <3>2. f[m + 1] = IF m + 1 \in called THEN Append(f[m], Watches[m + 1].does) ELSE f[m]
      BY <1>4, <3>1
    <3>3. f[m] \in Seq(U) /\ Watches[m + 1].does \in U
      BY <1>1, <3>1
    <3>4. Elements(f[m]) \subseteq Elements(f[m + 1])
      BY <3>2, <3>3 DEF Elements
    <3>5. m + 1 \in called => Watches[m + 1].does \in Elements(f[m + 1])
      BY <3>2, <3>3 DEF Elements
    <3>6. QED  BY <1>1, <2>2, <3>1, <3>4, <3>5
  <2>3. n \in T
    <3> HIDE DEF T
    <3>1. QED  BY <1>1, <2>1, <2>2, Induction
  <2>4. QED  BY <2>3
<1>10. QED
  <2>1. Callbacks(emitted) \in Seq(U)
    BY <1>1, <1>8
  <2>2. ASSUME NEW w \in Elements(Watches), w.of \cap emitted # {}, w.does # <<>>
        PROVE  w.does \in Elements(Callbacks(emitted))
    <3>1. PICK i \in 1 .. n : w = Watches[i]
      BY <1>1 DEF Elements
    <3>2. QED  BY <2>2, <3>1, <1>8, <1>9
  <2>3. QED  BY <2>1, <2>2

-----------------------------------------------------------------------------
(* Mirrors *)

IsSeq(s) == s \in Seq(Elements(s))

LEMMA ElementsType ==
  ASSUME NEW S, NEW s \in Seq(S)
  PROVE  IsSeq(s)
BY DEF Elements, IsSeq

LEMMA Concatenation ==
  ASSUME NEW s, NEW t, IsSeq(s), IsSeq(t)
  PROVE  IsSeq(s \o t) /\ Elements(s \o t) = Elements(s) \cup Elements(t)
<1> DEFINE A == Elements(s)
           B == Elements(t)
<1>0. s \in Seq(A) /\ t \in Seq(B)
  BY DEF IsSeq
<1> HIDE DEF A, B
<1>1. Len(s) \in Nat /\ Len(t) \in Nat /\ DOMAIN s = 1 .. Len(s) /\ DOMAIN t = 1 .. Len(t)
  BY <1>0
<1>2. s \in Seq(A \cup B) /\ t \in Seq(A \cup B)
  BY <1>0
<1>3. s \o t \in Seq(A \cup B) /\ DOMAIN (s \o t) = 1 .. Len(s) + Len(t)
  BY <1>1, <1>2
<1>4. \A i \in 1 .. Len(s) : (s \o t)[i] = s[i]
  BY <1>1, <1>2
<1>5. ASSUME NEW i \in 1 .. Len(t)
      PROVE  Len(s) + i \in DOMAIN (s \o t) /\ (s \o t)[Len(s) + i] = t[i]
  BY <1>1, <1>2, <1>3
<1>6. ASSUME NEW i \in DOMAIN (s \o t)
      PROVE  (s \o t)[i] \in Elements(s) \cup Elements(t)
  <2>1. CASE i <= Len(s)
    BY <1>1, <1>3, <1>4, <2>1 DEF Elements
  <2>2. CASE ~ (i <= Len(s))
    <3>1. i - Len(s) \in 1 .. Len(t) /\ Len(s) + (i - Len(s)) = i
      BY <1>1, <1>3, <2>2
    <3>2. (s \o t)[i] = t[i - Len(s)]
      BY <1>5, <3>1
    <3>3. QED  BY <1>1, <3>1, <3>2 DEF Elements
  <2>3. QED  BY <2>1, <2>2
<1>7. \A i \in 1 .. Len(s) : i \in DOMAIN (s \o t)
  BY <1>1, <1>3
<1>8. Elements(s) \cup Elements(t) \subseteq Elements(s \o t)
  BY <1>1, <1>4, <1>5, <1>7 DEF Elements
<1>9. Elements(s \o t) \subseteq Elements(s) \cup Elements(t)
  BY <1>6 DEF Elements
<1>10. QED  BY <1>3, <1>8, <1>9, ElementsType

\* A step goes on with the callbacks of those who were told and what was yet to
\* run, or, if it throws, changes nothing and goes on with the latter alone.
LEMMA StepProceeds ==
  ASSUME Step
  PROVE  /\ stack # <<>>
         /\ (UNCHANGED held /\ stack' = Tail(stack)) \/ \E todo : Proceed(todo)
         /\ update.op = "set" => Folding
<1>1. CASE Do \/ If
  BY <1>1 DEF Do, If, Running, Skip
<1>2. CASE Switch
  BY <1>2 DEF Switch, Running, Skip
<1>3. CASE Clear
  BY <1>3 DEF Clear, Running, Skip, Throw
<1>4. CASE Folding
  BY <1>4 DEF Folding, Running, Skip, Throw
<1>5. CASE Swap \/ SwapBack
  BY <1>5 DEF Swap, SwapBack, Running, Skip, Throw
<1>6. CASE PopLeft \/ PushLeft
  BY <1>6 DEF PopLeft, PushLeft, Running, Throw
<1>7. QED  BY <1>1, <1>2, <1>3, <1>4, <1>5, <1>6 DEF Step

Mirrors(a, b) ==
  /\ KindOf[a] = KindOf[b] /\ KindOf[a].shape \in {"scalar", "list"}
  /\ Follows(a, b) /\ Follows(b, a)

\* Two mirrors that differ wait for a callback that sets one from the other.
MirrorInv ==
  /\ IsSeq(stack)
  /\ \A a, b \in Names : Mirrors(a, b) =>
       held[a] = held[b] \/ Sets(a, b) \in Elements(stack) \/ Sets(b, a) \in Elements(stack)

\* What sets one mirror from the other makes them equal.
LEMMA MirrorSet ==
  ASSUME IInv, Step, NEW a \in Names, NEW b \in Names, Mirrors(a, b), Head(stack) = Sets(a, b)
  PROVE  held'[a] = held'[b]
<1>1. update = [op |-> "set", to |-> a, from |-> b]
  BY DEF Sets, update
<1>2. Folding
  BY <1>1, StepProceeds
<1>3. KindOf[a] # EmptyValue /\ Accepts(KindOf[a], KindOf[b])
  BY DEF Mirrors, Accepts, EmptyValue
<1>4. FoldInto(a, Datum(b), twins[b], TRUE, FALSE)
  <2>1. update.op = "set" /\ update.to = a /\ update.from = b
    BY <1>1
  <2> DEFINE replace == update.op \in {"set", "setOrClear", "setIfEmpty"}
             toggle == update.op \in {"toggle", "setOrClear"}
  <2>2. FoldInto(a, Datum(b), twins[b], replace, toggle)
    BY <1>2, <1>3, <2>1 DEF Folding, Defined
  <2>3. replace = TRUE /\ toggle = FALSE
    BY <2>1
  <2>4. QED  BY <2>2, <2>3
<1>5. Fold(KindOf[a], held[a], Datum(b), TRUE, FALSE) = held[b]
  BY <1>3 DEF Mirrors, Fold, FoldScalar, FoldList, AsList, Datum
<1>6. PICK others : Store(a, held[b], others)
  BY <1>4, <1>5 DEF FoldInto
<1>7. QED  BY <1>6 DEF Store, IInv

LEMMA HeadAndTail ==
  ASSUME NEW s, IsSeq(s), s # <<>>
  PROVE  /\ Head(s) \in Elements(s) /\ IsSeq(Tail(s))
         /\ Elements(s) = {Head(s)} \cup Elements(Tail(s))
<1> DEFINE S == Elements(s)
<1>0. s \in Seq(S)
  BY DEF IsSeq
<1> HIDE DEF S
<1>1. Len(s) \in Nat \ {0} /\ DOMAIN s = 1 .. Len(s) /\ Head(s) = s[1]
  BY <1>0
<1>2. /\ Tail(s) \in Seq(S) /\ DOMAIN Tail(s) = 1 .. Len(s) - 1 /\ Len(Tail(s)) = Len(s) - 1
      /\ \A i \in 1 .. Len(s) - 1 : Tail(s)[i] = s[i + 1]
  BY <1>0, <1>1
<1>3. ASSUME NEW i \in DOMAIN s
      PROVE  s[i] \in {Head(s)} \cup Elements(Tail(s))
  <2>1. CASE i = 1
    BY <1>1, <2>1
  <2>2. CASE i # 1
    <3>1. i - 1 \in 1 .. Len(s) - 1 /\ (i - 1) + 1 = i
      BY <1>1, <2>2
    <3>2. s[i] = Tail(s)[i - 1]
      BY <1>2, <3>1
    <3>3. QED  BY <1>2, <3>1, <3>2 DEF Elements
  <2>3. QED  BY <2>1, <2>2
<1>4. \A i \in 1 .. Len(s) - 1 : Tail(s)[i] \in Elements(s)
  BY <1>1, <1>2 DEF Elements
<1>5. IsSeq(Tail(s))
  BY <1>2, ElementsType
<1>6. Elements(Tail(s)) \subseteq Elements(s)
  BY <1>2, <1>4 DEF Elements
<1>7. Head(s) \in Elements(s)
  BY <1>1 DEF Elements
<1>8. Elements(s) \subseteq {Head(s)} \cup Elements(Tail(s))
  BY <1>3 DEF Elements
<1>9. QED  BY <1>5, <1>6, <1>7, <1>8

\* What Proceed() puts on the stack, and what it leaves there.
LEMMA ProceedKeeps ==
  ASSUME IsSeq(Tail(stack)), NEW todo, Proceed(todo)
  PROVE  /\ IsSeq(stack')
         /\ Elements(Tail(stack)) \subseteq Elements(stack')
         /\ \A w \in Elements(Watches) :
              w.of \cap news' # {} /\ w.does # <<>> => w.does \in Elements(stack')
<1> DEFINE called == Callbacks(news')
<1>1. /\ IsSeq(called)
      /\ \A w \in Elements(Watches) :
           w.of \cap news' # {} /\ w.does # <<>> => w.does \in Elements(called)
  BY CallbacksHave, ElementsType
<1>2. IsSeq(Frame(todo))
  <2>1. IsSeq(<<>>) /\ IsSeq(<<todo>>)
    BY DEF IsSeq, Elements
  <2>2. QED  BY <2>1 DEF Frame
<1>3. stack' = (called \o Frame(todo)) \o Tail(stack)
  <2>1. stack' = called \o Frame(todo) \o Tail(stack)
    BY DEF Proceed
  <2>2. QED  BY <2>1
<1> HIDE DEF called
<1>4. /\ IsSeq(called \o Frame(todo))
      /\ Elements(called \o Frame(todo)) = Elements(called) \cup Elements(Frame(todo))
  BY <1>1, <1>2, Concatenation
<1>5. /\ IsSeq(stack')
      /\ Elements(stack') = Elements(called \o Frame(todo)) \cup Elements(Tail(stack))
  BY <1>3, <1>4, Concatenation
<1>6. QED  BY <1>1, <1>4, <1>5

LEMMA MirrorStep ==
  ASSUME IInv, MirrorInv, Step
  PROVE  MirrorInv'
<1>1. IsSeq(stack) /\ stack # <<>>
  BY StepProceeds DEF MirrorInv
<1>2. /\ Head(stack) \in Elements(stack) /\ IsSeq(Tail(stack))
      /\ Elements(stack) = {Head(stack)} \cup Elements(Tail(stack))
  BY <1>1, HeadAndTail
<1>3. /\ IsSeq(stack')
      /\ Elements(Tail(stack)) \subseteq Elements(stack')
      /\ \A w \in Elements(Watches) :
           w.of \cap news' # {} /\ w.does # <<>> /\ held' # held => w.does \in Elements(stack')
  <2>1. CASE UNCHANGED held /\ stack' = Tail(stack)
    BY <1>2, <2>1
  <2>2. CASE \E todo : Proceed(todo)
    BY <1>2, <2>2, ProceedKeeps
  <2>3. QED  BY <2>1, <2>2, StepProceeds
<1>4. ASSUME NEW a \in Names, NEW b \in Names, Mirrors(a, b), held'[a] # held[a]
      PROVE  Sets(b, a) \in Elements(stack')
  <2>1. KindOf[a].shape # "set"
    BY <1>4 DEF Mirrors
  <2>2. a \in news'
    BY <1>4, <2>1, StepKeeps DEF Silence
  <2>3. PICK w \in Elements(Watches) : a \in w.of /\ w.does = Sets(b, a)
    BY <1>4 DEF Mirrors, Follows
  <2>4. Sets(b, a) # <<>>
    BY DEF Sets
  <2>5. QED  BY <1>3, <1>4, <2>2, <2>3, <2>4
<1>5. ASSUME NEW a \in Names, NEW b \in Names, Mirrors(a, b),
             Sets(a, b) \in Elements(stack)
      PROVE  held'[a] = held'[b] \/ Sets(a, b) \in Elements(stack')
  <2>1. CASE Sets(a, b) = Head(stack)
    BY <1>5, <2>1, MirrorSet
  <2>2. CASE Sets(a, b) # Head(stack)
    BY <1>2, <1>3, <1>5, <2>2
  <2>3. QED  BY <2>1, <2>2
<1>6. ASSUME NEW a \in Names, NEW b \in Names, Mirrors(a, b)
      PROVE  held'[a] = held'[b] \/ Sets(a, b) \in Elements(stack') \/ Sets(b, a) \in Elements(stack')
  <2>1. Mirrors(b, a)
    BY <1>6 DEF Mirrors
  <2>2. CASE held'[a] # held[a]
    BY <1>4, <1>6, <2>2
  <2>3. CASE held'[b] # held[b]
    BY <1>4, <2>1, <2>3
  <2>4. CASE held'[a] = held[a] /\ held'[b] = held[b]
    BY <1>5, <1>6, <2>1, <2>4 DEF MirrorInv
  <2>5. QED  BY <2>2, <2>3, <2>4
<1>7. QED  BY <1>3, <1>6 DEF MirrorInv, Mirrors, Follows

LEMMA MirrorsKept ==
  ASSUME IInv, MirrorInv, [Next]_interactionVars
  PROVE  MirrorInv'
<1>1. CASE Step
  BY <1>1, MirrorStep
<1>2. ASSUME NEW a \in DOMAIN Actions, Begin(a)
      PROVE  MirrorInv'
  <2>1. stack = <<>> /\ stack' = <<Actions[a]>> /\ held' = held
    BY <1>2 DEF Begin
  <2>2. Elements(stack) = {} /\ IsSeq(stack')
    BY <2>1 DEF Elements, IsSeq
  <2>3. QED  BY <2>1, <2>2 DEF MirrorInv, Mirrors, Follows, Sets
<1>3. CASE UNCHANGED interactionVars
  BY <1>3 DEF interactionVars, storeVars, MirrorInv, Mirrors, Follows, Sets, IsSeq
<1>4. QED  BY <1>1, <1>2, <1>3 DEF Next

\* A tool is configured so that mirrors begin alike.
MirrorsAlikeAtFirst == \A a, b \in Names : Mirrors(a, b) => First[a] = First[b]

LEMMA MirrorInvariance ==
  ASSUME MirrorsAlikeAtFirst
  PROVE  Interacts => []MirrorsAgree
<1>1. Init => MirrorInv
  BY DEF Init, MirrorInv, MirrorsAlikeAtFirst, IsSeq, Elements
<1>2. IInv /\ MirrorInv /\ [Next]_interactionVars => MirrorInv'
  BY MirrorsKept
<1>3. MirrorInv => MirrorsAgree
  <2>1. stack = <<>> => Elements(stack) = {}
    BY DEF Elements
  <2>2. QED  BY <2>1 DEF MirrorInv, MirrorsAgree, Mirrors
<1>4. QED  BY <1>1, <1>2, <1>3, Invariance, PTL DEF Interacts

\* Whatever else its watches do, scalars and lists that watch and set each other
\* hold the same whenever no callback runs.
THEOREM MirrorsInStep ==
  ASSUME MirrorsAlikeAtFirst
  PROVE  Spec => []MirrorsAgree
<1>1. Interacts => []MirrorsAgree
  BY MirrorInvariance
<1>2. QED  BY <1>1, PTL DEF Spec, Interacts

-----------------------------------------------------------------------------
(* Fetching what changes *)

\* A predicate that is true waits for the end of its interval; what is not fetched
\* yet waits for the DataQuery to send, unless the last request came too early.
FetchInv ==
  /\ {changed, unfetched, early} \subseteq BOOLEAN
  /\ {sinceMs, debounceMs} \subseteq Nat
  /\ {quiet, pending} \subseteq Nat \cup {Off}
  /\ changed <=> quiet # Off
  /\ ~unfetched => \A p \in Parameters : KindOf[p].shape # "set" => carried[p] = held[p]
  /\ (changed \/ unfetched) /\ ~early => pending # Off
  /\ sinceMs = 0 /\ debounceMs > 0 => ~early /\ (changed => quiet = 0 /\ pending # 0)

\* The composition does with the Values what a tool does with them.
LEMMA FetchInteracts ==
  ASSUME [NextFetch]_vars
  PROVE  [Next]_interactionVars
BY DEF NextFetch, vars, Quiet, Send, Tick

LEMMA ReactKeeps ==
  ASSUME IInv, FetchInv, Next, React
  PROVE  FetchInv'
<1>1. Silence
  BY NextKeeps
<1>2. \A p \in Parameters : p \in Names
  BY FetchAssumption
<1>3. CASE news' \cap Parameters = {}
  <2>1. UNCHANGED fetchVars
    BY <1>3 DEF React
  <2>2. \A p \in Parameters : KindOf[p].shape # "set" => held'[p] = held[p]
    BY <1>1, <1>2, <1>3 DEF Silence
  <2>3. QED  BY <2>1, <2>2 DEF FetchInv, fetchVars, timings
<1>4. CASE news' \cap Parameters # {}
  <2>1. Ask /\ changed' = TRUE /\ quiet' = sinceMs /\ sinceMs' = sinceMs /\ debounceMs' = debounceMs
    BY <1>4 DEF React, timings
  <2>2. CASE changed
    BY <2>1, <2>2 DEF Ask, FetchInv, Off
  <2>3. CASE ~changed /\ debounceMs > 0
    <3>1. unfetched' = TRUE /\ early' = FALSE /\ pending' = debounceMs
      BY <2>1, <2>3 DEF Ask
    <3>2. sinceMs \in Nat /\ debounceMs \in Nat /\ debounceMs # Off /\ sinceMs # Off
      BY DEF FetchInv, Off
    <3>3. sinceMs' = 0 /\ debounceMs' > 0 => quiet' = 0 /\ pending' # 0
      BY <2>1, <3>1, <3>2
    <3> HIDE DEF Off
    <3>4. QED  BY <2>1, <3>1, <3>2, <3>3 DEF FetchInv
  <2>4. CASE ~changed /\ debounceMs = 0
    <3>1. /\ unfetched' = FALSE /\ early' = TRUE /\ pending' = pending
          /\ \A p \in Parameters : carried'[p] = held'[p]
      BY <2>1, <2>4 DEF Ask
    <3>2. sinceMs \in Nat /\ debounceMs \in Nat /\ sinceMs # Off /\ ~ (debounceMs' > 0)
      BY <2>1, <2>4 DEF FetchInv, Off
    <3> HIDE DEF Off
    <3>3. QED  BY <2>1, <3>1, <3>2 DEF FetchInv
  <2>5. QED  BY <2>2, <2>3, <2>4 DEF FetchInv
<1>5. QED  BY <1>3, <1>4

LEMMA FetchKept ==
  ASSUME IInv, FetchInv, [NextFetch]_vars
  PROVE  FetchInv'
<1>1. CASE Next /\ React
  BY <1>1, ReactKeeps
<1>2. CASE Quiet
  BY <1>2 DEF Quiet, FetchInv, interactionVars, storeVars, timings, Off
<1>3. CASE Send
  BY <1>3 DEF Send, FetchInv, interactionVars, storeVars, timings, Off
<1>4. CASE Tick
  BY <1>4 DEF Tick, Earlier, FetchInv, interactionVars, storeVars, timings, Off
<1>5. CASE UNCHANGED vars
  BY <1>5 DEF FetchInv, vars, interactionVars, storeVars, fetchVars, timings
<1>6. QED  BY <1>1, <1>2, <1>3, <1>4, <1>5 DEF NextFetch

\* However long the intervals are, and however changes, callbacks and timers fall
\* together: once all is at rest the last request carried every change of a
\* parameter, unless it was sent while the predicate was still true; and with a
\* DataQuery that waits and a predicate that is true for a moment only it never is.
THEOREM ChangesAreCarried == FetchSpec => []RequestsCarryChanges
<1>1. ASSUME InitFetch
      PROVE  FetchInv
  <2>1. /\ sinceMs \in Nat /\ debounceMs \in Nat /\ sinceMs # Off /\ debounceMs # Off
        /\ changed = TRUE /\ quiet = sinceMs
        /\ \A p \in Parameters : carried[p] = held[p]
    BY <1>1, FetchAssumption DEF InitFetch, Init, Off
  <2>2. CASE debounceMs > 0
    <3>1. unfetched = TRUE /\ early = FALSE /\ pending = debounceMs
      <4>1. (debounceMs > 0) = TRUE /\ (debounceMs = 0) = FALSE
        BY <2>1, <2>2
      <4>2. QED  BY <1>1, <4>1, Zenon DEF InitFetch
    <3>2. sinceMs = 0 /\ debounceMs > 0 => quiet = 0 /\ pending # 0
      BY <2>1, <3>1
    <3> HIDE DEF Off
    <3>3. QED  BY <2>1, <3>1, <3>2 DEF FetchInv
  <2>3. CASE ~ (debounceMs > 0)
    <3>1. unfetched = FALSE /\ early = TRUE /\ pending = Off
      <4>1. (debounceMs > 0) = FALSE /\ (debounceMs = 0) = TRUE
        BY <2>1, <2>3
      <4>2. QED  BY <1>1, <4>1, Zenon DEF InitFetch
    <3> HIDE DEF Off
    <3>2. QED  BY <2>1, <2>3, <3>1 DEF FetchInv
  <2>4. QED  BY <2>2, <2>3
<1>2. IInv /\ FetchInv /\ [NextFetch]_vars => FetchInv'
  BY FetchKept
<1>3. InitFetch => Init
  BY DEF InitFetch
<1>4. [NextFetch]_vars => [Next]_interactionVars
  BY FetchInteracts
<1>5. FetchInv => RequestsCarryChanges
  BY DEF FetchInv, RequestsCarryChanges, AtRest
<1>6. QED  BY <1>1, <1>2, <1>3, <1>4, <1>5, Invariance, PTL DEF FetchSpec, Interacts

\* The composition with a query disturbs neither the mirrors nor the shared sets.
THEOREM FetchKeepsMirrors ==
  ASSUME MirrorsAlikeAtFirst
  PROVE  FetchSpec => [](MirrorsAgree /\ SharersAgree)
<1>1. InitFetch => Init
  BY DEF InitFetch
<1>2. [NextFetch]_vars => [Next]_interactionVars
  BY FetchInteracts
<1>3. Interacts => []MirrorsAgree
  BY MirrorInvariance
<1>4. IInv => SharersAgree
  BY DEF IInv
<1>5. QED  BY <1>1, <1>2, <1>3, <1>4, Invariance, PTL DEF FetchSpec, Interacts
=============================================================================
