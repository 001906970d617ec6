---------------------------- MODULE AppCoreProofs ----------------------------
(***************************************************************************)
(* Proofs that the safety properties of AppCore hold for any users,        *)
(* DataQueries and keys, whichever callbacks throw.                        *)
(***************************************************************************)
EXTENDS AppCore, TLAPS

(***************************************************************************)
(* The inductive invariant.  Callbacks that publish() has not reached have *)
(* not run, whatever the ones before them did, and those it has passed     *)
(* have; and once publish() is over it either ended at a callback that     *)
(* threw, which stays in the list, or the summary is subscribed over the   *)
(* final registry.                                                         *)
(***************************************************************************)

\* The callbacks are those of different users.
CallbacksDiffer ==
  /\ callbacks \in Seq(Users)
  /\ \A i, j \in DOMAIN callbacks : callbacks[i] = callbacks[j] => i = j

\* publish() runs once it has set `published', and nothing ran before that.
NoneBefore ==
  /\ visiting > 0 => published
  /\ ~published => \A u \in Users : ran[u] = 0

\* None runs twice, and the callbacks to come have not run.
YetToRun ==
  /\ \A u \in Users : ran[u] \in {0, 1}
  /\ visiting > 0 => \A i \in DOMAIN callbacks : i >= visiting => ran[callbacks[i]] = 0

\* Those publish() has passed have run, and stay the first ones when it ends early.
InOrder ==
  /\ \A i, j \in DOMAIN callbacks : i < j /\ ran[callbacks[j]] = 1 => ran[callbacks[i]] = 1
  /\ \A i \in DOMAIN callbacks : i < visiting => ran[callbacks[i]] = 1

\* How publish() ends.
EndsEitherWay ==
  published /\ visiting = 0 =>
    \/ threw \cap Range(callbacks) # {}
    \/ summed = dataQueries /\ (anyLoading <=> \E q \in dataQueries : loading[q])

IInv == TypeOK /\ CallbacksDiffer /\ NoneBefore /\ YetToRun /\ InOrder /\ EndsEitherWay

-----------------------------------------------------------------------------
LEMMA InitHolds == Init => IInv
<1> SUFFICES ASSUME Init PROVE IInv
  OBVIOUS
<1>1. callbacks = <<>> /\ callbacks \in Seq(Users) /\ DOMAIN callbacks = {} /\ Len(callbacks) = 0
  BY DEF Init
<1>2. TypeOK
  <2>1. Range(callbacks) \subseteq Users
    BY <1>1 DEF Range
  <2>2. loading \in [Queries -> BOOLEAN] /\ ran \in [Users -> Nat]
    BY DEF Init
  <2>3. /\ dataQueries \subseteq Queries /\ summed \subseteq dataQueries
        /\ globalKeys \subseteq Keys /\ threw \subseteq Users
        /\ published \in BOOLEAN /\ anyLoading \in BOOLEAN
    BY DEF Init
  <2>4. wants \in [Users -> Keys \cup {NoKey}] /\ visiting = 0
    BY DEF Init
  <2>5. visiting \in 0 .. Len(callbacks) + 1
    BY <1>1, <2>4
  <2> QED
    BY <2>1, <2>2, <2>3, <2>4, <2>5 DEF TypeOK
<1>3. CallbacksDiffer /\ NoneBefore /\ YetToRun /\ InOrder /\ EndsEitherWay
  BY <1>1 DEF Init, CallbacksDiffer, NoneBefore, YetToRun, InOrder, EndsEitherWay
<1> QED
  BY <1>2, <1>3 DEF IInv

\* Counting a callback that has not run counts it once.
LEMMA CountedOnce ==
  ASSUME IInv, NEW u \in Users, Counted(u), ran[u] = 0
  PROVE  /\ ran' \in [Users -> Nat] /\ ran'[u] = 1
         /\ \A v \in Users : ran'[v] \in {0, 1}
         /\ \A v \in Users : v # u => ran'[v] = ran[v]
BY DEF IInv, TypeOK, Counted, YetToRun

\* So does invoking it, and those that threw stay so.
LEMMA Invoked ==
  ASSUME IInv, NEW u \in Users, Invoke(u), ran[u] = 0
  PROVE  /\ ran' \in [Users -> Nat] /\ ran'[u] = 1
         /\ threw' \subseteq Users /\ threw \subseteq threw'
         /\ \A v \in Users : ran'[v] \in {0, 1}
         /\ \A v \in Users : v # u => ran'[v] = ran[v]
BY CountedOnce DEF IInv, TypeOK, Invoke

\* The callback that is running is one of those that wait.
LEMMA CurrentWaits ==
  ASSUME IInv, Inside
  PROVE  /\ Current \in Users /\ Current \in Range(callbacks)
         /\ published
<1>1. /\ callbacks \in Seq(Users) /\ visiting \in 0 .. Len(callbacks) + 1
      /\ Len(callbacks) \in Nat /\ DOMAIN callbacks = 1 .. Len(callbacks)
  BY DEF IInv, TypeOK, CallbacksDiffer
<1>2. visiting - 1 \in DOMAIN callbacks /\ visiting > 0
  BY <1>1 DEF Inside
<1> QED
  BY <1>1, <1>2 DEF Current, Range, IInv, NoneBefore

LEMMA RegistrationKeeps ==
  ASSUME IInv,
         \/ \E q \in Queries : AddDataQuery(q)
         \/ \E k \in Keys : SetGlobal(k)
  PROVE  IInv'
<1>1. /\ dataQueries' \subseteq Queries /\ summed' \subseteq dataQueries' /\ globalKeys' \subseteq Keys
      /\ (published => dataQueries' = dataQueries)
  BY DEF IInv, TypeOK, AddDataQuery, SetGlobal, loadingVars
<1>2. UNCHANGED <<wants, published, callbacks, loadingVars, callVars>>
  BY DEF AddDataQuery, SetGlobal
<1>3. TypeOK'
  BY <1>1, <1>2 DEF IInv, TypeOK, Range, loadingVars, callVars
<1>4. (CallbacksDiffer /\ NoneBefore /\ YetToRun /\ InOrder)'
  BY <1>2 DEF IInv, CallbacksDiffer, NoneBefore, YetToRun, InOrder, callVars
<1>5. EndsEitherWay'
  BY <1>1, <1>2 DEF IInv, EndsEitherWay, Range, loadingVars, callVars
<1> QED
  BY <1>3, <1>4, <1>5 DEF IInv

LEMMA LoadingKeeps ==
  ASSUME IInv, NEW q \in Queries, SetLoading(q)
  PROVE  IInv'
<1>1. UNCHANGED <<registryVars, summed, callVars>> /\ q \in dataQueries
  BY DEF SetLoading
<1>2. loading' \in [Queries -> BOOLEAN] /\ anyLoading' \in BOOLEAN
  BY DEF SetLoading, IInv, TypeOK
<1>3. TypeOK'
  BY <1>1, <1>2 DEF IInv, TypeOK, Range, registryVars, callVars
<1>4. (CallbacksDiffer /\ NoneBefore /\ YetToRun /\ InOrder)'
  BY <1>1 DEF IInv, CallbacksDiffer, NoneBefore, YetToRun, InOrder, registryVars, callVars
<1>5. EndsEitherWay'
  BY <1>1 DEF SetLoading, IInv, EndsEitherWay, Range, registryVars, callVars
<1> QED
  BY <1>3, <1>4, <1>5 DEF IInv

\* A call that throws out of the callback that made it ends publish() there.
LEMMA RefusedKeeps ==
  ASSUME IInv, Refused
  PROVE  IInv'
<1>1. /\ UNCHANGED <<registryVars, loadingVars, ran>>
      /\ visiting' = 0 /\ threw' = threw \cup {Current} /\ Inside
  BY DEF Refused, Escapes
<1>2. Current \in Users /\ Current \in Range(callbacks) /\ published
  BY <1>1, CurrentWaits
<1>3. Len(callbacks) \in Nat /\ DOMAIN callbacks = 1 .. Len(callbacks)
  BY DEF IInv, CallbacksDiffer
<1>4. TypeOK'
  BY <1>1, <1>2, <1>3 DEF IInv, TypeOK, Range, registryVars, loadingVars
<1>5. (CallbacksDiffer /\ NoneBefore /\ YetToRun /\ InOrder)'
  BY <1>1, <1>2, <1>3 DEF IInv, CallbacksDiffer, NoneBefore, YetToRun, InOrder, registryVars
<1>6. EndsEitherWay'
  BY <1>1, <1>2 DEF EndsEitherWay, Range, registryVars
<1> QED
  BY <1>4, <1>5, <1>6 DEF IInv

LEMMA OnPublishKeeps ==
  ASSUME IInv, NEW u \in Users, OnPublish(u)
  PROVE  IInv'
<1>1. /\ UNCHANGED <<wants, published, dataQueries, globalKeys, loadingVars>>
      /\ ran[u] = 0 /\ u \notin Range(callbacks)
  BY DEF OnPublish, Waiting
<1>2. CASE published
  <2>1. \A i \in DOMAIN callbacks : callbacks[i] # u /\ callbacks[i] \in Users
    BY <1>1 DEF Range, IInv, CallbacksDiffer
  <2>2. /\ Len(callbacks) \in Nat /\ DOMAIN callbacks = 1 .. Len(callbacks)
        /\ visiting \in 0 .. Len(callbacks) + 1
    BY DEF IInv, CallbacksDiffer, TypeOK
  <2>3. CASE Invoke(u) /\ UNCHANGED <<callbacks, visiting>>
    <3>1. TypeOK'
      BY <1>1, <2>3, Invoked DEF IInv, TypeOK, Range, loadingVars
    <3>2. YetToRun' /\ InOrder'
      BY <1>1, <2>1, <2>3, Invoked DEF YetToRun, InOrder, IInv
    <3>3. (CallbacksDiffer /\ NoneBefore)'
      BY <1>1, <1>2, <2>3 DEF IInv, CallbacksDiffer, NoneBefore
    <3>4. EndsEitherWay'
      BY <1>1, <2>3, Invoked DEF IInv, EndsEitherWay, Range, loadingVars
    <3> QED
      BY <3>1, <3>2, <3>3, <3>4 DEF IInv
  <2>4. CASE /\ Inside /\ Counted(u) /\ threw' = threw \cup {u, Current}
             /\ visiting' = 0 /\ UNCHANGED callbacks
    <3>1. Current \in Users /\ Current \in Range(callbacks)
      BY <2>4, CurrentWaits
    <3>2. TypeOK'
      BY <1>1, <2>2, <2>4, <3>1, CountedOnce DEF IInv, TypeOK, Range, loadingVars
    <3>3. YetToRun' /\ InOrder'
      BY <1>1, <2>1, <2>2, <2>4, CountedOnce DEF YetToRun, InOrder, IInv
    <3>4. (CallbacksDiffer /\ NoneBefore)'
      BY <1>1, <1>2, <2>4 DEF IInv, CallbacksDiffer, NoneBefore
    <3>5. EndsEitherWay'
      BY <2>4, <3>1 DEF EndsEitherWay, Range
    <3> QED
      BY <3>2, <3>3, <3>4, <3>5 DEF IInv
  <2> QED
    BY <1>2, <2>3, <2>4 DEF OnPublish
<1>3. CASE ~published
  <2>1. callbacks' = Append(callbacks, u) /\ UNCHANGED <<ran, threw, visiting>>
    BY <1>3 DEF OnPublish
  <2>2. callbacks \in Seq(Users)
    BY DEF IInv, CallbacksDiffer
  <2>3. /\ callbacks' \in Seq(Users) /\ Len(callbacks') = Len(callbacks) + 1
        /\ DOMAIN callbacks' = 1 .. Len(callbacks) + 1
        /\ callbacks'[Len(callbacks) + 1] = u
        /\ \A i \in DOMAIN callbacks : callbacks'[i] = callbacks[i]
    BY <2>1, <2>2
  <2>4. visiting = 0
    BY <1>3 DEF IInv, NoneBefore, TypeOK
  <2>5. Range(callbacks') \subseteq Users
    BY <2>3 DEF Range
  <2>6. TypeOK'
    BY <1>1, <2>1, <2>2, <2>3, <2>4, <2>5 DEF IInv, TypeOK, Range, loadingVars
  <2>7. CallbacksDiffer'
    <3>1. \A i \in DOMAIN callbacks : callbacks[i] # u
      BY <1>1 DEF Range
    <3>2. DOMAIN callbacks = 1 .. Len(callbacks) /\ Len(callbacks) \in Nat
      BY <2>2
    <3> QED
      BY <2>3, <3>1, <3>2 DEF IInv, CallbacksDiffer
  <2>8. (NoneBefore /\ YetToRun /\ EndsEitherWay)'
    BY <1>1, <1>3, <2>1, <2>4 DEF IInv, NoneBefore, YetToRun, EndsEitherWay
  <2>9. InOrder'
    <3>1. \A i \in DOMAIN callbacks' : callbacks'[i] \in Users /\ i > 0
      BY <2>3
    <3>2. \A v \in Users : ran'[v] = 0
      BY <1>3, <2>1 DEF IInv, NoneBefore
    <3> QED
      BY <2>1, <2>3, <2>4, <3>1, <3>2 DEF InOrder
  <2> QED
    BY <2>6, <2>7, <2>8, <2>9 DEF IInv
<1> QED
  BY <1>2, <1>3

LEMMA PublishKeeps ==
  ASSUME IInv, Publish
  PROVE  IInv'
<1>1. /\ ~published /\ published' = TRUE /\ visiting' = 1
      /\ UNCHANGED <<wants, callbacks, dataQueries, globalKeys, loadingVars, ran, threw>>
  BY DEF Publish
<1>2. Len(callbacks) \in Nat /\ \A i \in DOMAIN callbacks : callbacks[i] \in Users
  BY DEF IInv, CallbacksDiffer
<1>3. TypeOK'
  BY <1>1, <1>2 DEF IInv, TypeOK, Range, loadingVars
<1>4. (CallbacksDiffer /\ NoneBefore /\ EndsEitherWay)'
  BY <1>1 DEF IInv, CallbacksDiffer, NoneBefore, EndsEitherWay
<1>5. DOMAIN callbacks = 1 .. Len(callbacks)
  BY DEF IInv, CallbacksDiffer
<1>6. YetToRun' /\ InOrder'
  BY <1>1, <1>2, <1>5 DEF IInv, YetToRun, InOrder, NoneBefore
<1> QED
  BY <1>3, <1>4, <1>6 DEF IInv

LEMMA RunCallbackKeeps ==
  ASSUME IInv, RunCallback
  PROVE  IInv'
<1>1. visiting \in DOMAIN callbacks /\ UNCHANGED <<registryVars, loadingVars>>
      /\ visiting' = IF Throws(callbacks[visiting]) THEN 0 ELSE visiting + 1
  BY DEF RunCallback
<1>2. PICK u \in Users : u = callbacks[visiting]
  BY <1>1 DEF IInv, CallbacksDiffer
<1>3. DOMAIN callbacks = 1 .. Len(callbacks) /\ Len(callbacks) \in Nat
  BY DEF IInv, CallbacksDiffer
<1>4. visiting \in Nat /\ visiting > 0 /\ published
  BY <1>1, <1>3 DEF IInv, NoneBefore
<1>5. Invoke(u) /\ ran[u] = 0
  BY <1>1, <1>2, <1>4 DEF RunCallback, IInv, YetToRun
<1>6. visiting' \in 0 .. Len(callbacks) + 1
  BY <1>1, <1>3
<1>7. TypeOK'
  BY <1>1, <1>5, <1>6, Invoked DEF IInv, TypeOK, Range, registryVars, loadingVars
<1>8. CallbacksDiffer' /\ NoneBefore'
  BY <1>1, <1>4 DEF IInv, CallbacksDiffer, NoneBefore, registryVars
<1>9. YetToRun'
  <2>1. ASSUME NEW i \in DOMAIN callbacks, visiting' > 0, i >= visiting'
        PROVE  ran'[callbacks[i]] = 0
    <3>1. i > visiting /\ callbacks[i] \in Users
      BY <1>1, <1>3, <1>4, <2>1 DEF IInv, CallbacksDiffer
    <3>2. callbacks[i] # u /\ ran[callbacks[i]] = 0
      BY <1>1, <1>2, <1>3, <1>4, <3>1 DEF IInv, CallbacksDiffer, YetToRun
    <3> QED
      BY <1>5, <3>1, <3>2, Invoked
  <2> QED
    BY <1>1, <1>5, <2>1, Invoked DEF YetToRun, registryVars
<1>10. InOrder'
  <2>1. ASSUME NEW i \in DOMAIN callbacks, i <= visiting
        PROVE  ran'[callbacks[i]] = 1
    <3>1. callbacks[i] \in Users
      BY DEF IInv, CallbacksDiffer
    <3>2. CASE i = visiting
      BY <1>2, <1>5, <3>2, Invoked
    <3>3. CASE i < visiting
      <4>1. ran[callbacks[i]] = 1
        BY <3>3 DEF IInv, InOrder
      <4> QED
        BY <1>5, <3>1, <4>1, Invoked
    <3> QED
      BY <1>3, <1>4, <2>1, <3>2, <3>3
  <2>2. ASSUME NEW i \in DOMAIN callbacks, i > visiting
        PROVE  ran'[callbacks[i]] = 0
    <3>1. callbacks[i] \in Users /\ callbacks[i] # u /\ ran[callbacks[i]] = 0
      BY <1>1, <1>2, <1>3, <1>4, <2>2 DEF IInv, CallbacksDiffer, YetToRun
    <3> QED
      BY <1>5, <3>1, Invoked
  <2>3. callbacks' = callbacks /\ (visiting' = 0 \/ visiting' = visiting + 1)
    BY <1>1 DEF registryVars
  <2> QED
    BY <1>3, <1>4, <2>1, <2>2, <2>3 DEF InOrder
<1>11. EndsEitherWay'
  <2>1. CASE Throws(u)
    <3>1. u \in threw' /\ u \in Range(callbacks')
      BY <1>1, <1>2, <1>5, <2>1 DEF Invoke, Range, registryVars
    <3> QED
      BY <3>1 DEF EndsEitherWay
  <2>2. CASE ~Throws(u)
    <3>1. visiting' # 0
      BY <1>1, <1>2, <1>4, <2>2
    <3> QED
      BY <3>1 DEF EndsEitherWay
  <2> QED
    BY <2>1, <2>2
<1> QED
  BY <1>7, <1>8, <1>9, <1>10, <1>11 DEF IInv

LEMMA FinishKeeps ==
  ASSUME IInv, FinishPublish
  PROVE  IInv'
<1>1. /\ callbacks' = <<>> /\ visiting' = 0 /\ summed' = dataQueries
      /\ anyLoading' = (\E q \in dataQueries : loading[q])
      /\ UNCHANGED <<wants, published, dataQueries, globalKeys, loading, ran, threw>>
  BY DEF FinishPublish
<1>2. DOMAIN callbacks' = {} /\ Len(callbacks') = 0 /\ callbacks' \in Seq(Users)
  BY <1>1
<1>3. Range(callbacks') \subseteq Users
  BY <1>2 DEF Range
<1>4. anyLoading' \in BOOLEAN
  BY <1>1
<1>5. TypeOK'
  BY <1>1, <1>2, <1>3, <1>4 DEF IInv, TypeOK, Range
<1>6. (CallbacksDiffer /\ NoneBefore /\ YetToRun /\ InOrder /\ EndsEitherWay)'
  BY <1>1, <1>2 DEF IInv, CallbacksDiffer, NoneBefore, YetToRun, InOrder, EndsEitherWay
<1> QED
  BY <1>5, <1>6 DEF IInv

LEMMA StepKeeps == IInv /\ [Next]_vars => IInv'
<1> SUFFICES ASSUME IInv, [Next]_vars PROVE IInv'
  OBVIOUS
<1>1. CASE UNCHANGED vars
  BY <1>1 DEF vars, registryVars, loadingVars, callVars, IInv, TypeOK, Range,
              CallbacksDiffer, NoneBefore, YetToRun, InOrder, EndsEitherWay
<1>2. CASE Next
  BY <1>2, RegistrationKeeps, LoadingKeeps, OnPublishKeeps, RefusedKeeps, PublishKeeps,
     RunCallbackKeeps, FinishKeeps DEF Next
<1> QED
  BY <1>1, <1>2

-----------------------------------------------------------------------------
\* The invariant holds in every behaviour of the core.
THEOREM Invariance == Spec => []IInv
BY InitHolds, StepKeeps, PTL DEF Spec

\* The variables of the core keep their types (TypeOK of AppCore).
THEOREM TypeCorrect == Spec => []TypeOK
<1>1. IInv => TypeOK
  BY DEF IInv
<1> QED
  BY <1>1, Invariance, PTL

\* When publish() has ended normally `anyDataQueryLoading' says whether some
\* DataQuery loads (SummaryIsRight of AppCore), whatever the callbacks started.
THEOREM Summary == Spec => []SummaryIsRight
<1>1. IInv => SummaryIsRight
  BY DEF IInv, EndsEitherWay, SummaryIsRight, PublishedWell, Between
<1> QED
  BY <1>1, Invariance, PTL

\* No callback of onPublish() runs twice, before publish(), or before one that
\* was registered earlier (CalledOncePublished of AppCore).
THEOREM CalledOnce == Spec => []CalledOncePublished
<1>1. IInv => \A u \in Users : ran[u] > 0 => ran[u] = 1 /\ published
  BY DEF IInv, YetToRun, NoneBefore
<1>2. IInv => \A u, v \in Users : Before(u, v) /\ ran[v] = 1 => ran[u] = 1
  BY DEF IInv, InOrder, Before
<1>3. IInv => CalledOncePublished
  BY <1>1, <1>2 DEF CalledOncePublished
<1> QED
  BY <1>3, Invariance, PTL

\* The registry of DataQueries is final once published (RegistryIsFinal of
\* AppCore): addDataQuery() refuses from then on.
THEOREM Final == Spec => RegistryIsFinal
<1>1. [Next]_vars => [published => dataQueries' = dataQueries]_vars
  BY DEF Next, AddDataQuery, SetGlobal, OnPublish, Refused, Publish, RunCallback, FinishPublish, SetLoading,
         registryVars
<1> QED
  BY <1>1, PTL DEF Spec, RegistryIsFinal
=============================================================================
