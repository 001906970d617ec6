------------------------------- MODULE AppCore -------------------------------
(***************************************************************************)
(* The application core (app_core.ts): the registry of DataQueries and     *)
(* global Values that is published once, the callbacks of those who wait   *)
(* for that, and the summary of every DataQuery's `loading'.               *)
(*                                                                         *)
(* A user of the core registers one callback.  The callback of a GlobalRef *)
(* looks its key up in the GlobalState (global_state.ts), which throws if  *)
(* the key is not set.  Any other callback may call back into the core or  *)
(* start a fetch; it throws if it lets an error of such a call through.    *)
(* The forEach of publish() is a sequence of steps, and between two of     *)
(* them the callback before runs on; nothing else runs meanwhile.          *)
(*                                                                         *)
(* An operator whose name begins with `Bad' is a plausible mistake in the  *)
(* definition that follows it; the properties below tell the two apart.    *)
(***************************************************************************)
EXTENDS Naturals, Sequences

CONSTANTS
  Users,     \* those who call onPublish()
  Queries,   \* the IDs of DataQueries
  Keys,      \* the keys of global Values
  NoKey      \* "looks no key up"

ASSUME NoKeyAssumption == NoKey \notin Keys

VARIABLES
  wants,        \* the key each user's callback looks up, or NoKey
  published,
  callbacks,    \* pendingCallbacks
  dataQueries,  \* the keys of dataQueriesByID
  globalKeys,   \* the keys of the GlobalState
  loading,      \* `loading' of each DataQuery
  anyLoading,   \* anyDataQueryLoading
  summed,       \* combineLatest's subscription exists, over these queries
  visiting,     \* publish() is at this callback; 0 when it does not run
  ran,          \* how often each user's callback was invoked
  threw         \* the users whose callback threw

registryVars == <<wants, published, callbacks, dataQueries, globalKeys>>
loadingVars  == <<loading, anyLoading, summed>>
callVars     == <<visiting, ran, threw>>
vars == <<registryVars, loadingVars, callVars>>

Init ==
  /\ wants \in [Users -> Keys \cup {NoKey}]
  /\ published = FALSE
  /\ callbacks = <<>>
  /\ dataQueries = {}
  /\ globalKeys = {}
  /\ loading = [q \in Queries |-> FALSE]
  /\ anyLoading = FALSE
  /\ summed = {}
  /\ visiting = 0
  /\ ran = [u \in Users |-> 0]
  /\ threw = {}

Range(seq) == {seq[i] : i \in DOMAIN seq}
Waiting(u) == u \in Range(callbacks)

\* Setup code runs by itself; a callback in turn may do what any user may, but
\* that of a GlobalRef does nothing besides.
Between == visiting = 0
Current == callbacks[visiting - 1]
Inside == visiting > 1 /\ wants[Current] = NoKey
MayCall == Between \/ Inside

\* What the current callback called threw, and the callback does not catch it.
Escapes == Inside /\ visiting' = 0 /\ threw' = threw \cup {Current}

\* Both calls throw, and change nothing, when their condition fails, as publish()
\* does.
AddDataQuery(q) ==
  /\ MayCall /\ ~published
  /\ q \notin dataQueries
  /\ dataQueries' = dataQueries \cup {q}
  /\ UNCHANGED <<wants, published, callbacks, globalKeys, loadingVars, callVars>>

SetGlobal(k) ==
  /\ MayCall /\ k \notin globalKeys
  /\ globalKeys' = globalKeys \cup {k}
  /\ UNCHANGED <<wants, published, callbacks, dataQueries, loadingVars, callVars>>

\* addDataQuery() and publish(), which refuse once published, or another error.
Refused ==
  /\ Escapes
  /\ UNCHANGED <<registryVars, loadingVars, ran>>

Throws(u) == wants[u] # NoKey /\ wants[u] \notin globalKeys

Counted(u) == ran' = [ran EXCEPT ![u] = ran[u] + 1]
Invoke(u) == Counted(u) /\ threw' = IF Throws(u) THEN threw \cup {u} ELSE threw

\* onPublish(): at once when published, in publish() otherwise.  Within publish(),
\* what the new callback throws ends the one that registers it, unless caught.
OnPublish(u) ==
  /\ MayCall /\ ran[u] = 0 /\ ~Waiting(u)
  /\ \/ /\ published
        /\ Invoke(u)
        /\ UNCHANGED <<callbacks, visiting>>
     \/ /\ published /\ Throws(u) /\ Inside
        /\ Counted(u) /\ threw' = threw \cup {u, Current} /\ visiting' = 0
        /\ UNCHANGED callbacks
     \/ /\ ~published
        /\ callbacks' = Append(callbacks, u)
        /\ UNCHANGED <<ran, threw, visiting>>
  /\ UNCHANGED <<wants, published, dataQueries, globalKeys, loadingVars>>

BadPublishTwice ==
  /\ Between
  /\ published' = TRUE
  /\ visiting' = 1
  /\ UNCHANGED <<wants, callbacks, dataQueries, globalKeys, loadingVars, ran, threw>>

\* publish() throws, and changes nothing, if the core is published already.
Publish ==
  /\ Between /\ ~published
  /\ published' = TRUE
  /\ visiting' = 1
  /\ UNCHANGED <<wants, callbacks, dataQueries, globalKeys, loadingVars, ran, threw>>

BadSkipFirst ==
  /\ visiting \in DOMAIN callbacks
  /\ visiting > 1 => Invoke(callbacks[visiting])
  /\ visiting = 1 => UNCHANGED <<ran, threw>>
  /\ visiting' = IF Throws(callbacks[visiting]) THEN 0 ELSE visiting + 1
  /\ UNCHANGED <<registryVars, loadingVars>>

BadVisitPastEnd ==
  /\ visiting > 0
  /\ IF visiting \in DOMAIN callbacks
     THEN Invoke(callbacks[visiting])
     ELSE UNCHANGED <<ran, threw>>
  /\ visiting' = visiting + 1
  /\ UNCHANGED <<registryVars, loadingVars>>

\* A callback that throws ends publish() where it is.
RunCallback ==
  /\ visiting \in DOMAIN callbacks
  /\ Invoke(callbacks[visiting])
  /\ visiting' = IF Throws(callbacks[visiting]) THEN 0 ELSE visiting + 1
  /\ UNCHANGED <<registryVars, loadingVars>>

BadSummaryNotSeeded ==
  /\ visiting = Len(callbacks) + 1
  /\ visiting' = 0
  /\ summed' = dataQueries
  /\ callbacks' = <<>>
  /\ UNCHANGED <<wants, published, dataQueries, globalKeys, loading, anyLoading, ran, threw>>

\* After the last callback: combineLatest is subscribed, and emits at once
\* unless it combines nothing.
FinishPublish ==
  /\ visiting = Len(callbacks) + 1
  /\ visiting' = 0
  /\ summed' = dataQueries
  /\ anyLoading' = (\E q \in dataQueries : loading[q])
  /\ callbacks' = <<>>
  /\ UNCHANGED <<wants, published, dataQueries, globalKeys, loading, ran, threw>>

\* A DataQuery's `loading' changes, in a callback or by itself.
SetLoading(q) ==
  /\ MayCall /\ q \in dataQueries
  /\ loading' = [loading EXCEPT ![q] = ~loading[q]]
  /\ anyLoading' = IF q \in summed THEN \E p \in summed : loading'[p] ELSE anyLoading
  /\ UNCHANGED <<registryVars, summed, callVars>>

Next ==
  \/ \E q \in Queries : AddDataQuery(q) \/ SetLoading(q)
  \/ \E k \in Keys : SetGlobal(k)
  \/ \E u \in Users : OnPublish(u)
  \/ Refused
  \/ Publish \/ RunCallback \/ FinishPublish

\* publish() is synchronous code: once begun it goes on.
Fairness == WF_vars(RunCallback \/ FinishPublish)

Spec == Init /\ [][Next]_vars /\ Fairness

-----------------------------------------------------------------------------
\* The values the state may take.
TypeOK ==
  /\ wants \in [Users -> Keys \cup {NoKey}]
  /\ published \in BOOLEAN /\ anyLoading \in BOOLEAN
  /\ Range(callbacks) \subseteq Users
  /\ dataQueries \subseteq Queries /\ summed \subseteq dataQueries
  /\ globalKeys \subseteq Keys
  /\ loading \in [Queries -> BOOLEAN]
  /\ visiting \in 0 .. Len(callbacks) + 1
  /\ ran \in [Users -> Nat]
  /\ threw \subseteq Users

(***************************************************************************)
(* Once publish() has ended normally the summary is right: it is true just *)
(* when some DataQuery loads, also when a callback started the fetch       *)
(* before the summary was subscribed.                                      *)
(***************************************************************************)
PublishedWell == published /\ Between /\ threw \cap Range(callbacks) = {}
SummaryIsRight == PublishedWell => (anyLoading <=> \E q \in dataQueries : loading[q])

(***************************************************************************)
(* A callback is invoked once only, never before the core is published, and *)
(* not before one that was registered earlier, whatever callbacks register  *)
(* and throw; and what it sees of the DataQueries is final.                 *)
(***************************************************************************)
Before(u, v) == \E i, j \in DOMAIN callbacks : i < j /\ callbacks[i] = u /\ callbacks[j] = v
CalledOncePublished ==
  /\ \A u \in Users : ran[u] > 0 => ran[u] = 1 /\ published
  /\ \A u, v \in Users : Before(u, v) /\ ran[v] = 1 => ran[u] = 1
RegistryIsFinal == [][published => dataQueries' = dataQueries]_vars

(***************************************************************************)
(* Each callback that waits is invoked after publish(), unless one that was *)
(* registered before it throws; what later ones or others do is no excuse.  *)
(***************************************************************************)
CallbacksRun ==
  \A u \in Users :
    (published /\ Waiting(u)) ~> (ran[u] = 1 \/ \E v \in threw : Before(v, u))

\* app_core.ts: "The provided callback is guaranteed to be invoked after the
\* AppCore is published."  One that throws takes the later ones with it.
CallbackGuarantee == published /\ Between => \A u \in Users : Waiting(u) => ran[u] = 1
=============================================================================
