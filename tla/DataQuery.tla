------------------------------ MODULE DataQuery ------------------------------
(***************************************************************************)
(* The client's data-fetching core: one DataQuery (data_query.ts) and the  *)
(* DataSeriesQueries (data_series_query.ts) that ask it for data.          *)
(*                                                                         *)
(* A DataSeriesQuery asks on each rising edge of its `fetch' observable.   *)
(* The DataQuery keeps the newest query of each series in a pending map,   *)
(* debounces, and sends the whole map as one request.  Requests overlap    *)
(* and answers arrive in any order.  JavaScript runs one handler at a      *)
(* time, so an action is a whole handler, with one exception: a response   *)
(* is given to the series one after the other, and each `response.next'    *)
(* runs component code, which may call back into this module before the    *)
(* loop goes on.  That loop is therefore a sequence of steps, during which *)
(* only such calls may be interleaved.                                     *)
(*                                                                         *)
(* A query is abstracted to the ask it comes from: asks are numbered in    *)
(* the order they are made, and a map from series names to queries is a    *)
(* function that is 0 where the map has no entry.                          *)
(***************************************************************************)
EXTENDS Integers

CONSTANTS
  Series,    \* the DataSeriesQueries, each with its uniqueSeriesName
  MaxAsks,   \* bound: how many asks the components make
  Window     \* debounceMs, in ticks

ASSUME MaxAsksAssumption == MaxAsks \in Nat
ASSUME WindowAssumption == Window \in Nat

VARIABLES
  \* DataQuery
  connected,  \* `fetcher' is set
  debounced,  \* debounceUpdates(ms): ms # 0
  pending,    \* pendingQueriesBySeriesName
  timer,      \* ticks left of the debounce timer, or NoTimer
  flights,    \* requests whose fetch observable has not emitted yet
  issued,     \* how many requests were sent; numbers them
  busy,       \* DataQuery.loading
  \* DataSeriesQuery
  live,       \* the series that are not disposed
  signal,     \* the last value of `fetch' is true (before the first it is not)
  loading,    \* DataSeriesQuery.loading
  \* the response handler that is running, if any
  answering,  \* a `next' handler is on the stack
  serving,    \* its queriesInFlightBySeriesName
  unread,     \* the series of data.series its loop has yet to visit
  reader,     \* the series whose `response.next' is running: none or one
  \* what the components could observe
  asks,       \* how many asks were made
  newest,     \* the newest ask of each series, or 0
  outcome     \* what became of each ask

queryVars   == <<connected, debounced, pending, timer, flights, issued, busy>>
seriesVars  == <<live, signal, loading>>
handlerVars == <<answering, serving, unread, reader>>
historyVars == <<asks, newest, outcome>>
vars == <<queryVars, seriesVars, handlerVars, historyVars>>

Asks == 1 .. MaxAsks
NoTimer == -1
NoQueries == [s \in Series |-> 0]
QueryMap == [Series -> 0 .. MaxAsks]
Outcomes == {"none", "answered", "failed", "omitted"}

(***************************************************************************)
(* Component code runs as an event of its own or inside `response.next'.   *)
(***************************************************************************)
ComponentMayRun == answering => reader # {}

Init ==
  /\ connected = FALSE
  /\ debounced \in BOOLEAN
  /\ pending = NoQueries
  /\ timer = NoTimer
  /\ flights = {}
  /\ issued = 0
  /\ busy = FALSE
  /\ live = Series
  /\ signal = [s \in Series |-> FALSE]
  /\ loading = [s \in Series |-> FALSE]
  /\ answering = FALSE
  /\ serving = NoQueries
  /\ unread = {}
  /\ reader = {}
  /\ asks = 0
  /\ newest = [s \in Series |-> 0]
  /\ outcome = [k \in Asks |-> "none"]

-----------------------------------------------------------------------------
(* DataQuery's operations *)

Connect ==
  /\ ~answering
  /\ ~connected
  /\ connected' = TRUE
  /\ UNCHANGED <<debounced, pending, timer, flights, issued, busy>>
  /\ UNCHANGED <<seriesVars, handlerVars, historyVars>>

BadIssueDropsUnsent(queries) ==
  /\ pending' = NoQueries
  /\ IF connected
     THEN /\ flights' = flights \cup {[id |-> issued + 1, queries |-> queries]}
          /\ issued' = issued + 1
          /\ busy' = TRUE
     ELSE UNCHANGED <<flights, issued, busy>>

BadIssueKeepsPending(queries) ==
  /\ pending' = queries
  /\ IF connected
     THEN /\ flights' = flights \cup {[id |-> issued + 1, queries |-> queries]}
          /\ issued' = issued + 1
          /\ busy' = TRUE
     ELSE UNCHANGED <<flights, issued, busy>>

(***************************************************************************)
(* issueQuery(), run when the pending map is `queries'.  Without a fetcher *)
(* it reports an error and leaves the map alone.                           *)
(***************************************************************************)
IssueQuery(queries) ==
  \/ /\ connected
     /\ flights' = flights \cup {[id |-> issued + 1, queries |-> queries]}
     /\ issued' = issued + 1
     /\ pending' = NoQueries
     /\ busy' = TRUE
  \/ /\ ~connected
     /\ pending' = queries
     /\ UNCHANGED <<flights, issued, busy>>

BadFirstQueryWins(s, ask) ==
  LET queries == [pending EXCEPT ![s] = IF pending[s] = 0 THEN ask ELSE pending[s]]
  IN  \/ ~debounced /\ IssueQuery(queries) /\ UNCHANGED timer
      \/ debounced /\ pending' = queries /\ timer' = Window /\ UNCHANGED <<flights, issued, busy>>

BadTimerNotStarted(s, ask) ==
  LET queries == [pending EXCEPT ![s] = ask]
  IN  \/ ~debounced /\ IssueQuery(queries) /\ UNCHANGED timer
      \/ debounced /\ pending' = queries /\ UNCHANGED <<timer, flights, issued, busy>>

(***************************************************************************)
(* fetchDataSeries(): the new query replaces the one pending for the same  *)
(* series, and updateRequested issues the query or restarts the timer.     *)
(***************************************************************************)
FetchDataSeries(s, ask) ==
  LET queries == [pending EXCEPT ![s] = ask]
  IN  \/ /\ ~debounced
         /\ IssueQuery(queries)
         /\ UNCHANGED timer
      \/ /\ debounced
         /\ pending' = queries
         /\ timer' = Window
         /\ UNCHANGED <<flights, issued, busy>>

BadCancelForgets(s) == UNCHANGED pending

CancelDataSeries(s) == pending' = [pending EXCEPT ![s] = 0]

BadTickPastZero ==
  /\ ~answering
  /\ timer' = timer - 1
  /\ UNCHANGED <<connected, debounced, pending, flights, issued, busy>>
  /\ UNCHANGED <<seriesVars, handlerVars, historyVars>>

Tick ==
  /\ ~answering
  /\ timer > 0
  /\ timer' = timer - 1
  /\ UNCHANGED <<connected, debounced, pending, flights, issued, busy>>
  /\ UNCHANGED <<seriesVars, handlerVars, historyVars>>

TimerFires ==
  /\ ~answering
  /\ timer = 0
  /\ timer' = NoTimer
  /\ IssueQuery(pending)
  /\ UNCHANGED <<connected, debounced>>
  /\ UNCHANGED <<seriesVars, handlerVars, historyVars>>

-----------------------------------------------------------------------------
(* The fetcher's answers *)

(***************************************************************************)
(* A response to r arrives that has data for the series `present'; those   *)
(* of r it leaves out are never heard of again.                            *)
(***************************************************************************)
Respond(r, present) ==
  /\ ~answering
  /\ r \in flights
  /\ flights' = flights \ {r}
  /\ answering' = TRUE
  /\ serving' = r.queries
  /\ unread' = present
  /\ outcome' = [k \in Asks |-> IF \E s \in Series \ present : r.queries[s] = k
                               THEN "omitted" ELSE outcome[k]]
  /\ UNCHANGED <<connected, debounced, pending, timer, issued, busy>>
  /\ UNCHANGED <<seriesVars, reader, asks, newest>>

\* The loop of the response handler skips a series the request did not name.
SkipUnknown(s) ==
  /\ answering /\ reader = {}
  /\ s \in unread
  /\ serving[s] = 0
  /\ unread' = unread \ {s}
  /\ UNCHANGED <<queryVars, seriesVars, answering, serving, reader, historyVars>>

\* onResponse, up to and including the call of response.next.
DeliverResponse(s) ==
  /\ answering /\ reader = {}
  /\ s \in unread
  /\ serving[s] # 0
  /\ unread' = unread \ {s}
  /\ reader' = {s}
  /\ outcome' = [outcome EXCEPT ![serving[s]] = "answered"]
  /\ UNCHANGED <<queryVars, seriesVars, answering, serving, asks, newest>>

BadDeliveryKeepsLoading(s) ==
  /\ reader = {s}
  /\ reader' = {}
  /\ UNCHANGED <<queryVars, seriesVars, answering, serving, unread, historyVars>>

\* onResponse, once response.next has returned.
DeliveryReturns(s) ==
  /\ reader = {s}
  /\ reader' = {}
  /\ loading' = [loading EXCEPT ![s] = FALSE]
  /\ UNCHANGED <<queryVars, live, signal, answering, serving, unread, historyVars>>

ResponseHandled ==
  /\ answering /\ reader = {}
  /\ unread = {}
  /\ answering' = FALSE
  /\ serving' = NoQueries
  /\ busy' = FALSE
  /\ UNCHANGED <<connected, debounced, pending, timer, flights, issued>>
  /\ UNCHANGED <<seriesVars, unread, reader, historyVars>>

BadErrorCancelsNone(r) ==
  /\ ~answering
  /\ r \in flights
  /\ flights' = flights \ {r}
  /\ outcome' = [k \in Asks |-> IF \E s \in Series : r.queries[s] = k
                               THEN "failed" ELSE outcome[k]]
  /\ busy' = FALSE
  /\ UNCHANGED <<connected, debounced, pending, timer, issued>>
  /\ UNCHANGED <<seriesVars, handlerVars, asks, newest>>

\* The fetch of r fails: every query it carries is cancelled.
FetchError(r) ==
  /\ ~answering
  /\ r \in flights
  /\ flights' = flights \ {r}
  /\ loading' = [s \in Series |-> loading[s] /\ r.queries[s] = 0]
  /\ outcome' = [k \in Asks |-> IF \E s \in Series : r.queries[s] = k
                               THEN "failed" ELSE outcome[k]]
  /\ busy' = FALSE
  /\ UNCHANGED <<connected, debounced, pending, timer, issued>>
  /\ UNCHANGED <<live, signal, handlerVars, asks, newest>>

-----------------------------------------------------------------------------
(* DataSeriesQuery's operations *)

\* `fetch' turns false.
FetchFalls(s) ==
  /\ ComponentMayRun
  /\ s \in live
  /\ signal[s]
  /\ signal' = [signal EXCEPT ![s] = FALSE]
  /\ UNCHANGED <<queryVars, live, loading, handlerVars, historyVars>>

\* `fetch' turns true, or starts out so: the private method fetch().
FetchRises(s) ==
  /\ ComponentMayRun
  /\ s \in live
  /\ ~signal[s]
  /\ asks < MaxAsks
  /\ signal' = [signal EXCEPT ![s] = TRUE]
  /\ asks' = asks + 1
  /\ newest' = [newest EXCEPT ![s] = asks + 1]
  /\ loading' = [loading EXCEPT ![s] = TRUE]
  /\ FetchDataSeries(s, asks + 1)
  /\ UNCHANGED <<connected, debounced, live, handlerVars, outcome>>

Dispose(s) ==
  /\ ComponentMayRun
  /\ s \in live
  /\ CancelDataSeries(s)
  /\ live' = live \ {s}
  /\ UNCHANGED <<connected, debounced, timer, flights, issued, busy>>
  /\ UNCHANGED <<signal, loading, handlerVars, historyVars>>

-----------------------------------------------------------------------------
Answer(r) == (\E present \in SUBSET Series : Respond(r, present)) \/ FetchError(r)

HandlerStep ==
  \/ \E s \in Series : SkipUnknown(s) \/ DeliverResponse(s) \/ DeliveryReturns(s)
  \/ ResponseHandled

Next ==
  \/ Connect
  \/ Tick
  \/ TimerFires
  \/ \E r \in flights : Answer(r)
  \/ HandlerStep
  \/ \E s \in Series : FetchFalls(s) \/ FetchRises(s) \/ Dispose(s)

(***************************************************************************)
(* The event loop runs handlers to their end and lets timers fire, and a   *)
(* fetch ends sooner or later, with an answer or an error.  Nothing makes  *)
(* a component ask, dispose, or the application connect.                   *)
(***************************************************************************)
Fairness ==
  /\ WF_vars(Tick \/ TimerFires)
  /\ WF_vars(HandlerStep)
  /\ \A n \in Asks : WF_vars(\E r \in flights : r.id = n /\ Answer(r))

Spec == Init /\ [][Next]_vars
FairSpec == Spec /\ Fairness

-----------------------------------------------------------------------------
(* Properties *)

\* The values the state may take.
TypeOK ==
  /\ connected \in BOOLEAN /\ debounced \in BOOLEAN /\ busy \in BOOLEAN
  /\ pending \in QueryMap /\ serving \in QueryMap
  /\ timer \in {NoTimer} \cup 0 .. Window
  /\ flights \subseteq [id : Nat, queries : QueryMap]
  /\ issued \in Nat
  /\ live \subseteq Series /\ unread \subseteq Series /\ reader \subseteq Series
  /\ signal \in [Series -> BOOLEAN]
  /\ loading \in [Series -> BOOLEAN]
  /\ answering \in BOOLEAN
  /\ asks \in 0 .. MaxAsks
  /\ newest \in [Series -> 0 .. MaxAsks]
  /\ outcome \in [Asks -> Outcomes]

\* An answer may still come for ask k of s: it is pending, under way, or in
\* the response being handled.
Waiting(s, k) == pending[s] = k
InFlight(s, k) == \E r \in flights : r.queries[s] = k
BeingServed(s, k) == answering /\ serving[s] = k /\ s \in unread
Owed(s, k) == Waiting(s, k) \/ InFlight(s, k) \/ BeingServed(s, k)

(***************************************************************************)
(* No spinner is left turning: a series that shows `loading' has an answer *)
(* or a cancellation of its newest query to come, unless it is disposed or *)
(* a response left that query out; and DataQuery.loading is true only      *)
(* while a request is under way.  Relates the flags, which several         *)
(* overlapping requests set and clear, to the pending map and requests.    *)
(***************************************************************************)
SpinnersAreOwed ==
  /\ \A s \in live : loading[s] =>
       /\ newest[s] # 0
       /\ Owed(s, newest[s]) \/ s \in reader \/ outcome[newest[s]] = "omitted"
  /\ busy => flights # {} \/ answering

(***************************************************************************)
(* Debouncing loses nothing: of the asks of a live series the newest is    *)
(* owed an answer or has had its outcome.                                  *)
(***************************************************************************)
NewestAskSurvives ==
  \A s \in live : newest[s] # 0 =>
    Owed(s, newest[s]) \/ outcome[newest[s]] # "none"

(***************************************************************************)
(* Each ask is in one place at most, so it can be answered at most once    *)
(* and never after it failed.                                              *)
(***************************************************************************)
AskInOnePlace ==
  \A s \in Series, k \in Asks :
    /\ Owed(s, k) => outcome[k] = "none"
    /\ Waiting(s, k) => ~InFlight(s, k) /\ ~BeingServed(s, k)
    /\ InFlight(s, k) => ~BeingServed(s, k)
    /\ \A q, r \in flights : q.queries[s] = k /\ r.queries[s] = k => q = r

(***************************************************************************)
(* dispose() takes effect at once: no request issued later carries the     *)
(* series, whatever the timer and the handler on the stack were doing.     *)
(***************************************************************************)
DisposedNeverRequested ==
  [][\A r \in flights' \ flights : \A s \in Series \ live : r.queries[s] = 0]_vars

(***************************************************************************)
(* A pending query is stranded when nothing will issue it.  Once a fetcher *)
(* is connected no step strands one.                                       *)
(***************************************************************************)
Stranded == pending # NoQueries /\ timer = NoTimer
NeverStranded == [][connected /\ ~Stranded => ~Stranded']_vars

(***************************************************************************)
(* A series that loads, and is not stranded, stops loading, unless it is   *)
(* disposed first or a response leaves it out.                             *)
(***************************************************************************)
LoadingEnds ==
  \A s \in Series :
    (connected /\ ~Stranded /\ s \in live /\ loading[s])
      ~> (~loading[s] \/ s \notin live \/ outcome[newest[s]] = "omitted")

(***************************************************************************)
(* The core keeps the promise of SeriesPromise: read through this mapping, *)
(* its steps are steps of the promise.                                     *)
(***************************************************************************)
Status == [k \in Asks |->
  IF k > asks THEN "unasked"
  ELSE IF \E s \in Series : Waiting(s, k) THEN "waiting"
  ELSE IF \E s \in Series : InFlight(s, k) \/ BeingServed(s, k) THEN "sent"
  ELSE IF outcome[k] \in {"answered", "failed"} THEN outcome[k]
  ELSE "dropped"]

Promise == INSTANCE SeriesPromise WITH status <- Status, gone <- Series \ live
KeepsPromise == Promise!Spec
=============================================================================
