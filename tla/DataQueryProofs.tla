--------------------------- MODULE DataQueryProofs ---------------------------
(***************************************************************************)
(* Proofs that the properties of DataQuery hold, and that it implements    *)
(* SeriesPromise, for every set of series, every number of asks and every  *)
(* debounce window.                                                        *)
(***************************************************************************)
EXTENDS DataQuery, TLAPS

(***************************************************************************)
(* The inductive invariant.  Its heart is that asks are placed: an ask     *)
(* that some series still waits for is in exactly one of the pending map,  *)
(* a request and the response being handled, it belongs to one series, and *)
(* its outcome is open.                                                    *)
(***************************************************************************)

\* Between handlers nothing of the response loop is left.
HandlerFrame ==
  /\ ~answering => serving = NoQueries /\ unread = {} /\ reader = {}
  /\ \A s, t \in reader : s = t

\* Request ids are fresh.
IdsFresh ==
  /\ \A r \in flights : r.id <= issued
  /\ \A q, r \in flights : q.id = r.id => q = r

\* The pending map holds newest asks, of series that are not disposed.
PendingIsNewest ==
  \A s \in Series : pending[s] # 0 => pending[s] = newest[s] /\ s \in live

Held(s, k) == newest[s] = k \/ Owed(s, k)

\* An ask that exists has been counted, and belongs to one series.
AsksCounted == \A s \in Series, k \in Asks : Held(s, k) => k <= asks
OneOwner == \A s, t \in Series, k \in Asks : Held(s, k) /\ Held(t, k) => s = t
Unasked == \A k \in Asks : k > asks => outcome[k] = "none"

Placed ==
  /\ HandlerFrame /\ IdsFresh /\ PendingIsNewest
  /\ AsksCounted /\ OneOwner /\ Unasked
  /\ AskInOnePlace /\ NewestAskSurvives /\ SpinnersAreOwed

IInv == TypeOK /\ Placed

-----------------------------------------------------------------------------
(* Type correctness *)

USE MaxAsksAssumption, WindowAssumption

LEMMA NoQueriesType == NoQueries \in QueryMap
BY DEF NoQueries, QueryMap

LEMMA TypeInit == Init => TypeOK
<1> SUFFICES ASSUME Init PROVE TypeOK
  OBVIOUS
<1>1. signal \in [Series -> BOOLEAN] /\ loading \in [Series -> BOOLEAN]
  BY Zenon DEF Init
<1>2. newest \in [Series -> 0 .. MaxAsks] /\ outcome \in [Asks -> Outcomes]
  BY DEF Init, Outcomes
<1>3. timer \in {NoTimer} \cup 0 .. Window /\ asks \in 0 .. MaxAsks /\ issued \in Nat
  BY DEF Init
<1>4. /\ pending \in QueryMap /\ serving \in QueryMap
      /\ flights \subseteq [id : Nat, queries : QueryMap]
      /\ live \subseteq Series /\ unread \subseteq Series /\ reader \subseteq Series
  BY NoQueriesType DEF Init
<1>5. connected \in BOOLEAN /\ debounced \in BOOLEAN /\ busy \in BOOLEAN /\ answering \in BOOLEAN
  BY DEF Init
<1> QED
  BY <1>1, <1>2, <1>3, <1>4, <1>5 DEF TypeOK

\* The pending map and the requests keep their types when a query is issued.
LEMMA TypeIssue ==
  ASSUME TypeOK, NEW queries \in QueryMap, IssueQuery(queries)
  PROVE  /\ pending' \in QueryMap
         /\ flights' \subseteq [id : Nat, queries : QueryMap]
         /\ issued' \in Nat
         /\ busy' \in BOOLEAN
<1>1. CASE connected
  <2>1. [id |-> issued + 1, queries |-> queries] \in [id : Nat, queries : QueryMap]
    BY DEF TypeOK
  <2> QED
    BY <1>1, <2>1, NoQueriesType DEF TypeOK, IssueQuery
<1>2. CASE ~connected
  BY <1>2 DEF TypeOK, IssueQuery
<1> QED
  BY <1>1, <1>2

LEMMA TypeNext == TypeOK /\ [Next]_vars => TypeOK'
<1> SUFFICES ASSUME TypeOK, [Next]_vars PROVE TypeOK'
  OBVIOUS
<1> USE DEF queryVars, seriesVars, handlerVars, historyVars
<1>1. CASE Connect
  BY <1>1 DEF Connect, TypeOK
<1>2. CASE Tick
  BY <1>2 DEF Tick, TypeOK, NoTimer
<1>3. CASE TimerFires
  <2>1. pending \in QueryMap
    BY DEF TypeOK
  <2> QED
    BY <1>3, <2>1, TypeIssue DEF TimerFires, TypeOK
<1>4. ASSUME NEW r \in flights, NEW present \in SUBSET Series, Respond(r, present)
      PROVE TypeOK'
  <2>1. r.queries \in QueryMap
    BY DEF TypeOK
  <2>2. outcome' \in [Asks -> Outcomes]
    BY <1>4 DEF Respond, TypeOK, Outcomes
  <2> QED
    BY <1>4, <2>1, <2>2 DEF Respond, TypeOK
<1>5. ASSUME NEW r \in flights, FetchError(r) PROVE TypeOK'
  <2>1. outcome' \in [Asks -> Outcomes]
    BY <1>5 DEF FetchError, TypeOK, Outcomes
  <2>2. loading' \in [Series -> BOOLEAN]
    BY <1>5, Zenon DEF FetchError, TypeOK
  <2> QED
    BY <1>5, <2>1, <2>2 DEF FetchError, TypeOK
<1>6. ASSUME NEW s \in Series, SkipUnknown(s) PROVE TypeOK'
  BY <1>6 DEF SkipUnknown, TypeOK
<1>7. ASSUME NEW s \in Series, DeliverResponse(s) PROVE TypeOK'
  <2>1. serving[s] \in Asks
    BY <1>7 DEF DeliverResponse, TypeOK, QueryMap, Asks
  <2> QED
    BY <1>7, <2>1 DEF DeliverResponse, TypeOK, Outcomes
<1>8. ASSUME NEW s \in Series, DeliveryReturns(s) PROVE TypeOK'
  BY <1>8 DEF DeliveryReturns, TypeOK
<1>9. CASE ResponseHandled
  BY <1>9, NoQueriesType DEF ResponseHandled, TypeOK
<1>10. ASSUME NEW s \in Series, FetchFalls(s) PROVE TypeOK'
  BY <1>10 DEF FetchFalls, TypeOK
<1>11. ASSUME NEW s \in Series, FetchRises(s) PROVE TypeOK'
  <2>1. [pending EXCEPT ![s] = asks + 1] \in QueryMap
    BY <1>11 DEF FetchRises, TypeOK, QueryMap
  <2>2. /\ pending' \in QueryMap
        /\ flights' \subseteq [id : Nat, queries : QueryMap]
        /\ issued' \in Nat
        /\ busy' \in BOOLEAN
        /\ timer' \in {NoTimer} \cup 0 .. Window
    BY <1>11, <2>1, TypeIssue DEF FetchRises, FetchDataSeries, TypeOK
  <2>3. asks' \in 0 .. MaxAsks /\ newest' \in [Series -> 0 .. MaxAsks]
    BY <1>11 DEF FetchRises, TypeOK
  <2> QED
    BY <1>11, <2>2, <2>3 DEF FetchRises, TypeOK
<1>12. ASSUME NEW s \in Series, Dispose(s) PROVE TypeOK'
  BY <1>12 DEF Dispose, CancelDataSeries, TypeOK, QueryMap
<1>13. CASE UNCHANGED vars
  BY <1>13 DEF vars, TypeOK
<1> QED
  BY <1>1, <1>2, <1>3, <1>4, <1>5, <1>6, <1>7, <1>8, <1>9, <1>10, <1>11, <1>12, <1>13
     DEF Next, Answer, HandlerStep

\* The state keeps its types (TypeOK of DataQuery).
THEOREM TypeCorrect == Spec => []TypeOK
<1>1. Init => TypeOK
  BY TypeInit
<1>2. TypeOK /\ [Next]_vars => TypeOK'
  BY TypeNext
<1> QED
  BY <1>1, <1>2, PTL DEF Spec

-----------------------------------------------------------------------------
(* Where the asks are *)

\* Sending a request r adds what r carries to what is under way, and taking r
\* out takes it away, when no other request carries the same.
LEMMA InFlightSent ==
  ASSUME NEW r, flights' = flights \cup {r}, NEW t \in Series, NEW k \in Asks
  PROVE  InFlight(t, k)' <=> InFlight(t, k) \/ r.queries[t] = k
BY DEF InFlight

LEMMA InFlightTaken ==
  ASSUME NEW r \in flights, flights' = flights \ {r}, NEW t \in Series, NEW k \in Asks,
         \A q \in flights : q.queries[t] = k /\ r.queries[t] = k => q = r
  PROVE  InFlight(t, k)' <=> InFlight(t, k) /\ r.queries[t] # k
BY DEF InFlight

LEMMA PlacedInit == Init => Placed
<1> SUFFICES ASSUME Init PROVE Placed
  OBVIOUS
<1>1. \A s \in Series, k \in Asks : ~Owed(s, k) /\ ~Held(s, k)
  BY DEF Init, Owed, Held, Waiting, InFlight, BeingServed, NoQueries, Asks
<1>2. HandlerFrame /\ IdsFresh /\ PendingIsNewest /\ AsksCounted /\ OneOwner /\ Unasked
  BY <1>1 DEF Init, HandlerFrame, IdsFresh, PendingIsNewest, AsksCounted, OneOwner,
              Unasked, NoQueries
<1>3. AskInOnePlace
  BY <1>1 DEF Init, AskInOnePlace, Owed
<1>4. NewestAskSurvives /\ SpinnersAreOwed
  BY DEF Init, NewestAskSurvives, SpinnersAreOwed
<1> QED
  BY <1>2, <1>3, <1>4 DEF Placed

\* A step that moves no query and no flag keeps every ask where it is.
LEMMA PlacedQuiet ==
  ASSUME Placed,
         UNCHANGED <<pending, flights, issued, busy, live, loading, handlerVars, historyVars>>
  PROVE  Placed'
BY DEF Placed, HandlerFrame, IdsFresh, PendingIsNewest, AsksCounted, OneOwner, Unasked,
       AskInOnePlace, NewestAskSurvives, SpinnersAreOwed, Held, Owed, Waiting, InFlight,
       BeingServed, handlerVars, historyVars, NoQueries

LEMMA PlacedSkipUnknown ==
  ASSUME TypeOK, Placed, NEW s \in Series, SkipUnknown(s)
  PROVE  Placed'
<1> USE DEF SkipUnknown, queryVars, seriesVars, historyVars
<1>1. \A t \in Series, k \in Asks :
        /\ Waiting(t, k)' <=> Waiting(t, k)
        /\ InFlight(t, k)' <=> InFlight(t, k)
        /\ BeingServed(t, k)' <=> BeingServed(t, k)
  BY DEF Waiting, InFlight, BeingServed, Asks
<1>2. \A t \in Series, k \in Asks : (Owed(t, k)' <=> Owed(t, k)) /\ (Held(t, k)' <=> Held(t, k))
  BY <1>1 DEF Owed, Held
<1>3. HandlerFrame' /\ IdsFresh' /\ PendingIsNewest' /\ Unasked'
  BY DEF Placed, HandlerFrame, IdsFresh, PendingIsNewest, Unasked, NoQueries
<1>4. AsksCounted' /\ OneOwner'
  BY <1>2 DEF Placed, AsksCounted, OneOwner
<1>5. AskInOnePlace'
  BY <1>1, <1>2 DEF Placed, AskInOnePlace
<1>6. \A t \in Series : newest[t] # 0 => newest[t] \in Asks
  BY DEF TypeOK, Asks
<1>7. NewestAskSurvives'
  BY <1>2, <1>6 DEF Placed, NewestAskSurvives, TypeOK
<1>8. SpinnersAreOwed'
  BY <1>2, <1>6 DEF Placed, SpinnersAreOwed, TypeOK
<1> QED
  BY <1>3, <1>4, <1>5, <1>7, <1>8 DEF Placed

\* A response takes its queries out of the requests: the series it has data
\* for are served, the others have their outcome.
LEMMA PlacedRespond ==
  ASSUME TypeOK, Placed, NEW r \in flights, NEW present \in SUBSET Series, Respond(r, present)
  PROVE  Placed'
<1> USE DEF Respond, seriesVars
<1>1. /\ r.queries \in QueryMap
      /\ \A t \in Series : newest[t] # 0 => newest[t] \in Asks
  BY DEF TypeOK, Asks
<1>2. \A t \in Series, k \in Asks :
        /\ Waiting(t, k)' <=> Waiting(t, k)
        /\ InFlight(t, k)' <=> InFlight(t, k) /\ r.queries[t] # k
        /\ BeingServed(t, k)' <=> r.queries[t] = k /\ t \in present
        /\ ~BeingServed(t, k)
  <2>1. \A t \in Series, k \in Asks : \A q \in flights :
          q.queries[t] = k /\ r.queries[t] = k => q = r
    BY DEF Placed, AskInOnePlace
  <2> QED
    BY <2>1 DEF Waiting, InFlight, BeingServed, Asks
<1>3. \A t \in Series, k \in Asks :
        /\ Owed(t, k)' <=> Owed(t, k) /\ ~(r.queries[t] = k /\ t \notin present)
        /\ Held(t, k)' => Held(t, k)
  <2>1. \A t \in Series, k \in Asks : r.queries[t] = k => InFlight(t, k) /\ ~Waiting(t, k)
    BY DEF InFlight, Placed, AskInOnePlace
  <2> QED
    BY <1>2, <2>1 DEF Owed, Held
<1>4. \A t \in Series, k \in Asks :
        r.queries[t] = k => Owed(t, k) /\ Held(t, k) /\ k <= asks
  BY DEF Owed, Held, InFlight, Placed, AsksCounted
<1>5. \A k \in Asks :
        /\ outcome'[k] # outcome[k] =>
             \E t \in Series \ present : r.queries[t] = k
        /\ \A t \in Series \ present : r.queries[t] = k => outcome'[k] = "omitted"
        /\ outcome[k] # "none" => outcome'[k] # "none"
  BY DEF TypeOK
<1>6. HandlerFrame' /\ IdsFresh' /\ PendingIsNewest'
  BY DEF Placed, HandlerFrame, IdsFresh, PendingIsNewest
<1>7. Unasked'
  BY <1>4, <1>5 DEF Placed, Unasked, TypeOK, Asks
<1>8. AsksCounted' /\ OneOwner'
  BY <1>3 DEF Placed, AsksCounted, OneOwner
<1>9. AskInOnePlace'
  <2> SUFFICES ASSUME NEW t \in Series, NEW k \in Asks
               PROVE  /\ Owed(t, k)' => outcome'[k] = "none"
                      /\ Waiting(t, k)' => ~InFlight(t, k)' /\ ~BeingServed(t, k)'
                      /\ InFlight(t, k)' => ~BeingServed(t, k)'
                      /\ \A q, u \in flights' :
                           q.queries[t] = k /\ u.queries[t] = k => q = u
    BY DEF AskInOnePlace
  <2>1. Owed(t, k)' => outcome'[k] = "none"
    <3> SUFFICES ASSUME Owed(t, k)' PROVE outcome'[k] = outcome[k]
      BY <1>3 DEF Placed, AskInOnePlace
    <3>1. \A u \in Series \ present : r.queries[u] = k => u = t
      BY <1>3, <1>4 DEF Placed, OneOwner, Held
    <3> QED
      BY <1>3, <1>5, <3>1
  <2>2. r.queries[t] = k => ~Waiting(t, k)
    BY DEF InFlight, Placed, AskInOnePlace
  <2> QED
    BY <1>2, <2>1, <2>2 DEF Placed, AskInOnePlace
<1>10. NewestAskSurvives'
  BY <1>1, <1>3, <1>5 DEF Placed, NewestAskSurvives, TypeOK
<1>11. SpinnersAreOwed'
  <2>1. reader = {}
    BY DEF Placed, HandlerFrame
  <2>2. \A t \in live : loading[t] =>
          newest[t] \in Asks /\ (Owed(t, newest[t])' \/ outcome'[newest[t]] = "omitted")
    <3> SUFFICES ASSUME NEW t \in live, loading[t], ~Owed(t, newest[t])'
                 PROVE  newest[t] \in Asks /\ outcome'[newest[t]] = "omitted"
      BY <1>1 DEF Placed, SpinnersAreOwed, TypeOK
    <3>1. newest[t] \in Asks /\ (Owed(t, newest[t]) \/ outcome[newest[t]] = "omitted")
      BY <1>1, <2>1 DEF Placed, SpinnersAreOwed, TypeOK
    <3> QED
      BY <1>3, <1>5, <3>1 DEF TypeOK
  <2> QED
    BY <2>2 DEF SpinnersAreOwed, Asks
<1> QED
  BY <1>6, <1>7, <1>8, <1>9, <1>10, <1>11 DEF Placed

\* Delivering a response settles one ask.
LEMMA PlacedDeliver ==
  ASSUME TypeOK, Placed, NEW s \in Series, DeliverResponse(s)
  PROVE  Placed'
<1> USE DEF DeliverResponse, queryVars, seriesVars
<1>1. /\ serving[s] \in Asks
      /\ \A t \in Series : newest[t] # 0 => newest[t] \in Asks
  BY DEF TypeOK, QueryMap, Asks
<1>2. \A t \in Series, k \in Asks :
        /\ Waiting(t, k)' <=> Waiting(t, k)
        /\ InFlight(t, k)' <=> InFlight(t, k)
        /\ BeingServed(t, k)' <=> BeingServed(t, k) /\ t # s
  BY DEF Waiting, InFlight, BeingServed
<1>3. BeingServed(s, serving[s]) /\ Owed(s, serving[s]) /\ Held(s, serving[s])
  BY DEF BeingServed, Owed, Held
<1>4. \A t \in Series, k \in Asks :
        /\ Owed(t, k)' <=> Owed(t, k) /\ ~(t = s /\ k = serving[s])
        /\ Held(t, k)' => Held(t, k)
  <2>1. \A k \in Asks : BeingServed(s, k) => k = serving[s]
    BY DEF BeingServed
  <2>2. ~Waiting(s, serving[s]) /\ ~InFlight(s, serving[s])
    BY <1>1, <1>3 DEF Placed, AskInOnePlace
  <2> QED
    BY <1>2, <2>1, <2>2 DEF Owed, Held
<1>5. \A k \in Asks : outcome'[k] = IF k = serving[s] THEN "answered" ELSE outcome[k]
  BY <1>1 DEF TypeOK
<1>6. HandlerFrame' /\ IdsFresh' /\ PendingIsNewest'
  BY DEF Placed, HandlerFrame, IdsFresh, PendingIsNewest
<1>7. Unasked'
  BY <1>1, <1>3, <1>5 DEF Placed, Unasked, AsksCounted, TypeOK, Asks
<1>8. AsksCounted' /\ OneOwner'
  BY <1>4 DEF Placed, AsksCounted, OneOwner
<1>9. AskInOnePlace'
  <2>1. \A t \in Series, k \in Asks : Owed(t, k)' => outcome'[k] = "none"
    BY <1>1, <1>3, <1>4, <1>5 DEF Placed, AskInOnePlace, OneOwner, Held
  <2> QED
    BY <1>2, <2>1 DEF Placed, AskInOnePlace
<1>10. NewestAskSurvives'
  BY <1>1, <1>4, <1>5 DEF Placed, NewestAskSurvives, TypeOK
<1>11. SpinnersAreOwed'
  <2> SUFFICES ASSUME NEW t \in live, loading[t]
               PROVE  /\ newest[t] # 0
                      /\ Owed(t, newest[t])' \/ t \in reader' \/ outcome'[newest[t]] = "omitted"
    BY DEF Placed, SpinnersAreOwed
  <2>1. newest[t] \in Asks /\ (Owed(t, newest[t]) \/ outcome[newest[t]] = "omitted")
    BY <1>1 DEF Placed, SpinnersAreOwed, TypeOK
  <2>2. outcome[serving[s]] = "none"
    BY <1>1, <1>3 DEF Placed, AskInOnePlace
  <2> QED
    BY <1>4, <1>5, <2>1, <2>2 DEF TypeOK, Asks
<1> QED
  BY <1>6, <1>7, <1>8, <1>9, <1>10, <1>11 DEF Placed

LEMMA PlacedDeliveryReturns ==
  ASSUME TypeOK, Placed, NEW s \in Series, DeliveryReturns(s)
  PROVE  Placed'
<1> USE DEF DeliveryReturns, queryVars, historyVars
<1>1. \A t \in Series : \A k :
        /\ Waiting(t, k)' <=> Waiting(t, k)
        /\ InFlight(t, k)' <=> InFlight(t, k)
        /\ BeingServed(t, k)' <=> BeingServed(t, k)
        /\ Owed(t, k)' <=> Owed(t, k)
        /\ Held(t, k)' <=> Held(t, k)
  BY DEF Waiting, InFlight, BeingServed, Owed, Held
<1>2. HandlerFrame' /\ IdsFresh' /\ PendingIsNewest' /\ Unasked'
  BY DEF Placed, HandlerFrame, IdsFresh, PendingIsNewest, Unasked
<1>3. AsksCounted' /\ OneOwner' /\ AskInOnePlace'
  BY <1>1 DEF Placed, AsksCounted, OneOwner, AskInOnePlace
<1>4. NewestAskSurvives'
  BY <1>1 DEF Placed, NewestAskSurvives, TypeOK
<1>5. SpinnersAreOwed'
  <2>1. \A t \in live : loading'[t] => loading[t] /\ t # s
    BY Zenon DEF TypeOK
  <2> QED
    BY <1>1, <2>1 DEF Placed, SpinnersAreOwed, TypeOK
<1> QED
  BY <1>2, <1>3, <1>4, <1>5 DEF Placed

LEMMA PlacedResponseHandled ==
  ASSUME TypeOK, Placed, ResponseHandled
  PROVE  Placed'
<1> USE DEF ResponseHandled, seriesVars, historyVars
<1>1. \A t \in Series : \A k :
        /\ Waiting(t, k)' <=> Waiting(t, k)
        /\ InFlight(t, k)' <=> InFlight(t, k)
        /\ BeingServed(t, k)' <=> BeingServed(t, k)
        /\ Owed(t, k)' <=> Owed(t, k)
        /\ Held(t, k)' <=> Held(t, k)
  BY DEF Waiting, InFlight, BeingServed, Owed, Held
<1>2. HandlerFrame' /\ IdsFresh' /\ PendingIsNewest' /\ Unasked'
  BY DEF Placed, HandlerFrame, IdsFresh, PendingIsNewest, Unasked
<1>3. AsksCounted' /\ OneOwner' /\ AskInOnePlace'
  BY <1>1 DEF Placed, AsksCounted, OneOwner, AskInOnePlace
<1>4. NewestAskSurvives' /\ SpinnersAreOwed'
  BY <1>1 DEF Placed, NewestAskSurvives, SpinnersAreOwed, TypeOK
<1> QED
  BY <1>2, <1>3, <1>4 DEF Placed

\* An error settles every ask of the request.
LEMMA PlacedFetchError ==
  ASSUME TypeOK, Placed, NEW r \in flights, FetchError(r)
  PROVE  Placed'
<1> USE DEF FetchError, handlerVars
<1>1. /\ r.queries \in QueryMap
      /\ \A t \in Series : newest[t] # 0 => newest[t] \in Asks
  BY DEF TypeOK, Asks
<1>2. \A t \in Series, k \in Asks :
        /\ Waiting(t, k)' <=> Waiting(t, k)
        /\ InFlight(t, k)' <=> InFlight(t, k) /\ r.queries[t] # k
        /\ ~BeingServed(t, k) /\ ~BeingServed(t, k)'
        /\ r.queries[t] = k => InFlight(t, k) /\ ~Waiting(t, k)
  <2>1. \A t \in Series, k \in Asks : \A q \in flights :
          q.queries[t] = k /\ r.queries[t] = k => q = r
    BY DEF Placed, AskInOnePlace
  <2>2. \A t \in Series, k \in Asks : r.queries[t] = k => InFlight(t, k) /\ ~Waiting(t, k)
    BY DEF InFlight, Placed, AskInOnePlace
  <2>3. \A t \in Series, k \in Asks : InFlight(t, k)' <=> InFlight(t, k) /\ r.queries[t] # k
    BY <2>1, InFlightTaken
  <2> QED
    BY <2>2, <2>3 DEF Waiting, BeingServed
<1>3. \A t \in Series, k \in Asks :
        /\ Owed(t, k)' <=> Owed(t, k) /\ r.queries[t] # k
        /\ Held(t, k)' => Held(t, k)
        /\ r.queries[t] = k => Owed(t, k) /\ Held(t, k)
  BY <1>2 DEF Owed, Held
<1>4. \A k \in Asks :
        /\ outcome'[k] # outcome[k] => \E t \in Series : r.queries[t] = k
        /\ outcome[k] # "none" => outcome'[k] # "none"
        /\ \A t \in Series : r.queries[t] = k => outcome'[k] # "none"
  BY DEF TypeOK
<1>5. HandlerFrame' /\ IdsFresh' /\ PendingIsNewest'
  BY DEF Placed, HandlerFrame, IdsFresh, PendingIsNewest
<1>6. Unasked'
  BY <1>3, <1>4 DEF Placed, Unasked, AsksCounted, TypeOK, Asks
<1>7. AsksCounted' /\ OneOwner'
  BY <1>3 DEF Placed, AsksCounted, OneOwner
<1>8. AskInOnePlace'
  <2>1. ASSUME NEW t \in Series, NEW k \in Asks, Owed(t, k)' PROVE outcome'[k] = "none"
    <3>1. Owed(t, k) /\ r.queries[t] # k /\ Held(t, k)
      BY <1>3, <2>1 DEF Held
    <3>2. ~\E u \in Series : r.queries[u] = k
      BY <1>3, <3>1 DEF Placed, OneOwner
    <3> QED
      BY <1>4, <3>1, <3>2 DEF Placed, AskInOnePlace
  <2> QED
    BY <1>2, <2>1 DEF Placed, AskInOnePlace
<1>9. NewestAskSurvives'
  BY <1>1, <1>3, <1>4 DEF Placed, NewestAskSurvives, TypeOK
<1>10. SpinnersAreOwed'
  <2> SUFFICES ASSUME NEW t \in live, loading'[t]
               PROVE  /\ newest[t] # 0
                      /\ Owed(t, newest[t])' \/ outcome'[newest[t]] = "omitted"
    BY DEF SpinnersAreOwed
  <2>1. loading[t] /\ r.queries[t] = 0
    BY Zenon DEF TypeOK
  <2>2. newest[t] \in Asks /\ (Owed(t, newest[t]) \/ outcome[newest[t]] = "omitted")
    BY <1>1, <2>1 DEF Placed, SpinnersAreOwed, HandlerFrame, TypeOK
  <2>3. CASE Owed(t, newest[t])
    BY <1>3, <2>1, <2>2, <2>3 DEF TypeOK, Asks
  <2>4. CASE outcome[newest[t]] = "omitted"
    <3>1. ~\E u \in Series : r.queries[u] = newest[t]
      BY <1>3, <2>2, <2>4 DEF Placed, AskInOnePlace
    <3> QED
      BY <1>4, <2>2, <2>4, <3>1 DEF TypeOK, Asks
  <2> QED
    BY <2>2, <2>3, <2>4
<1> QED
  BY <1>5, <1>6, <1>7, <1>8, <1>9, <1>10 DEF Placed

LEMMA PlacedDispose ==
  ASSUME TypeOK, Placed, NEW s \in Series, Dispose(s)
  PROVE  Placed'
<1> USE DEF Dispose, CancelDataSeries, handlerVars, historyVars
<1>1. \A t \in Series : newest[t] # 0 => newest[t] \in Asks
  BY DEF TypeOK, Asks
<1>2. \A t \in Series, k \in Asks :
        /\ Waiting(t, k)' <=> Waiting(t, k) /\ t # s
        /\ InFlight(t, k)' <=> InFlight(t, k)
        /\ BeingServed(t, k)' <=> BeingServed(t, k)
  BY DEF Waiting, InFlight, BeingServed, TypeOK, QueryMap, Asks
<1>3. \A t \in Series, k \in Asks :
        /\ Owed(t, k)' => Owed(t, k)
        /\ t # s => (Owed(t, k)' <=> Owed(t, k))
        /\ Held(t, k)' => Held(t, k)
  BY <1>2 DEF Owed, Held
<1>4. HandlerFrame' /\ IdsFresh' /\ PendingIsNewest' /\ Unasked'
  BY DEF Placed, HandlerFrame, IdsFresh, PendingIsNewest, Unasked, TypeOK, QueryMap
<1>5. AsksCounted' /\ OneOwner'
  BY <1>3 DEF Placed, AsksCounted, OneOwner
<1>6. AskInOnePlace'
  BY <1>2, <1>3 DEF Placed, AskInOnePlace
<1>7. NewestAskSurvives' /\ SpinnersAreOwed'
  BY <1>1, <1>3 DEF Placed, NewestAskSurvives, SpinnersAreOwed, TypeOK
<1> QED
  BY <1>4, <1>5, <1>6, <1>7 DEF Placed

(***************************************************************************)
(* Issuing queries moves every pending ask into one new request.  The map  *)
(* that is issued may hold one ask more than the pending map does, made in *)
(* the same step.                                                          *)
(***************************************************************************)
LEMMA PlacedTimerFires ==
  ASSUME TypeOK, Placed, TimerFires, connected
  PROVE  Placed'
<1> USE DEF TimerFires, IssueQuery, seriesVars, handlerVars, historyVars
<1> DEFINE new == [id |-> issued + 1, queries |-> pending]
<1>1. /\ \A t \in Series : newest[t] # 0 => newest[t] \in Asks
      /\ flights' = flights \cup {new}
      /\ \A r \in flights : r.id # new.id
      /\ issued \in Nat /\ \A r \in flights : r.id \in Nat
  BY DEF TypeOK, Asks, Placed, IdsFresh
<1>2. \A t \in Series, k \in Asks :
        /\ ~Waiting(t, k)'
        /\ InFlight(t, k)' <=> InFlight(t, k) \/ Waiting(t, k)
        /\ BeingServed(t, k)' <=> BeingServed(t, k)
  <2>1. \A t \in Series, k \in Asks : InFlight(t, k)' <=> InFlight(t, k) \/ new.queries[t] = k
    BY <1>1, InFlightSent
  <2> QED
    BY <2>1 DEF Waiting, BeingServed, NoQueries, Asks
<1>3. \A t \in Series, k \in Asks : (Owed(t, k)' <=> Owed(t, k)) /\ (Held(t, k)' <=> Held(t, k))
  BY <1>2 DEF Owed, Held
<1>4. HandlerFrame' /\ PendingIsNewest' /\ Unasked'
  BY DEF Placed, HandlerFrame, PendingIsNewest, Unasked, NoQueries
<1>5. IdsFresh'
  BY <1>1 DEF Placed, IdsFresh
<1>6. AsksCounted' /\ OneOwner'
  BY <1>3 DEF Placed, AsksCounted, OneOwner
<1>7. AskInOnePlace'
  <2>1. \A t \in Series, k \in Asks : \A q, r \in flights' :
          q.queries[t] = k /\ r.queries[t] = k => q = r
    BY <1>1 DEF Placed, AskInOnePlace, InFlight, Waiting
  <2> QED
    BY <1>2, <1>3, <2>1 DEF Placed, AskInOnePlace
<1>8. NewestAskSurvives' /\ SpinnersAreOwed'
  BY <1>1, <1>3 DEF Placed, NewestAskSurvives, SpinnersAreOwed, TypeOK
<1> QED
  BY <1>4, <1>5, <1>6, <1>7, <1>8 DEF Placed

LEMMA PlacedFetchRises ==
  ASSUME TypeOK, Placed, NEW s \in Series, FetchRises(s)
  PROVE  Placed'
<1> USE DEF FetchRises, handlerVars
<1>0. PICK k0 \in Asks : k0 = asks + 1
  BY DEF TypeOK, Asks
<1> DEFINE queries == [pending EXCEPT ![s] = k0]
           new == [id |-> issued + 1, queries |-> queries]
<1>1. /\ \A t \in Series : newest[t] # 0 => newest[t] \in Asks
      /\ asks \in Nat /\ asks' = k0
      /\ queries \in QueryMap /\ queries[s] = k0
      /\ \A t \in Series : t # s => queries[t] = pending[t]
      /\ newest' \in [Series -> 0 .. MaxAsks] /\ newest'[s] = k0
      /\ \A t \in Series : t # s => newest'[t] = newest[t]
  BY <1>0 DEF TypeOK, Asks, QueryMap
<1>2. \A t \in Series : ~Held(t, k0) /\ ~Owed(t, k0) /\ outcome[k0] = "none"
  BY <1>0, <1>1 DEF Held, Placed, AsksCounted, Unasked, Asks
\* Where the asks are afterwards, whether the query was issued or not.
<1>3. /\ \/ pending' = queries /\ flights' = flights /\ issued' = issued /\ busy' = busy
         \/ pending' = NoQueries /\ flights' = flights \cup {new} /\ issued' = issued + 1 /\ busy'
      /\ \A t \in Series, k \in Asks :
           BeingServed(t, k)' <=> BeingServed(t, k)
  BY <1>0 DEF FetchDataSeries, IssueQuery, BeingServed
<1>4. \A t \in Series, k \in Asks :
        /\ Waiting(t, k)' \/ InFlight(t, k)' <=> queries[t] = k \/ InFlight(t, k)
        /\ Waiting(t, k)' => queries[t] = k /\ ~InFlight(t, k)'
        /\ InFlight(t, k)' => InFlight(t, k) \/ queries[t] = k
        /\ queries[t] = k => ~InFlight(t, k) /\ ~BeingServed(t, k)
        /\ \A q, r \in flights' : q.queries[t] = k /\ r.queries[t] = k => q = r
  <2> SUFFICES ASSUME NEW t \in Series, NEW k \in Asks
      PROVE /\ Waiting(t, k)' \/ InFlight(t, k)' <=> queries[t] = k \/ InFlight(t, k)
            /\ Waiting(t, k)' => queries[t] = k /\ ~InFlight(t, k)'
            /\ InFlight(t, k)' => InFlight(t, k) \/ queries[t] = k
            /\ queries[t] = k => ~InFlight(t, k) /\ ~BeingServed(t, k)
            /\ \A q, r \in flights' : q.queries[t] = k /\ r.queries[t] = k => q = r
    OBVIOUS
  <2>1. queries[t] = k => ~InFlight(t, k) /\ ~BeingServed(t, k)
    BY <1>1, <1>2 DEF Placed, AskInOnePlace, Waiting, Owed
  <2>2. CASE pending' = queries /\ flights' = flights
    BY <2>1, <2>2 DEF Waiting, InFlight, Placed, AskInOnePlace
  <2>3. CASE pending' = NoQueries /\ flights' = flights \cup {new}
    <3>1. ~Waiting(t, k)'
      BY <2>3 DEF Waiting, NoQueries, Asks
    <3>2. InFlight(t, k)' <=> InFlight(t, k) \/ queries[t] = k
      <4>1. InFlight(t, k)' <=> InFlight(t, k) \/ new.queries[t] = k
        BY <2>3, InFlightSent
      <4> QED
        BY <4>1
    <3>3. \A q, r \in flights' : q.queries[t] = k /\ r.queries[t] = k => q = r
      <4>1. \A q, r \in flights : q.queries[t] = k /\ r.queries[t] = k => q = r
        BY DEF Placed, AskInOnePlace
      <4>2. \A q \in flights : q.queries[t] = k => new.queries[t] # k
        BY <2>1 DEF InFlight
      <4> QED
        BY <2>3, <4>1, <4>2
    <3> QED
      BY <2>1, <3>1, <3>2, <3>3
  <2> QED
    BY <1>3, <2>2, <2>3
<1>5. \A t \in Series, k \in Asks :
        /\ Owed(t, k)' => Owed(t, k) \/ (t = s /\ k = k0)
        /\ t # s => (Owed(t, k)' <=> Owed(t, k))
        /\ Held(t, k)' => Held(t, k) \/ (t = s /\ k = k0)
  BY <1>1, <1>3, <1>4 DEF Owed, Held, Waiting
<1>6. Owed(s, k0)'
  BY <1>1, <1>4 DEF Owed
<1>7. HandlerFrame' /\ Unasked'
  BY <1>0, <1>1 DEF Placed, HandlerFrame, Unasked, TypeOK, Asks
<1>8. IdsFresh'
  BY <1>3 DEF Placed, IdsFresh, TypeOK
<1>9. PendingIsNewest'
  BY <1>1, <1>3 DEF Placed, PendingIsNewest, NoQueries
<1>10. AsksCounted' /\ OneOwner'
  BY <1>0, <1>1, <1>2, <1>5 DEF Placed, AsksCounted, OneOwner, Asks
<1>11. AskInOnePlace'
  <2>1. \A t \in Series, k \in Asks : Owed(t, k)' => outcome'[k] = "none"
    BY <1>2, <1>5 DEF Placed, AskInOnePlace
  <2>2. \A t \in Series, k \in Asks :
          /\ Waiting(t, k)' => ~InFlight(t, k)' /\ ~BeingServed(t, k)'
          /\ InFlight(t, k)' => ~BeingServed(t, k)'
    BY <1>3, <1>4 DEF Placed, AskInOnePlace
  <2> QED
    BY <1>4, <2>1, <2>2 DEF AskInOnePlace
<1>12. NewestAskSurvives'
  BY <1>1, <1>5, <1>6 DEF Placed, NewestAskSurvives, TypeOK
<1>13. SpinnersAreOwed'
  <2>1. \A t \in live' : loading'[t] =>
          /\ newest'[t] # 0
          /\ Owed(t, newest[t])' \/ t \in reader' \/ outcome'[newest'[t]] = "omitted"
    <3> SUFFICES ASSUME NEW t \in live, loading'[t]
        PROVE /\ newest'[t] # 0
              /\ Owed(t, newest[t])' \/ t \in reader \/ outcome[newest'[t]] = "omitted"
      OBVIOUS
    <3>1. CASE t = s
      BY <1>1, <1>6, <3>1 DEF Asks
    <3>2. CASE t # s
      BY <1>1, <1>5, <3>2 DEF Placed, SpinnersAreOwed, TypeOK
    <3> QED
      BY <3>1, <3>2
  <2>2. busy' => flights' # {} \/ answering'
    BY <1>3 DEF Placed, SpinnersAreOwed
  <2> QED
    BY <2>1, <2>2 DEF SpinnersAreOwed
<1> QED
  BY <1>7, <1>8, <1>9, <1>10, <1>11, <1>12, <1>13 DEF Placed

-----------------------------------------------------------------------------
(* The theorems *)

LEMMA PlacedNext == TypeOK /\ Placed /\ [Next]_vars => Placed'
<1> SUFFICES ASSUME TypeOK, Placed, [Next]_vars PROVE Placed'
  OBVIOUS
<1> USE DEF queryVars, seriesVars, historyVars
<1>1. CASE Connect
  BY <1>1, PlacedQuiet DEF Connect
<1>2. CASE Tick
  BY <1>2, PlacedQuiet DEF Tick
<1>3. CASE TimerFires
  <2>1. CASE connected
    BY <1>3, <2>1, PlacedTimerFires
  <2>2. CASE ~connected
    BY <1>3, <2>2, PlacedQuiet DEF TimerFires, IssueQuery
  <2> QED
    BY <2>1, <2>2
<1>4. ASSUME NEW r \in flights, NEW present \in SUBSET Series, Respond(r, present)
      PROVE Placed'
  BY <1>4, PlacedRespond
<1>5. ASSUME NEW r \in flights, FetchError(r) PROVE Placed'
  BY <1>5, PlacedFetchError
<1>6. ASSUME NEW s \in Series, SkipUnknown(s) PROVE Placed'
  BY <1>6, PlacedSkipUnknown
<1>7. ASSUME NEW s \in Series, DeliverResponse(s) PROVE Placed'
  BY <1>7, PlacedDeliver
<1>8. ASSUME NEW s \in Series, DeliveryReturns(s) PROVE Placed'
  BY <1>8, PlacedDeliveryReturns
<1>9. CASE ResponseHandled
  BY <1>9, PlacedResponseHandled
<1>10. ASSUME NEW s \in Series, FetchFalls(s) PROVE Placed'
  BY <1>10, PlacedQuiet DEF FetchFalls
<1>11. ASSUME NEW s \in Series, FetchRises(s) PROVE Placed'
  BY <1>11, PlacedFetchRises
<1>12. ASSUME NEW s \in Series, Dispose(s) PROVE Placed'
  BY <1>12, PlacedDispose
<1>13. CASE UNCHANGED vars
  BY <1>13, PlacedQuiet DEF vars
<1> QED
  BY <1>1, <1>2, <1>3, <1>4, <1>5, <1>6, <1>7, <1>8, <1>9, <1>10, <1>11, <1>12, <1>13
     DEF Next, Answer, HandlerStep

\* The inductive invariant holds in every state.
THEOREM Invariance == Spec => []IInv
<1>1. Init => IInv
  BY TypeInit, PlacedInit DEF IInv
<1>2. IInv /\ [Next]_vars => IInv'
  BY TypeNext, PlacedNext DEF IInv
<1> QED
  BY <1>1, <1>2, PTL DEF Spec

\* No spinner is left turning without an answer or a cancellation to come
\* (SpinnersAreOwed of DataQuery).
THEOREM Spinners == Spec => []SpinnersAreOwed
<1>1. IInv => SpinnersAreOwed
  BY DEF IInv, Placed
<1> QED
  BY <1>1, Invariance, PTL

\* The newest ask of a live series is owed an answer or has its outcome:
\* replacing pending queries loses no request (NewestAskSurvives of DataQuery).
THEOREM NothingLost == Spec => []NewestAskSurvives
<1>1. IInv => NewestAskSurvives
  BY DEF IInv, Placed
<1> QED
  BY <1>1, Invariance, PTL

\* An ask is answered at most once, however requests overlap (AskInOnePlace of
\* DataQuery).
THEOREM OnePlace == Spec => []AskInOnePlace
<1>1. IInv => AskInOnePlace
  BY DEF IInv, Placed
<1> QED
  BY <1>1, Invariance, PTL

\* No request issued after dispose() carries the series (DisposedNeverRequested
\* of DataQuery): only live series are pending.
THEOREM DisposedStaysSilent == Spec => DisposedNeverRequested
<1> DEFINE Act == \A r \in flights' \ flights : \A s \in Series \ live : r.queries[s] = 0
<1>1. IInv /\ [Next]_vars => [Act]_vars
  <2> SUFFICES ASSUME IInv, Next PROVE Act
    OBVIOUS
  <2>1. \A s \in Series \ live : pending[s] = 0
    BY DEF IInv, Placed, PendingIsNewest
  <2>2. CASE TimerFires
    BY <2>1, <2>2 DEF TimerFires, IssueQuery
  <2>3. ASSUME NEW s \in Series, FetchRises(s) PROVE Act
    <3>1. \A t \in Series \ live : [pending EXCEPT ![s] = asks + 1][t] = 0
      BY <2>1, <2>3 DEF FetchRises, IInv, TypeOK, QueryMap
    <3>2. flights' \subseteq flights \cup
            {[id |-> issued + 1, queries |-> [pending EXCEPT ![s] = asks + 1]]}
      BY <2>3 DEF FetchRises, FetchDataSeries, IssueQuery
    <3>3. ASSUME NEW r \in flights' \ flights PROVE r.queries = [pending EXCEPT ![s] = asks + 1]
      BY <3>2, <3>3
    <3> QED
      BY <3>1, <3>3
  <2>4. ASSUME flights' \subseteq flights PROVE Act
    BY <2>4
  <2>5. ASSUME NEW r \in flights, Answer(r) PROVE Act
    BY <2>4, <2>5 DEF Answer, Respond, FetchError
  <2>6. ASSUME NEW s \in Series,
               SkipUnknown(s) \/ DeliverResponse(s) \/ DeliveryReturns(s)
        PROVE Act
    BY <2>4, <2>6 DEF SkipUnknown, DeliverResponse, DeliveryReturns, queryVars
  <2>7. ASSUME NEW s \in Series, FetchFalls(s) \/ Dispose(s) PROVE Act
    BY <2>4, <2>7 DEF FetchFalls, Dispose, queryVars
  <2>8. CASE Connect \/ Tick \/ ResponseHandled
    BY <2>4, <2>8 DEF Connect, Tick, ResponseHandled
  <2> QED
    BY <2>2, <2>3, <2>5, <2>6, <2>7, <2>8 DEF Next, HandlerStep
<1> QED
  BY <1>1, Invariance, PTL DEF Spec, DisposedNeverRequested

\* Once a fetcher is connected, a pending query always has a timer or is issued
\* in the step that adds it (NeverStranded of DataQuery).
THEOREM NoneStranded == Spec => NeverStranded
<1> DEFINE Act == connected /\ ~Stranded => ~Stranded'
<1>1. TypeOK /\ [Next]_vars => [Act]_vars
  <2> SUFFICES ASSUME TypeOK, Next, connected, ~Stranded PROVE ~Stranded'
    OBVIOUS
  <2>1. ASSUME pending' = pending, timer' = timer PROVE ~Stranded'
    BY <2>1 DEF Stranded
  <2>2. CASE Tick
    BY <2>2 DEF Tick, Stranded, NoTimer, TypeOK
  <2>3. CASE TimerFires
    BY <2>3 DEF TimerFires, IssueQuery, Stranded
  <2>4. ASSUME NEW s \in Series, FetchRises(s) PROVE ~Stranded'
    BY <2>4 DEF FetchRises, FetchDataSeries, IssueQuery, Stranded, NoTimer
  <2>5. ASSUME NEW s \in Series, Dispose(s) PROVE ~Stranded'
    <3>1. pending = NoQueries => [pending EXCEPT ![s] = 0] = NoQueries
      BY DEF NoQueries
    <3> QED
      BY <2>5, <3>1 DEF Dispose, CancelDataSeries, Stranded
  <2>6. ASSUME NEW r \in flights, Answer(r) PROVE ~Stranded'
    BY <2>1, <2>6 DEF Answer, Respond, FetchError
  <2>7. ASSUME NEW s \in Series,
               SkipUnknown(s) \/ DeliverResponse(s) \/ DeliveryReturns(s) \/ FetchFalls(s)
        PROVE ~Stranded'
    BY <2>1, <2>7 DEF SkipUnknown, DeliverResponse, DeliveryReturns, FetchFalls, queryVars
  <2>8. CASE Connect \/ ResponseHandled
    BY <2>1, <2>8 DEF Connect, ResponseHandled
  <2> QED
    BY <2>2, <2>3, <2>4, <2>5, <2>6, <2>7, <2>8 DEF Next, HandlerStep
<1> QED
  BY <1>1, TypeCorrect, PTL DEF Spec, NeverStranded

-----------------------------------------------------------------------------
(***************************************************************************)
(* DataQuery implements SeriesPromise.  By the invariant above an ask that *)
(* is not done is in one place; each lemma below follows the asks one      *)
(* action moves from place to place, and so their status.                  *)
(***************************************************************************)

\* Where an ask is, whatever its series.
Waits(k) == \E s \in Series : Waiting(s, k)
Sent(k) == \E s \in Series : InFlight(s, k) \/ BeingServed(s, k)

\* An ask that waits or was sent has been made, is in one of the two places
\* only, and has no outcome.
LEMMA WaitsOrSent ==
  ASSUME IInv, NEW k \in Asks
  PROVE  /\ Waits(k) => k <= asks /\ ~Sent(k) /\ outcome[k] = "none"
         /\ Sent(k) => k <= asks /\ ~Waits(k) /\ outcome[k] = "none"
<1>1. \A s \in Series : Owed(s, k) => k <= asks /\ outcome[k] = "none"
  BY DEF IInv, Placed, AsksCounted, Held, AskInOnePlace
<1>2. ASSUME Waits(k), Sent(k) PROVE FALSE
  <2>1. PICK s \in Series : Waiting(s, k)
    BY <1>2 DEF Waits
  <2>2. PICK t \in Series : InFlight(t, k) \/ BeingServed(t, k)
    BY <1>2 DEF Sent
  <2>3. s = t
    BY <2>1, <2>2 DEF IInv, Placed, OneOwner, Held, Owed
  <2> QED
    BY <2>1, <2>2, <2>3 DEF IInv, Placed, AskInOnePlace
<1> QED
  BY <1>1, <1>2 DEF Waits, Sent, Owed

\* The status of each ask, place by place.
StatusByPlace ==
  \A k \in Asks :
    /\ Status[k] = "unasked" <=> k > asks
    /\ Status[k] = "waiting" <=> Waits(k)
    /\ Status[k] = "sent" <=> Sent(k)
    /\ k <= asks /\ ~Waits(k) /\ ~Sent(k) =>
         Status[k] = IF outcome[k] \in {"answered", "failed"} THEN outcome[k] ELSE "dropped"

LEMMA StatusOf == IInv => StatusByPlace
<1> SUFFICES ASSUME IInv, NEW k \in Asks
    PROVE  /\ Status[k] = "unasked" <=> k > asks
           /\ Status[k] = "waiting" <=> Waits(k)
           /\ Status[k] = "sent" <=> Sent(k)
           /\ k <= asks /\ ~Waits(k) /\ ~Sent(k) =>
                Status[k] = IF outcome[k] \in {"answered", "failed"} THEN outcome[k] ELSE "dropped"
  BY DEF StatusByPlace
<1>1. Status[k] = IF k > asks THEN "unasked"
                  ELSE IF Waits(k) THEN "waiting"
                  ELSE IF Sent(k) THEN "sent"
                  ELSE IF outcome[k] \in {"answered", "failed"} THEN outcome[k]
                  ELSE "dropped"
  BY DEF Status, Waits, Sent
<1>2. asks \in Nat /\ k \in Nat
  BY DEF IInv, TypeOK, Asks
<1> QED
  BY <1>1, <1>2, WaitsOrSent

LEMMA StatusNext == IInv' => StatusByPlace'
BY StatusOf, PTL

StatusDomain == Status = [k \in Asks |-> Status[k]]
LEMMA StatusIsFunction == StatusDomain
BY DEF Status, StatusDomain
LEMMA StatusNextIsFunction == StatusDomain'
BY StatusIsFunction, PTL

\* A step that moves no ask leaves the status of all as it is.
LEMMA NoneMoves ==
  ASSUME StatusByPlace, StatusByPlace', asks' = asks, outcome' = outcome,
         \A k \in Asks : (Waits(k)' <=> Waits(k)) /\ (Sent(k)' <=> Sent(k)),
         asks \in Nat
  PROVE  Status' = Status
<1>1. ASSUME NEW k \in Asks PROVE Status'[k] = Status[k]
  <2>1. CASE k > asks
    BY <2>1 DEF StatusByPlace
  <2>2. CASE k <= asks
    BY <2>2 DEF StatusByPlace
  <2> QED
    BY <2>1, <2>2 DEF Asks
<1> QED
  BY <1>1, StatusIsFunction, StatusNextIsFunction DEF StatusDomain

\* What a step of the core is in SeriesPromise.
PromiseStep == [Promise!Next]_<<Status, newest, Series \ live>>

StepFacts == IInv /\ IInv' /\ StatusByPlace /\ StatusByPlace'

\* Steps that move no ask and dispose of no series.
LEMMA StutterSteps ==
  ASSUME StepFacts,
         \/ Connect \/ Tick \/ ResponseHandled \/ UNCHANGED vars
         \/ \E s \in Series : SkipUnknown(s) \/ DeliveryReturns(s) \/ FetchFalls(s)
  PROVE  PromiseStep
<1>1. asks' = asks /\ outcome' = outcome /\ newest' = newest /\ live' = live /\ flights' = flights
      /\ pending' = pending
  BY DEF Connect, Tick, ResponseHandled, SkipUnknown, DeliveryReturns, FetchFalls,
         vars, queryVars, seriesVars, handlerVars, historyVars
<1>2. ASSUME NEW k \in Asks, NEW s \in Series PROVE BeingServed(s, k)' <=> BeingServed(s, k)
  <2>1. CASE ResponseHandled
    BY <2>1 DEF ResponseHandled, BeingServed
  <2>2. ASSUME NEW t \in Series, SkipUnknown(t) PROVE BeingServed(s, k)' <=> BeingServed(s, k)
    BY <2>2 DEF SkipUnknown, BeingServed, Asks
  <2>3. ASSUME NEW t \in Series, DeliveryReturns(t) \/ FetchFalls(t)
        PROVE BeingServed(s, k)' <=> BeingServed(s, k)
    BY <2>3 DEF DeliveryReturns, FetchFalls, BeingServed, handlerVars
  <2>4. CASE Connect \/ Tick \/ UNCHANGED vars
    BY <2>4 DEF Connect, Tick, vars, BeingServed, handlerVars
  <2> QED
    BY <2>1, <2>2, <2>3, <2>4
<1>3. \A k \in Asks : (Waits(k)' <=> Waits(k)) /\ (Sent(k)' <=> Sent(k))
  BY <1>1, <1>2 DEF Waits, Waiting, Sent, InFlight
<1>4. Status' = Status
  BY <1>1, <1>3, NoneMoves DEF StepFacts, IInv, TypeOK
<1> QED
  BY <1>1, <1>4 DEF PromiseStep

\* A new request carries what its queries name.
LEMMA NewFlight ==
  ASSUME NEW n, NEW q, flights' = flights \cup {[id |-> n, queries |-> q]},
         NEW s, NEW k
  PROVE  InFlight(s, k)' <=> InFlight(s, k) \/ q[s] = k
<1> DEFINE f == [id |-> n, queries |-> q]
<1>1. f.queries = q
  OBVIOUS
<1>2. f \in flights' /\ \A r \in flights' : r \in flights \/ r = f
  OBVIOUS
<1> HIDE DEF f
<1>3. \A r \in flights : r \in flights'
  OBVIOUS
<1> QED
  BY <1>1, <1>2, <1>3 DEF InFlight

\* Sending the pending map: what waited is sent, and nothing else moves.
LEMMA SendStep ==
  ASSUME StepFacts, TimerFires
  PROVE  PromiseStep
<1> USE DEF StepFacts
<1>1. asks' = asks /\ outcome' = outcome /\ newest' = newest /\ live' = live
      /\ answering' = answering /\ serving' = serving /\ unread' = unread
  BY DEF TimerFires, seriesVars, handlerVars, historyVars
<1>2. asks \in Nat /\ \A k \in Asks : k \in Nat /\ k # 0
  BY DEF IInv, TypeOK, Asks
<1>3. CASE ~connected
  <2>1. pending' = pending /\ flights' = flights
    BY <1>3 DEF TimerFires, IssueQuery
  <2>2. \A k \in Asks : (Waits(k)' <=> Waits(k)) /\ (Sent(k)' <=> Sent(k))
    BY <1>1, <2>1 DEF Waits, Waiting, Sent, InFlight, BeingServed
  <2>3. Status' = Status
    BY <1>1, <1>2, <2>2, NoneMoves
  <2> QED
    BY <1>1, <2>3 DEF PromiseStep
<1>4. CASE connected
  <2>1. /\ pending' = NoQueries
        /\ flights' = flights \cup {[id |-> issued + 1, queries |-> pending]}
    BY <1>4 DEF TimerFires, IssueQuery
  <2>2. ASSUME NEW k \in Asks PROVE ~Waits(k)' /\ (Sent(k)' <=> Sent(k) \/ Waits(k))
    <3>1. ~Waits(k)'
      BY <1>2, <2>1 DEF Waits, Waiting, NoQueries
    <3>2. \A s \in Series : InFlight(s, k)' <=> InFlight(s, k) \/ Waiting(s, k)
      BY <2>1, NewFlight DEF Waiting
    <3>3. \A s \in Series : BeingServed(s, k)' <=> BeingServed(s, k)
      BY <1>1 DEF BeingServed
    <3> QED
      BY <3>1, <3>2, <3>3 DEF Sent, Waits
  <2>3. ASSUME NEW k \in Asks
        PROVE Status'[k] = IF Status[k] = "waiting" THEN "sent" ELSE Status[k]
    <3>1. Waits(k) => k <= asks
      BY WaitsOrSent
    <3>2. k > asks \/ k <= asks
      BY <1>2
    <3> QED
      BY <1>1, <2>2, <3>1, <3>2 DEF StatusByPlace
  <2>4. Status' = [k \in Asks |-> IF Status[k] = "waiting" THEN "sent" ELSE Status[k]]
    BY <2>3, StatusNextIsFunction DEF StatusDomain
  <2>5. Promise!Send
    BY <1>1, <2>4 DEF Promise!Send, Promise!Turn, Promise!Asks, Asks
  <2> QED
    BY <2>5 DEF PromiseStep, Promise!Next
<1> QED
  BY <1>3, <1>4

\* The arrival of a response gives up the asks it leaves out, and no other.
LEMMA RespondStep ==
  ASSUME StepFacts, NEW r \in flights, NEW present \in SUBSET Series, Respond(r, present)
  PROVE  PromiseStep
<1> USE DEF StepFacts
<1> DEFINE Left(k) == \E s \in Series \ present : r.queries[s] = k
<1>1. /\ pending' = pending /\ asks' = asks /\ newest' = newest /\ live' = live
      /\ flights' = flights \ {r} /\ ~answering /\ answering' = TRUE
      /\ serving' = r.queries /\ unread' = present
      /\ outcome' = [k \in Asks |-> IF Left(k) THEN "omitted" ELSE outcome[k]]
  BY DEF Respond, seriesVars
<1>2. asks \in Nat /\ \A k \in Asks : k \in Nat
  BY DEF IInv, TypeOK, Asks
<1>3. ASSUME NEW k \in Asks
      PROVE  /\ Waits(k)' <=> Waits(k)
             /\ Left(k) => Sent(k) /\ ~Sent(k)'
             /\ ~Left(k) => (Sent(k)' <=> Sent(k))
  <2>1. Waits(k)' <=> Waits(k)
    BY <1>1 DEF Waits, Waiting
  <2>2. \A s \in Series : ~BeingServed(s, k) /\ (BeingServed(s, k)' <=> r.queries[s] = k /\ s \in present)
    BY <1>1 DEF BeingServed
  <2>3. ASSUME NEW s \in Series, r.queries[s] = k
        PROVE Sent(k) /\ ~InFlight(s, k)'
    <3>1. \A q \in flights : q.queries[s] = k => q = r
      BY <2>3 DEF IInv, Placed, AskInOnePlace
    <3> QED
      BY <1>1, <2>3, <3>1 DEF InFlight, Sent
  <2>4. ASSUME NEW s \in Series, r.queries[s] = k, NEW t \in Series, Owed(t, k)
        PROVE s = t
    BY <2>4 DEF IInv, Placed, OneOwner, Held, Owed, InFlight
  <2>5. \A s \in Series : InFlight(s, k)' => InFlight(s, k)
    BY <1>1 DEF InFlight
  <2>6. \A s \in Series : InFlight(s, k) => InFlight(s, k)' \/ r.queries[s] = k
    BY <1>1 DEF InFlight
  <2>7. ASSUME Left(k) PROVE ~Sent(k)'
    <3>1. PICK s \in Series \ present : r.queries[s] = k
      BY <2>7
    <3>2. ASSUME NEW t \in Series, InFlight(t, k)' \/ BeingServed(t, k)' PROVE FALSE
      <4>1. t = s
        BY <2>2, <2>4, <2>5, <3>1, <3>2 DEF Owed, InFlight
      <4> QED
        BY <2>2, <2>3, <3>1, <3>2, <4>1
    <3> QED
      BY <3>2 DEF Sent
  <2>8. ASSUME ~Left(k) PROVE Sent(k)' <=> Sent(k)
    BY <2>2, <2>3, <2>5, <2>6, <2>8 DEF Sent
  <2> QED
    BY <2>1, <2>3, <2>7, <2>8
<1> DEFINE some == {k \in Asks : Left(k)}
<1>4. ASSUME NEW k \in Asks
      PROVE  Status'[k] = IF k \in some THEN "dropped" ELSE Status[k]
  <2>1. CASE Left(k)
    <3>1. k <= asks /\ ~Waits(k) /\ ~Sent(k)' /\ outcome'[k] = "omitted"
      BY <1>1, <1>3, <2>1, WaitsOrSent
    <3> QED
      BY <1>1, <1>3, <2>1, <3>1 DEF StatusByPlace
  <2>2. CASE ~Left(k)
    <3>1. outcome'[k] = outcome[k]
      BY <1>1, <2>2
    <3>2. (k > asks \/ k <= asks) /\ k \notin some
      BY <1>2, <2>2
    <3> HIDE DEF some, Left
    <3> QED
      BY <1>1, <1>3, <2>2, <3>1, <3>2 DEF StatusByPlace
  <2> QED
    BY <2>1, <2>2
<1>5. Status' = [k \in Asks |-> IF k \in some THEN "dropped" ELSE Status[k]]
  <2> HIDE DEF some
  <2> QED
    BY <1>4, StatusNextIsFunction DEF StatusDomain
<1>6. some \in SUBSET {k \in Asks : Status[k] = "sent"}
  BY <1>3 DEF StatusByPlace
<1>7. Promise!GiveUp("dropped")
  <2> HIDE DEF some
  <2> QED
    BY <1>1, <1>5, <1>6 DEF Promise!GiveUp, Promise!Asks, Asks
<1> QED
  BY <1>7 DEF PromiseStep, Promise!Next

\* A fetch that fails gives up the asks of its request, and no other.
LEMMA ErrorStep ==
  ASSUME StepFacts, NEW r \in flights, FetchError(r)
  PROVE  PromiseStep
<1> USE DEF StepFacts
<1> DEFINE Left(k) == \E s \in Series : r.queries[s] = k
<1>1. /\ pending' = pending /\ asks' = asks /\ newest' = newest /\ live' = live
      /\ flights' = flights \ {r}
      /\ answering' = answering /\ serving' = serving /\ unread' = unread
      /\ outcome' = [k \in Asks |-> IF Left(k) THEN "failed" ELSE outcome[k]]
  BY DEF FetchError, handlerVars
<1>2. asks \in Nat /\ \A k \in Asks : k \in Nat
  BY DEF IInv, TypeOK, Asks
<1>3. ASSUME NEW k \in Asks
      PROVE  /\ Waits(k)' <=> Waits(k)
             /\ Left(k) => Sent(k) /\ ~Sent(k)'
             /\ ~Left(k) => (Sent(k)' <=> Sent(k))
  <2>1. Waits(k)' <=> Waits(k)
    BY <1>1 DEF Waits, Waiting
  <2>2. \A s \in Series : BeingServed(s, k)' <=> BeingServed(s, k)
    BY <1>1 DEF BeingServed
  <2>3. ASSUME NEW s \in Series, r.queries[s] = k
        PROVE Sent(k) /\ ~InFlight(s, k)' /\ ~BeingServed(s, k)
    <3>1. \A q \in flights : q.queries[s] = k => q = r
      BY <2>3 DEF IInv, Placed, AskInOnePlace
    <3>2. InFlight(s, k)
      BY <2>3 DEF InFlight
    <3>3. ~BeingServed(s, k)
      BY <3>2 DEF IInv, Placed, AskInOnePlace
    <3> QED
      BY <1>1, <2>3, <3>1, <3>2, <3>3 DEF InFlight, Sent
  <2>4. ASSUME NEW s \in Series, r.queries[s] = k, NEW t \in Series, Owed(t, k)
        PROVE s = t
    BY <2>4 DEF IInv, Placed, OneOwner, Held, Owed, InFlight
  <2>5. \A s \in Series : InFlight(s, k)' => InFlight(s, k)
    BY <1>1 DEF InFlight
  <2>6. \A s \in Series : InFlight(s, k) => InFlight(s, k)' \/ r.queries[s] = k
    BY <1>1 DEF InFlight
  <2>7. ASSUME Left(k) PROVE ~Sent(k)'
    <3>1. PICK s \in Series : r.queries[s] = k
      BY <2>7
    <3>2. ASSUME NEW t \in Series, InFlight(t, k)' \/ BeingServed(t, k)' PROVE FALSE
      <4>1. t = s
        BY <2>2, <2>4, <2>5, <3>1, <3>2 DEF Owed
      <4> QED
        BY <2>2, <2>3, <3>1, <3>2, <4>1
    <3> QED
      BY <3>2 DEF Sent
  <2>8. ASSUME ~Left(k) PROVE Sent(k)' <=> Sent(k)
    BY <2>2, <2>5, <2>6, <2>8 DEF Sent
  <2> QED
    BY <2>1, <2>3, <2>7, <2>8
<1> DEFINE some == {k \in Asks : Left(k)}
<1>4. ASSUME NEW k \in Asks
      PROVE  Status'[k] = IF k \in some THEN "failed" ELSE Status[k]
  <2>1. CASE Left(k)
    <3>1. k <= asks /\ ~Waits(k) /\ ~Sent(k)' /\ outcome'[k] = "failed"
      BY <1>1, <1>3, <2>1, WaitsOrSent
    <3> QED
      BY <1>1, <1>3, <2>1, <3>1 DEF StatusByPlace
  <2>2. CASE ~Left(k)
    <3>1. outcome'[k] = outcome[k]
      BY <1>1, <2>2
    <3>2. (k > asks \/ k <= asks) /\ k \notin some
      BY <1>2, <2>2
    <3> HIDE DEF some, Left
    <3> QED
      BY <1>1, <1>3, <2>2, <3>1, <3>2 DEF StatusByPlace
  <2> QED
    BY <2>1, <2>2
<1>5. Status' = [k \in Asks |-> IF k \in some THEN "failed" ELSE Status[k]]
  <2> HIDE DEF some
  <2> QED
    BY <1>4, StatusNextIsFunction DEF StatusDomain
<1>6. some \in SUBSET {k \in Asks : Status[k] = "sent"}
  BY <1>3 DEF StatusByPlace
<1>7. Promise!GiveUp("failed")
  <2> HIDE DEF some
  <2> QED
    BY <1>1, <1>5, <1>6 DEF Promise!GiveUp, Promise!Asks, Asks
<1> QED
  BY <1>7 DEF PromiseStep, Promise!Next

\* Delivering to a series answers the ask it was sent with, and no other.
LEMMA DeliverStep ==
  ASSUME StepFacts, NEW s \in Series, DeliverResponse(s)
  PROVE  PromiseStep
<1> USE DEF StepFacts
<1>0. PICK heard \in Asks : heard = serving[s]
  BY DEF DeliverResponse, IInv, TypeOK, QueryMap, Asks
<1>1. /\ pending' = pending /\ asks' = asks /\ newest' = newest /\ live' = live
      /\ flights' = flights /\ answering' = answering /\ serving' = serving
      /\ unread' = unread \ {s} /\ answering /\ s \in unread
      /\ outcome' = [outcome EXCEPT ![heard] = "answered"]
  BY <1>0 DEF DeliverResponse, queryVars, seriesVars
<1>2. asks \in Nat /\ \A k \in Asks : k \in Nat
  BY DEF IInv, TypeOK, Asks
<1>3. outcome'[heard] = "answered" /\ \A k \in Asks : k # heard => outcome'[k] = outcome[k]
  BY <1>1 DEF IInv, TypeOK
<1>4. BeingServed(s, heard)
  BY <1>0, <1>1 DEF BeingServed
<1>5. \A t \in Series, k \in Asks :
        /\ Waiting(t, k)' <=> Waiting(t, k)
        /\ InFlight(t, k)' <=> InFlight(t, k)
        /\ BeingServed(t, k)' <=> BeingServed(t, k) /\ t # s
  BY <1>1 DEF Waiting, InFlight, BeingServed
<1>6. \A k \in Asks : BeingServed(s, k) => k = heard
  BY <1>0 DEF BeingServed
<1>7. \A t \in Series : Owed(t, heard) => t = s
  BY <1>3, <1>4 DEF IInv, Placed, OneOwner, Held, Owed
<1>8. ~InFlight(s, heard)
  BY <1>3, <1>4 DEF IInv, Placed, AskInOnePlace
<1>9. Sent(heard) /\ ~Sent(heard)'
  BY <1>3, <1>4, <1>5, <1>7, <1>8 DEF Sent, Owed
<1>10. \A k \in Asks : Waits(k)' <=> Waits(k)
  BY <1>5 DEF Waits
<1>11. \A k \in Asks : k # heard => (Sent(k)' <=> Sent(k))
  BY <1>5, <1>6 DEF Sent
<1>12. ASSUME NEW k \in Asks
       PROVE  Status'[k] = IF k = heard THEN "answered" ELSE Status[k]
  <2>1. CASE k = heard
    <3>1. k <= asks /\ ~Waits(k)
      BY <1>9, <2>1, WaitsOrSent
    <3> QED
      BY <1>1, <1>3, <1>9, <1>10, <2>1, <3>1 DEF StatusByPlace
  <2>2. CASE k # heard
    <3>1. k > asks \/ k <= asks
      BY <1>2
    <3> QED
      BY <1>1, <1>3, <1>10, <1>11, <2>2, <3>1 DEF StatusByPlace
  <2> QED
    BY <2>1, <2>2
<1>13. Status' = [Status EXCEPT ![heard] = "answered"]
  BY <1>12, StatusIsFunction, StatusNextIsFunction DEF StatusDomain
<1>14. Promise!Hear(heard)
  BY <1>1, <1>3, <1>9, <1>13 DEF Promise!Hear, StatusByPlace
<1> QED
  BY <1>3, <1>14 DEF PromiseStep, Promise!Next, Promise!Asks, Asks

\* Disposal drops the ask of the series that waits, and no other.
LEMMA DisposeStep ==
  ASSUME StepFacts, NEW s \in Series, Dispose(s)
  PROVE  PromiseStep
<1> USE DEF StepFacts
<1>1. /\ pending' = [pending EXCEPT ![s] = 0] /\ asks' = asks /\ newest' = newest
      /\ live' = live \ {s} /\ s \in live
      /\ flights' = flights /\ answering' = answering /\ serving' = serving
      /\ unread' = unread /\ outcome' = outcome
  BY DEF Dispose, CancelDataSeries, handlerVars, historyVars
<1>2. asks \in Nat /\ \A k \in Asks : k \in Nat /\ k # 0
  BY DEF IInv, TypeOK, Asks
<1>3. pending'[s] = 0 /\ \A t \in Series : t # s => pending'[t] = pending[t]
  BY <1>1 DEF IInv, TypeOK, QueryMap
<1>4. \A k \in Asks : Sent(k)' <=> Sent(k)
  BY <1>1 DEF Sent, InFlight, BeingServed
<1>5. ASSUME NEW k \in Asks, Waiting(s, k)
      PROVE k = newest[s] /\ ~Waits(k)' /\ k <= asks /\ outcome[k] = "none" /\ ~Sent(k)
  <2>1. k = newest[s]
    BY <1>2, <1>5 DEF Waiting, IInv, Placed, PendingIsNewest
  <2>2. \A t \in Series : Waiting(t, k) => t = s
    BY <1>5 DEF IInv, Placed, OneOwner, Held, Owed
  <2>3. ~Waits(k)'
    BY <1>2, <1>3, <2>2 DEF Waits, Waiting
  <2> QED
    BY <1>5, <2>1, <2>3, WaitsOrSent DEF Waits
<1>6. \A k \in Asks : ~Waiting(s, k) => (Waits(k)' <=> Waits(k))
  BY <1>2, <1>3 DEF Waits, Waiting
<1>7. ASSUME NEW k \in Asks, k = newest[s], Waits(k) PROVE Waiting(s, k)
  BY <1>7 DEF Waits, IInv, Placed, OneOwner, Held, Owed
<1>8. ASSUME NEW k \in Asks
      PROVE  Status'[k] = IF k = newest[s] /\ Status[k] = "waiting" THEN "dropped" ELSE Status[k]
  <2>1. CASE Waiting(s, k)
    BY <1>1, <1>4, <1>5, <2>1 DEF StatusByPlace, Waits
  <2>2. CASE ~Waiting(s, k)
    <3>1. k > asks \/ k <= asks
      BY <1>2
    <3> QED
      BY <1>1, <1>4, <1>6, <1>7, <2>2, <3>1 DEF StatusByPlace
  <2> QED
    BY <2>1, <2>2
<1>9. Status' = [k \in Asks |-> IF k = newest[s] /\ Status[k] = "waiting" THEN "dropped" ELSE Status[k]]
  BY <1>8, StatusNextIsFunction DEF StatusDomain
<1>10. Promise!Leave(s)
  BY <1>1, <1>9 DEF Promise!Leave, Promise!Asks, Asks
<1> QED
  BY <1>10 DEF PromiseStep, Promise!Next

\* Where the asks are once a query is asked for: the new ask waits or is sent,
\* with all others that wait, and the one it replaces is in neither place.
LEMMA AskMoves ==
  ASSUME StepFacts, NEW s \in Series, FetchRises(s)
  PROVE  \E now \in {"waiting", "sent"} : \A k \in Asks :
           /\ Waits(k)' <=> now = "waiting" /\ (k = asks + 1 \/ (Waits(k) /\ ~Waiting(s, k)))
           /\ Sent(k)' <=> \/ Sent(k)
                           \/ now = "sent" /\ (k = asks + 1 \/ (Waits(k) /\ ~Waiting(s, k)))
<1> USE DEF StepFacts
<1> DEFINE queries == [pending EXCEPT ![s] = asks + 1]
           Pended(k) == \E t \in Series : queries[t] = k
<1>1. /\ FetchDataSeries(s, asks + 1)
      /\ answering' = answering /\ serving' = serving /\ unread' = unread
  BY DEF FetchRises, handlerVars
<1>2. asks \in Nat /\ \A k \in Asks : k \in Nat /\ k # 0
  BY DEF IInv, TypeOK, Asks
<1>3. ASSUME NEW k \in Asks
      PROVE Pended(k) <=> k = asks + 1 \/ (Waits(k) /\ ~Waiting(s, k))
  <2>1. queries[s] = asks + 1 /\ \A t \in Series : t # s => queries[t] = pending[t]
    BY DEF IInv, TypeOK, QueryMap
  <2>2. \A t \in Series : Waiting(s, k) /\ Waiting(t, k) => t = s
    BY DEF IInv, Placed, OneOwner, Held, Owed
  <2> HIDE DEF queries
  <2> QED
    BY <2>1, <2>2 DEF Waits, Waiting
<1>4. \A k \in Asks, t \in Series : BeingServed(t, k)' <=> BeingServed(t, k)
  BY <1>1 DEF BeingServed
<1>5. ASSUME pending' = queries, flights' = flights
      PROVE  \A k \in Asks : (Waits(k)' <=> Pended(k)) /\ (Sent(k)' <=> Sent(k))
  BY <1>4, <1>5 DEF Waits, Waiting, Sent, InFlight
<1>6. ASSUME pending' = NoQueries,
             flights' = flights \cup {[id |-> issued + 1, queries |-> queries]}
      PROVE  \A k \in Asks : ~Waits(k)' /\ (Sent(k)' <=> Sent(k) \/ Pended(k))
  <2> TAKE k \in Asks
  <2>1. ~Waits(k)'
    BY <1>2, <1>6 DEF Waits, Waiting, NoQueries
  <2> HIDE DEF queries
  <2>2. \A t \in Series : InFlight(t, k)' <=> InFlight(t, k) \/ queries[t] = k
    BY <1>6, NewFlight
  <2> QED
    BY <1>4, <2>1, <2>2 DEF Sent
<1>7. \/ pending' = queries /\ flights' = flights
      \/ pending' = NoQueries /\ flights' = flights \cup {[id |-> issued + 1, queries |-> queries]}
  BY <1>1 DEF FetchDataSeries, IssueQuery
<1> HIDE DEF Pended, queries
<1>8. CASE pending' = queries /\ flights' = flights
  <2> WITNESS "waiting" \in {"waiting", "sent"}
  <2> QED
    BY <1>3, <1>5, <1>8
<1>9. CASE pending' = NoQueries /\ flights' = flights \cup {[id |-> issued + 1, queries |-> queries]}
  <2> WITNESS "sent" \in {"waiting", "sent"}
  <2> QED
    BY <1>3, <1>6, <1>9
<1> QED
  BY <1>7, <1>8, <1>9

\* A rising edge of `fetch' is an ask of the promise.
LEMMA AskStep ==
  ASSUME StepFacts, NEW s \in Series, FetchRises(s)
  PROVE  PromiseStep
<1> USE DEF StepFacts
<1>1. /\ asks' = asks + 1 /\ newest' = [newest EXCEPT ![s] = asks + 1] /\ live' = live
      /\ s \in live /\ outcome' = outcome /\ asks + 1 \in Asks
  BY DEF FetchRises, IInv, TypeOK, Asks
<1>2. asks \in Nat /\ \A k \in Asks : k \in Nat /\ k # 0
  BY DEF IInv, TypeOK, Asks
<1>3. PICK now \in {"waiting", "sent"} : \A k \in Asks :
           /\ Waits(k)' <=> now = "waiting" /\ (k = asks + 1 \/ (Waits(k) /\ ~Waiting(s, k)))
           /\ Sent(k)' <=> \/ Sent(k)
                           \/ now = "sent" /\ (k = asks + 1 \/ (Waits(k) /\ ~Waiting(s, k)))
  BY AskMoves
<1> DEFINE Replaced(j) == j = newest[s] /\ Status[j] = "waiting"
<1>4. \A j \in Asks : Replaced(j) <=> Waiting(s, j)
  <2>1. ASSUME NEW j \in Asks, Waiting(s, j) PROVE j = newest[s] /\ Waits(j)
    BY <1>2, <2>1 DEF Waits, Waiting, IInv, Placed, PendingIsNewest
  <2>2. ASSUME NEW j \in Asks, j = newest[s], Waits(j) PROVE Waiting(s, j)
    BY <2>2 DEF Waits, IInv, Placed, OneOwner, Held, Owed
  <2> QED
    BY <2>1, <2>2 DEF StatusByPlace
<1>5. ASSUME NEW j \in Asks
      PROVE  Status'[j] = IF j = asks + 1 THEN now
                          ELSE IF Replaced(j) THEN "dropped"
                          ELSE IF now = "sent" THEN (IF Status[j] = "waiting" THEN "sent" ELSE Status[j])
                          ELSE Status[j]
  <2>1. CASE j = asks + 1
    BY <1>3, <2>1 DEF StatusByPlace
  <2>2. CASE j # asks + 1 /\ Replaced(j)
    <3>1. Waiting(s, j) /\ Waits(j)
      BY <1>4, <2>2 DEF Waits
    <3>2. j <= asks /\ ~Sent(j) /\ outcome[j] = "none"
      BY <3>1, WaitsOrSent
    <3>3. j <= asks' /\ ~Waits(j)' /\ ~Sent(j)'
      BY <1>1, <1>2, <1>3, <2>2, <3>1, <3>2
    <3> QED
      BY <1>1, <2>2, <3>2, <3>3 DEF StatusByPlace
  <2>3. CASE j # asks + 1 /\ ~Replaced(j)
    <3>1. ~Waiting(s, j)
      BY <1>4, <2>3
    <3>2. /\ Waits(j)' <=> now = "waiting" /\ Waits(j)
          /\ Sent(j)' <=> Sent(j) \/ (now = "sent" /\ Waits(j))
      BY <1>3, <2>3, <3>1
    <3>3. j > asks' <=> j > asks
      BY <1>1, <1>2, <2>3
    <3>4. j > asks \/ (j <= asks /\ j <= asks')
      BY <1>1, <1>2
    <3>5. (Waits(j) => j <= asks /\ ~Sent(j)) /\ (Sent(j) => j <= asks)
      BY WaitsOrSent
    <3>6. Status'[j] = IF now = "sent" THEN (IF Status[j] = "waiting" THEN "sent" ELSE Status[j])
                       ELSE Status[j]
      BY <1>1, <3>2, <3>3, <3>4, <3>5 DEF StatusByPlace
    <3> QED
      BY <2>3, <3>6
  <2> QED
    BY <2>1, <2>2, <2>3
<1>6. Status' = [j \in Asks |-> IF j = asks + 1 THEN now
                               ELSE IF Replaced(j) THEN "dropped"
                               ELSE IF now = "sent" THEN Promise!Turn("waiting", "sent")[j]
                               ELSE Status[j]]
  <2>1. \A j \in Asks : Promise!Turn("waiting", "sent")[j]
                          = IF Status[j] = "waiting" THEN "sent" ELSE Status[j]
    BY DEF Promise!Turn, Promise!Asks, Asks
  <2> HIDE DEF Replaced
  <2> QED
    BY <1>5, <2>1, StatusNextIsFunction DEF StatusDomain
<1>7. \A j \in Asks : Status[j] = "unasked" <=> j >= asks + 1
  BY <1>2 DEF StatusByPlace
<1>8. Promise!Ask(s, asks + 1)
  BY <1>1, <1>6, <1>7 DEF Promise!Ask, Promise!Asks, Asks
<1> QED
  BY <1>1, <1>8 DEF PromiseStep, Promise!Next, Promise!Asks, Asks

\* The core keeps its promise: it implements SeriesPromise through the mapping of
\* DataQuery (KeepsPromise), whatever the requests, disposals and errors.
THEOREM Refinement == Spec => KeepsPromise
<1>1. Init => Promise!Init
  <2> SUFFICES ASSUME Init PROVE Promise!Init
    OBVIOUS
  <2>1. asks = 0 /\ live = Series /\ newest = [s \in Series |-> 0]
    BY DEF Init
  <2>2. \A k \in Asks : k > 0
    BY DEF Asks
  <2>3. Status = [k \in Asks |-> "unasked"]
    BY <2>1, <2>2 DEF Status
  <2> QED
    BY <2>1, <2>3 DEF Promise!Init, Promise!Asks, Asks
<1>2. StepFacts /\ [Next]_vars => PromiseStep
  <2> SUFFICES ASSUME StepFacts, [Next]_vars PROVE PromiseStep
    OBVIOUS
  <2>1. ASSUME NEW r \in flights, Answer(r) PROVE PromiseStep
    BY <2>1, RespondStep, ErrorStep DEF Answer
  <2>2. ASSUME NEW s \in Series,
               SkipUnknown(s) \/ DeliverResponse(s) \/ DeliveryReturns(s)
        PROVE PromiseStep
    BY <2>2, StutterSteps, DeliverStep
  <2>3. ASSUME NEW s \in Series, FetchFalls(s) \/ FetchRises(s) \/ Dispose(s)
        PROVE PromiseStep
    BY <2>3, StutterSteps, AskStep, DisposeStep
  <2>4. CASE Connect \/ Tick \/ ResponseHandled \/ UNCHANGED vars
    BY <2>4, StutterSteps
  <2>5. CASE TimerFires
    BY <2>5, SendStep
  <2> QED
    BY <2>1, <2>2, <2>3, <2>4, <2>5 DEF Next, HandlerStep
<1>3. Spec => [](IInv /\ StatusByPlace)
  BY Invariance, StatusOf, PTL
<1>4. (IInv /\ StatusByPlace) /\ (IInv /\ StatusByPlace)' => StepFacts
  BY DEF StepFacts
<1> QED
  BY <1>1, <1>2, <1>3, <1>4, PTL DEF Spec, KeepsPromise, Promise!Spec, PromiseStep
==============================================================================
