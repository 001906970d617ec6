----------------------------- MODULE DataResponse -----------------------------
(***************************************************************************)
(* How the server answers one DataRequest: the HTTP handler                *)
(* (query_handler.go), the QueryDispatcher that hands the series requests  *)
(* to their data sources, one goroutine each (query_dispatcher.go), and    *)
(* the DataResponseBuilder with its string table that all goroutines fill  *)
(* at the same time (util.go).                                             *)
(*                                                                         *)
(* A data source is code outside this library.  What it does is chosen     *)
(* freely: for each of its series it applies property updates and errors,  *)
(* and it may give up with an error at any point.  A property update is    *)
(* the sequence of strings it looks up in the string table.                *)
(*                                                                         *)
(* Each critical section is one step.  Looking an index up is two of them: *)
(* one under the read lock and, if the string is not there, one under the  *)
(* write lock that looks again.                                            *)
(*                                                                         *)
(* An operator whose name begins with `Bad' is a plausible mistake in the  *)
(* definition that follows it; the properties below tell the two apart.    *)
(***************************************************************************)
EXTENDS Naturals, Sequences

CONSTANTS
  Requests,   \* DataSeriesRequests
  Sources,    \* data sources
  NoSource,   \* "no data source handles the query"
  Strings,
  Updates,    \* the property updates: sequences of strings
  MaxUpdates  \* bound: property updates of a data source

ASSUME NoSourceAssumption == NoSource \notin Sources
ASSUME UpdatesAssumption == Updates \subseteq Seq(Strings)
ASSUME MaxUpdatesAssumption == MaxUpdates \in Nat

VARIABLES
  \* the HTTP request
  phase,      \* "received", "dispatching", "waiting", "replied", "panicked"
  status,     \* of the HTTP response: the first that was written, or 0
  body,       \* what was written to its body: "error" text, "data"
  asked,      \* the DataSeriesRequests it carries
  handledBy,  \* dataSeriesQueryHandlers: the source of each request's query
  sent,       \* the Data that was written
  \* the DataResponseBuilder
  byIndex,    \* stringsByIndex
  toIndex,    \* stringsToIndices
  series,     \* DataSeries, in the order they were added
  cited,      \* the string/index pairs in the properties of all series
  erring,     \* the sources that added an error; hasError if there is one
  \* the goroutine of each source
  pc,         \* "absent", "idle", "building", "interning", "missed", "ended"
  todo,       \* its series requests that are not begun
  want,       \* the strings of its property update that have no index yet
  got,        \* the string/index pairs of that update
  updates,    \* how many property updates it made
  failed      \* the sources that returned an error

requestVars == <<phase, status, body, asked, handledBy, sent>>
builderVars == <<byIndex, toIndex, series, cited, erring>>
sourceVars  == <<pc, todo, want, got, updates, failed>>
vars == <<requestVars, builderVars, sourceVars>>

NoData == [table |-> <<>>, series |-> <<>>, cited |-> {}]

Init ==
  /\ phase = "received"
  /\ status = 0 /\ body = {}
  /\ asked \in SUBSET Requests
  /\ handledBy \in [Requests -> Sources \cup {NoSource}]
  /\ sent = NoData
  /\ byIndex = <<>>
  /\ toIndex = [s \in {} |-> 0]
  /\ series = <<>>
  /\ cited = {} /\ erring = {} /\ failed = {}
  /\ pc = [w \in Sources |-> "absent"]
  /\ todo = [w \in Sources |-> {}]
  /\ want = [w \in Sources |-> <<>>]
  /\ got = [w \in Sources |-> {}]
  /\ updates = [w \in Sources |-> 0]

-----------------------------------------------------------------------------
(* The HTTP handler and the dispatcher *)

\* Only the first status written counts.
Write(code, part) ==
  /\ status' = IF status = 0 THEN code ELSE status
  /\ body' = body \cup {part}

\* A form that does not parse is reported, and then handled all the same.
ReportBadForm ==
  /\ phase = "received" /\ status = 0
  /\ Write(400, "error")
  /\ UNCHANGED <<phase, asked, handledBy, sent, builderVars, sourceVars>>

RejectBadRequest ==
  /\ phase = "received"
  /\ Write(400, "error")
  /\ phase' = "replied"
  /\ UNCHANGED <<asked, handledBy, sent, builderVars, sourceVars>>

AcceptRequest ==
  /\ phase = "received"
  /\ phase' = "dispatching"
  /\ UNCHANGED <<status, body, asked, handledBy, sent, builderVars, sourceVars>>

RejectUnsupported ==
  /\ phase = "dispatching"
  /\ \E r \in asked : handledBy[r] = NoSource
  /\ Write(500, "error")
  /\ phase' = "replied"
  /\ UNCHANGED <<asked, handledBy, sent, builderVars, sourceVars>>

\* The body or one of its requests is the JSON null, which parses, and is a nil
\* pointer.  net/http recovers, and ends the connection.
Panic ==
  /\ phase = "dispatching"
  /\ phase' = "panicked"
  /\ UNCHANGED <<status, body, asked, handledBy, sent, builderVars, sourceVars>>

RequestsOf(w) == {r \in asked : handledBy[r] = w}

Dispatch ==
  /\ phase = "dispatching"
  /\ \A r \in asked : handledBy[r] # NoSource
  /\ phase' = "waiting"
  /\ todo' = [w \in Sources |-> RequestsOf(w)]
  /\ pc' = [w \in Sources |-> IF RequestsOf(w) = {} THEN "absent" ELSE "idle"]
  /\ UNCHANGED <<status, body, asked, handledBy, sent, builderVars>>
  /\ UNCHANGED <<want, got, updates, failed>>

BadAllEnded == \A w \in Sources : pc[w] = "ended"

\* errg.Wait() returns when every goroutine has ended.
AllEnded == \A w \in Sources : pc[w] \in {"absent", "ended"}
Good == failed = {} /\ erring = {}

BadReplyEarly ==
  /\ phase = "waiting"
  /\ \E w \in Sources : pc[w] \in {"absent", "ended"}
  /\ Good
  /\ Write(200, "data")
  /\ sent' = [table |-> byIndex, series |-> series, cited |-> cited]
  /\ phase' = "replied"
  /\ UNCHANGED <<asked, handledBy, builderVars, sourceVars>>

\* The Data is complete, and json.Marshal succeeds ...
ReplyData ==
  /\ phase = "waiting"
  /\ AllEnded /\ Good
  /\ Write(200, "data")
  /\ sent' = [table |-> byIndex, series |-> series, cited |-> cited]
  /\ phase' = "replied"
  /\ UNCHANGED <<asked, handledBy, builderVars, sourceVars>>

\* ... or there is an error, in a goroutine, a property or json.Marshal.
ReplyError ==
  /\ phase = "waiting"
  /\ AllEnded
  /\ Write(500, "error")
  /\ phase' = "replied"
  /\ UNCHANGED <<asked, handledBy, sent, builderVars, sourceVars>>

-----------------------------------------------------------------------------
(* A data source's goroutine *)

\* drb.DataSeries(r), under the builder's lock.
BeginSeries(w, r) ==
  /\ pc[w] \in {"idle", "building"}
  /\ r \in todo[w]
  /\ todo' = [todo EXCEPT ![w] = todo[w] \ {r}]
  /\ pc' = [pc EXCEPT ![w] = "building"]
  /\ series' = Append(series, r)
  /\ UNCHANGED <<requestVars, byIndex, toIndex, cited, erring, want, got, updates, failed>>

(***************************************************************************)
(* With() reads hasError without a lock.  A goroutine sees its own error;  *)
(* that of another it may see or not.  When it sees one, nothing changes.  *)
(***************************************************************************)
With(w, update) ==
  /\ pc[w] = "building"
  /\ w \notin erring
  /\ updates[w] < MaxUpdates
  /\ updates' = [updates EXCEPT ![w] = updates[w] + 1]
  /\ want' = [want EXCEPT ![w] = update]
  /\ pc' = [pc EXCEPT ![w] = "interning"]
  /\ UNCHANGED <<requestVars, builderVars, todo, got, failed>>

\* An update that fails is kept in the builder's errors; appendStrs() goes on to
\* look its strings up.
WithError(w) ==
  /\ pc[w] \in {"building", "interning"}
  /\ w \notin erring
  /\ erring' = erring \cup {w}
  /\ UNCHANGED <<requestVars, byIndex, toIndex, series, cited, sourceVars>>

\* The string at the head of want has index i.
Found(w, i) ==
  /\ got' = [got EXCEPT ![w] = got[w] \cup {[string |-> Head(want[w]), index |-> i]}]
  /\ want' = [want EXCEPT ![w] = Tail(want[w])]
  /\ pc' = [pc EXCEPT ![w] = "interning"]

LookUpHit(w) ==
  /\ pc[w] = "interning"
  /\ want[w] # <<>>
  /\ Head(want[w]) \in DOMAIN toIndex
  /\ Found(w, toIndex[Head(want[w])])
  /\ UNCHANGED <<requestVars, builderVars, todo, updates, failed>>

LookUpMiss(w) ==
  /\ pc[w] = "interning"
  /\ want[w] # <<>>
  /\ Head(want[w]) \notin DOMAIN toIndex
  /\ pc' = [pc EXCEPT ![w] = "missed"]
  /\ UNCHANGED <<requestVars, builderVars, todo, want, got, updates, failed>>

BadAddString(s) ==
  /\ byIndex' = Append(byIndex, s)
  /\ toIndex' = [t \in DOMAIN toIndex \cup {s} |-> IF t = s THEN Len(byIndex) - 1 ELSE toIndex[t]]

AddString(s) ==
  /\ byIndex' = Append(byIndex, s)
  /\ toIndex' = [t \in DOMAIN toIndex \cup {s} |-> IF t = s THEN Len(byIndex) ELSE toIndex[t]]

BadInsertBlindly(w) ==
  /\ pc[w] = "missed"
  /\ AddString(Head(want[w]))
  /\ Found(w, Len(byIndex))
  /\ UNCHANGED <<requestVars, series, cited, erring, todo, updates, failed>>

\* Under the write lock: another goroutine may have added the string.
Insert(w) ==
  /\ pc[w] = "missed"
  /\ LET s == Head(want[w])
     IN  \/ /\ s \in DOMAIN toIndex
            /\ Found(w, toIndex[s])
            /\ UNCHANGED <<byIndex, toIndex>>
         \/ /\ s \notin DOMAIN toIndex
            /\ AddString(s)
            /\ Found(w, Len(byIndex))
  /\ UNCHANGED <<requestVars, series, cited, erring, todo, updates, failed>>

\* All indices are known: the property is set.
SetProperty(w) ==
  /\ pc[w] = "interning"
  /\ want[w] = <<>>
  /\ cited' = cited \cup got[w]
  /\ got' = [got EXCEPT ![w] = {}]
  /\ pc' = [pc EXCEPT ![w] = "building"]
  /\ UNCHANGED <<requestVars, byIndex, toIndex, series, erring, todo, want, updates, failed>>

End(w) ==
  /\ pc[w] \in {"idle", "building"}
  /\ todo[w] = {}
  /\ pc' = [pc EXCEPT ![w] = "ended"]
  /\ UNCHANGED <<requestVars, builderVars, todo, want, got, updates, failed>>

Fail(w) ==
  /\ pc[w] \in {"idle", "building"}
  /\ pc' = [pc EXCEPT ![w] = "ended"]
  /\ failed' = failed \cup {w}
  /\ UNCHANGED <<requestVars, builderVars, todo, want, got, updates>>

-----------------------------------------------------------------------------
HandlerStep ==
  \/ ReportBadForm \/ RejectBadRequest \/ AcceptRequest
  \/ RejectUnsupported \/ Panic \/ Dispatch
  \/ ReplyData \/ ReplyError

SourceStep(w) ==
  \/ \E r \in Requests : BeginSeries(w, r)
  \/ \E update \in Updates : With(w, update)
  \/ WithError(w)
  \/ LookUpHit(w) \/ LookUpMiss(w) \/ Insert(w) \/ SetProperty(w)
  \/ End(w) \/ Fail(w)

Next == HandlerStep \/ \E w \in Sources : SourceStep(w)

(***************************************************************************)
(* The Go scheduler runs every goroutine that can run, and a data source   *)
(* ends: its code has no loop but the one over its series requests.        *)
(***************************************************************************)
Fairness == WF_vars(HandlerStep) /\ \A w \in Sources : WF_vars(SourceStep(w))

Spec == Init /\ [][Next]_vars
FairSpec == Spec /\ Fairness

-----------------------------------------------------------------------------
(* Properties *)

Pairs == [string : Strings, index : Nat]

\* The values the state may take.
TypeOK ==
  /\ phase \in {"received", "dispatching", "waiting", "replied", "panicked"}
  /\ status \in {0, 200, 400, 500}
  /\ body \subseteq {"error", "data"}
  /\ asked \subseteq Requests
  /\ handledBy \in [Requests -> Sources \cup {NoSource}]
  /\ sent \in [table : Seq(Strings), series : Seq(Requests), cited : SUBSET Pairs]
  /\ byIndex \in Seq(Strings)
  /\ DOMAIN toIndex \subseteq Strings
  /\ toIndex \in [DOMAIN toIndex -> Nat]
  /\ series \in Seq(Requests)
  /\ cited \subseteq Pairs
  /\ erring \subseteq Sources /\ failed \subseteq Sources
  /\ pc \in [Sources -> {"absent", "idle", "building", "interning", "missed", "ended"}]
  /\ todo \in [Sources -> SUBSET Requests]
  /\ want \in [Sources -> Seq(Strings)]
  /\ got \in [Sources -> SUBSET Pairs]
  /\ updates \in [Sources -> 0 .. MaxUpdates]

(***************************************************************************)
(* The two halves of the string table agree, whoever filled them: each     *)
(* string has one position, and the map finds it.                          *)
(***************************************************************************)
TableAgrees ==
  /\ \A i, j \in DOMAIN byIndex : byIndex[i] = byIndex[j] => i = j
  /\ \A s \in Strings :
       s \in DOMAIN toIndex <=> \E i \in DOMAIN byIndex : byIndex[i] = s
  /\ \A s \in DOMAIN toIndex :
       toIndex[s] + 1 \in DOMAIN byIndex /\ byIndex[toIndex[s] + 1] = s

(***************************************************************************)
(* An index in a property, or on its way into one, is that of the string   *)
(* it was asked for.                                                       *)
(***************************************************************************)
Resolves(pair, table) ==
  pair.index + 1 \in DOMAIN table /\ table[pair.index + 1] = pair.string
IndicesResolve ==
  /\ \A pair \in cited : Resolves(pair, byIndex)
  /\ \A w \in Sources : \A pair \in got[w] : Resolves(pair, byIndex)

(***************************************************************************)
(* The client can trust a reply with status 200: no goroutine failed, it   *)
(* holds one series for each series that was asked for, all its indices    *)
(* can be resolved in its own string table, and no goroutine touches the   *)
(* builder any more.                                                       *)
(***************************************************************************)
EverySeriesOnce ==
  /\ \A r \in asked : \E i \in DOMAIN sent.series : sent.series[i] = r
  /\ \A i, j \in DOMAIN sent.series : sent.series[i] = sent.series[j] => i = j
TwoHundredIsWhole ==
  status = 200 =>
    /\ body = {"data"} /\ Good /\ AllEnded
    /\ EverySeriesOnce
    /\ \A pair \in sent.cited : Resolves(pair, sent.table)
    /\ sent.cited = cited /\ sent.table = byIndex

\* Every request gets its reply, whatever the data sources do, unless it makes the
\* handler itself panic, before any source has begun.
Replies == (phase = "received") ~> (phase = "replied" \/ (phase = "panicked" /\ series = <<>>))

\* The string table with its two locks and its second look is as good as one
\* that turns each string into its index in a single step.
Table == INSTANCE InternTable WITH Users <- Sources, Wants <- Updates, table <- byIndex
InternsAtomically == Table!Spec
=============================================================================
