# TraceViz, specified in TLA+

TraceViz builds interactive tools for trace data: a browser client whose
components share *Values* and ask a server for *data series*, and Go libraries
with which a server answers. This directory models the parts of it whose
correctness depends on order, timing or concurrency, checks them with TLC, and
proves the most important facts with TLAPS. Paths below are relative to the
repository's root.

## 1. The system

| Component | State it keeps | Operations | Interacts with |
|---|---|---|---|
| `DataQuery` (`client/core/src/data_query`) | pending queries by series, debounce timer, `loading`, the fetcher | `connect`, `fetchDataSeries`, `cancelDataSeries`, `issueQuery`, answer and error handlers | called by every DataSeriesQuery; calls the fetcher; calls back `onResponse`/`cancel` |
| `DataSeriesQuery` (`client/core/src/data_series_query`) | `loading`, the last value of its `fetch` observable, subscription | `fetch` on a rising edge, answer, cancellation, `dispose` | DataQuery; emits responses to component code, which may call back |
| `AppCore`, `GlobalState` (`client/core/src/app_core`, `global_state`) | registry of DataQueries and global Values, waiting callbacks, `anyDataQueryLoading` | `addDataQuery`, `set`, `onPublish`, `publish` | every component waits for it |
| Values, `ValueMap` (`client/core/src/value`) | one datum each; an observable | `val=`, `fold`, `importFrom`, `exportTo`, `toV` | interactions, URL hash, requests |
| Interactions (`client/core/src/interactions`) | predicates and their timers | updates, predicates, watches | Values in, effects out |
| `UrlHash` (`client/core/src/url_hash`) | two ValueMaps, pending write, the browser's history | `start`, `stop`, `parseURL`, `updateURL`, navigation handlers | Values, `window` |
| Query handler, `QueryDispatcher` (`server/go/handlers`, `query_dispatcher`) | the query table; one goroutine per data source and request | `getDataHandler`, `HandleDataRequest` | HTTP, data sources |
| Response builder (`server/go/util`) | string table, series, errors | `DataSeries`, `With`, `Child`, `Data` | filled by all goroutines of a request |
| Weighted trees (`server/go/weighted_tree`, `client/core/src/weighted_tree`) | the heap of a walk | `Walk` with its options, tree builder, layout | a data source; the weighted-tree component |
| Traces (`server/go/trace`, `client/core/src/trace`) | none across calls | builder, `fromNode`, `union`, two layouts | response builder; the trace components |
| Categories, tables, charts, graphs (both sides) | none across calls | pure functions between data and response nodes | response builder |
| LogViz server (`logviz/{service,data_source,analysis,server}`) | two collection caches, a log reader goroutine per load | `Fetch`, `Entries`, `NewLogTrace`, `HandleDataSeriesRequests` | dispatcher, files, signals |
| LogViz client (`logviz/react-client`) | global Values, a hook per panel | brush, clicks, search, held keys, renders | DataQuery, the server |
| Angular and React packages (`client/angular`, `client/react`) | laid-out data, highlights, subscriptions, debounced redraws | responses, resize, brush, zoom, call-outs, destruction | the core, the document |

What is hard in it:

* **Overlapping requests.** Answers come in any order, fail, or leave series
  out, while components ask again, are disposed, or call back from within the
  handler of an answer.
* **Publication.** Set-up order is free; callbacks run inside `publish()`.
* **Concurrent response building.** All goroutines of one request intern
  strings in one table and report errors to one list.
* **Two-way synchronisation.** The hash follows the Values with a delay; the
  Values follow the hash at once, and again when `hashchange` comes.
* **Shared caches** in LogViz, used by concurrent handlers without a lock, and a
  reader goroutine whose consumer may give up.
* **Views.** Responses, resizes, highlights and destruction meet a redraw that
  waits, subscriptions to things that are no longer drawn, and cached layouts.
* **Algorithms with many options**: walks that merge, elide, restrict and bound;
  unions of traces; two layouts that must agree on every pixel.

## 2. Modules

| Module | Models | Kind |
|---|---|---|
| `DataQuery` | `data_query.ts` and `data_series_query.ts` together | specification |
| `SeriesPromise` | what the two promise a component: an ask is sent once or superseded, and has one outcome | abstract specification |
| `DataQueryProofs` | invariants of `DataQuery`, and that it implements `SeriesPromise` | proofs |
| `MCDataQuery` | constants | TLC instance |
| `AppCore` | `app_core.ts`, `global_state.ts` | specification, checked directly |
| `AppCoreProofs` | invariants of `AppCore` | proofs |
| `DataResponse` | `query_handler.go`, `query_dispatcher.go`, the concurrent part of `util.go` | specification |
| `InternTable` | a string table that turns a string into its index in one step | abstract specification |
| `DataResponseProofs` | invariants of `DataResponse`, and that it implements `InternTable` | proofs |
| `MCDataResponse` | constants | TLC instance |
| `UrlHash` | `url_hash.ts`, with the browser's history | specification |
| `UrlHashProofs` | invariants of `UrlHash` | proofs |
| `MCUrlHash` | constants | TLC instance |
| `Values` | what a Value of `value.ts` holds; fold, compare, includes, prefixOf, `toV` and back | operators |
| `Interactions` | `interactions.ts` over `Values`: updates, predicates, watches | specification |
| `InteractionsProofs` | invariants of `Interactions` and of `FilterFetch` | proofs |
| `FilterFetch` | `Interactions` composed with a `Changed` reaction, one series and its debounced request | specification |
| `Templates` | the Angular directives: what a template makes of Values, updates, predicates, series | operators |
| `MCFilterFetch` | a small tool, as constants and as a template | TLC instance |
| `TreeWalk` | `weighted_tree/walk.go`, visit by visit, and the view that the options describe | specification and reference definition |
| `WeightedTree` | the builder and the client's layout of weighted trees | operators |
| `TreeView` | a walk, its response, and `weighted_tree.component.ts` | composition of the two |
| `TreeViewProofs` | the document at rest; parents first; frames nest; the view a walk returns | proofs |
| `MCTreeView` | a tree of ten nodes and its walks | TLC instance |
| `TraceData` | `trace.go`, `trace_edge.go`, `trace.ts`, `renderers.ts` | operators |
| `TraceView` | the trace providers, and the horizontal trace of either client | specification |
| `MCTraceView` | traces and scenes | TLC instance |
| `DataNodes` | the nodes of a response and the categories they define or are tagged with | operators |
| `Table` | `table.go`, `table.ts` | operators |
| `XYChart` | `xy_chart.go`, `continuous_axis.go`, `xy_chart.ts`, `continuous_axis.ts` | operators |
| `LogData` | decoder, log trace, filters, pan and zoom, the five queries | operators and what an answer must be |
| `LogService` | concurrent handlers, both caches, readers, end of the process | specification |
| `LogClient` | the LogViz React client and its user | specification |
| `LogViz` | server, client and other clients together | composition |
| `LogServiceProofs` | no reader is left behind; caches hold whole logs; answers show the file; panels at rest show the log | proofs |
| `MCLogViz` | short logs and scenes | TLC instance |
| `Inductions` | induction in terms of sets, recursive functions, sums over finite sets | proofs |

Operators whose name begins with `Bad` are plausible mistakes in the definition
that follows them. No action uses them; each is there to show that a property
would notice.

### DataQuery

A query is represented by the *ask* it comes from; asks are numbered in the
order in which they are made. `pending` is `pendingQueriesBySeriesName`,
`flights` the requests whose observable has not emitted, `busy` is
`DataQuery.loading` and `loading[s]` that of a DataSeriesQuery. JavaScript runs
one handler at a time, so an action is a whole handler. The exception is the
`next` handler of `issueQuery`: it calls `onResponse` for one series after the
other, and `response.next` runs component code that may ask, cancel or dispose.
That loop is `Respond`, then `DeliverResponse`/`DeliveryReturns` or
`SkipUnknown` for each series, then `ResponseHandled`; while it runs only
component code may be interleaved, and only inside `response.next`. A response
names any set of series; one that was asked for and is missing gets the outcome
"omitted". `asks`, `newest` and `outcome` are history: what a component could
observe.

### AppCore

`Users` call `onPublish`; the callback of a `GlobalRef` looks a key up and
throws if it is not set. `visiting` is the position of the `forEach` in
`publish()`; while it runs, the callback it is at (`Current`) may do what any
user may do, unless it is that of a `GlobalRef`. What such a call throws, because
the core refuses it (`Refused`) or because a callback registered there and then
throws, either is caught or ends the outer callback and `publish()` with it.
`summed` is the set of DataQueries that `combineLatest` subscribed to.

### DataResponse

The phases of `getDataHandler`, the grouping of series requests by data source,
a goroutine per source with requests, and the builder. Data sources are not
part of the library: they apply updates, report errors and fail as they like,
but call `DataSeries` for each of their requests before they end without an
error. A property update is the sequence of strings it looks up; one that fails may
go on to look strings up (`appendStrs`). A body or a request that is the JSON `null`
panics in the dispatcher (`Panic`), and net/http ends that connection.
`lookupStringIndex` under the read lock is one step, the second look and the
insertion under the write lock another. `hasError` is read without a lock: a
goroutine sees its own error, that of another it may or may not see.

### UrlHash

A hash is what its text says of each key: a text, or `Absent`. Encoded keys
share a field that may be missing or unreadable as a whole, and a malformed
escape sequence makes the whole hash garbled, which throws whether or not there
is an `onError`. `Decode` maps a
text to the value it stands for; a value is its own canonical text. `tidy` is
FALSE for text with unknown keys or another order. If one key of a map fails,
those before it in the text are set, hence any set of the others. `popstate`
runs with the navigation; `hashchange` is delivered later and parses whatever
the hash is then. Keys are assumed to need no URI encoding (see section 6).

### Values, Interactions and FilterFetch

The ten classes of Values differ in what an element is (`family`) and in
whether they hold one, a list or a set (`shape`); a kind stands for its class,
and `Fold`, `Compare` and the rest say what the methods of all of them do.
Elements are numbers in the order `compare` gives them. `Names` are the Values
of a tool and `Actions` and `Watches` its configuration: sequences of updates.

An update is one step, because the setter of a Value calls its subscribers at
once: the callbacks of the watches go on a `stack`, in front of the update they
interrupt, and may interrupt each other. What a callback throws is caught by
its watch; what an action throws ends it. `Swap` and `Clear` change several
Values, with callbacks in between, hence in several steps. `twins[n]` are the
Values whose Set object is that of `n`: a set replaced by another takes over its
object (`IntegerSetValue` only if the sizes differ, for it copies otherwise), so
that an addition in place changes both.

`FilterFetch` adds the reaction that fetches. `news'` are the Values that called
their subscribers in a step; if a parameter is among them, `Changed` is true and
`quiet` counts its debounce interval, a rising edge makes the series `Ask`, and
`pending` counts that of the DataQuery. A request carries what the parameters
hold when it is *sent*. The two intervals are chosen once, among `Sinces` and
`Debounces`; `early` is history: was the last request sent while `Changed` was
still true? This is `DataQuery` with one series, reduced to what
matters to the parameters; answers are left to `DataQuery`.

`Templates` says where `Names`, `First`, `Actions`, `Watches` and `Parameters`
come from. A template is the sequence of its elements, each with its depth, and
there is one definition per directive, named after it. What a directive's `get()`
returns is a set, empty if it throws; `Got` is `get()` of updates and predicates,
which contain others. `ContentChildren` and `ContentChild` are Angular's: children
for a list, the first at any depth for a single one. `InteractionsDirective`
follows the parts in the order of its loops, up to one that throws. `MCFilterFetch`
gives its tool as constants and as a template; TLC evaluates that the directives
make the one out of the other (`TheToolIsTheTemplate`), so the runs execute what
a tool made by directives does. A template whose directives throw has no run.

### TreeWalk, WeightedTree and TreeView

A TreeNode is its path, a tree a finite set of paths that has, with a path, those
above it; a scope is a number but 0, which the path of `NoNode` has. `wo` holds the options of one
call. `StartMerge` and `StartAtRoot` are the two beginnings of `Walk`, `Visit` a
round of its loop: the heaviest entry of the heap (any of the heaviest, for a Go
heap orders equals as it likes, and its maps too) is skipped as too deep, fails
because `Children()` does, is returned, or is elided. `Described` says without
an order of visits what the options ask for; comments in `walk.go` explain each
option, and the tests of `walk.go` show how they meet.

`TreeView` writes the result into a response and follows the component: a
response replaces the layout and ends the highlights of the old one; a resize
asks for a redraw by the debouncer, the `ResizeObserver` redraws at once; a
highlight reaction changes the frames whose ids its subscribers know.

### TraceData and TraceView

The server's nodes are a sequence with parent indices; `TraceFrom` is `fromNode`,
`UnionTraces` the union of the layers, `renderCategoryHierarchy` and
`renderHorizontalTraceSpans` the two layouts, in pixels, with the settings as a
constant. `TraceView` adds the providers (a ReplaySubject per layer, replayed
when the layers change, and what the union says), the component with the layouts
it keeps, highlights, vertical rule, called-out band, brush, zoom and scroll. A
change of the zoom is asked for (`asking`), a request carries the zoom of the
moment it is sent (`due`), and requests are answered in any order, or fail, while
the user zooms on. The component subscribes once, and to the *first layer*
(`ChartLayer`), as `UnionTracesDirective` does not provide a `TraceProvider`; the
`union` is for those who subscribe to the directive. The React component lays
everything out at each render; a scene says which client it is.

### DataNodes, Table, XYChart, LogData, LogService, LogClient and LogViz

A line is a first line, a continuation, a first line that does not parse, or
junk. `ReadLogEntry` is the decoder with its look-ahead, `ForEachEntry` the
binary searches of `filter.go` with their panic, `Outcome` the queries.
What a loop keeps of a list is `At` the places it keeps, `InOrder`.
`EntriesIn`, `Answers` and `RangeFits` say from the lines of the file, without
decoder, trace, cache or filter, what an answer must be. `EntriesIn` is a function
from the first lines of a file to their entries, so that a file which says the
same twice has two entries, and an answer has to show both.

The answers are the nodes that the builders write: `DataNodes` has properties,
children and category tags, `Table` and `XYChart` a builder and the reader that
`table.ts` and `xy_chart.ts` have. `Answers` looks at a node through the reader
only, so a cell tagged with a column the header lacks, a point keyed by another
axis than the chart's, or an axis too short for its points would show; so would
a reader that disagrees with its builder. The client's brush and clicks read the
same nodes.

In `LogService` each request has a place `pc`. A call of an LRU is two steps,
and calls that are inside the same cache together race: the cache is left with
any arrangement of any of the items involved, and where one of them is an `Add`
the process may abort, as Go does on a concurrent map write. The reader
goroutine parses (`Read`), the channel hands over (`Receive`), and after an
error both sides end. A panic in `Handle` ends the process, since `errgroup` at
the version of `go.mod` does not recover. `Interrupt`, `Exit` and `Disconnect`
are the server's shutdown and what a client sees of it.

In `LogClient` an event handler is one step and a render another. Each render
gives the pan-and-zoom hook a new `ValueMap` (`App.tsx:391`), so that series is
disposed and made again, and asks at once while a key is held. `newest`,
`overtaken` and `failed` are history. `LogViz` joins client and server by
requests, with other clients beside; a scene says who is there.

## 3. What TLC checks

| Run | Bounds | Shows |
|---|---|---|
| `data_query` | 2 series, 3 asks, window of 1 tick | all of `DataQuery`'s properties and that it implements `SeriesPromise` |
| `app_core` | 3 users, 2 queries, 1 key | registration and publication |
| `app_core_guarantee` | same | *violated*: an `onPublish` callback is always invoked |
| `data_response` | 3 requests, 2 sources, 2 strings in opposite orders, 1 update each | string table, replies, refinement of `InternTable` |
| `url_hash` | 3 keys, 2 values, 6 kinds of hash, 4 inputs | mirroring, history, quiet navigation |
| `filter_fetch` | 8 Values, 7 actions of which 4 happen, 4 watches; `Changed` true for 0 or 1 ticks, debounce of 0, 1 or 2 | interactions, and that changes are fetched |
| `filter_fetch_in_sync` | 2 actions happen | *violated*: a request carries what the parameters hold, once all is at rest |
| `tree_view` | a tree of 10 nodes, some 200 combinations of options, 2 asks, 1 input | walks return the view or its heaviest part; frames nest; the document follows |
| `trace_view` | all traces of up to 3 nodes in one layer of either client; one or two layers of larger ones with up to 2 inputs; windows of 13 and 0 pixels | unions, layouts, the chart at rest |
| `trace_axis_in_step` | as `trace_view` with traces of 2 nodes and windows of 13 and 21 pixels | *violated*: spans are where the axis has their times |
| `logviz` | 8 logs of up to 5 lines, 2 requests at a time, caches of 1, six scenes (below) | caches, readers, answers, the client's panels, progress |
| `logviz_bins` | same | *violated*: the last bin has only what is at the last moment |

*Why these bounds.* Three asks over two series give a series with an old and a
new request under way at the same time, with a third query pending, which is
the longest chain the code tells apart: it looks at the newest pending query
and at single requests only. A window of one tick separates "restarted" from
"about to fire". Two goroutines and two strings in opposite orders give every
order of the two critical sections on the same and on different strings; three
requests let one source own two. Three users put a callback before and after
one that throws. Four inputs are a start, a failure, a recovery and a change,
and allow an entry to be visited, replaced and truncated. The small tool of
`MCFilterFetch` has a Value of every shape, every update with its failures, and
every predicate test that is not a mirror image of another; four actions are
enough to share a Set object, change it through either Value, and change a
parameter before, within and after both timers.
The ten-node tree has each scope at several depths and sibling families of
different weight, so that merging, eliding and both kinds of prefix each have
nodes to act on and pairs of options meet; two asks and one input put a resize,
a call-out or the end of the component before, between and after the two
responses. Three nodes are enough for a category in or beside another, a span in
a span, and an edge to itself, to another span or to nothing; deeper nesting
comes from the scenes with fixed traces. Logs have ties, lines out of order, a
continuation, the same entry twice, a single entry, and each kind of error. The scenes of LogViz are:
one request at a time, with every query under every range, pan, zoom and file
filter, which is a check of functions; three requests, two at a time, for two
good logs, a broken one and a missing one over caches of one item, so that every
load evicts; the same with an interrupt; the React client with two acts of its
user, on a log of two entries; the client with a held key; and, for the log with
the same entry twice, each query that lists or counts entries.

The properties, besides a type invariant where one says something:

* `SpinnersAreOwed`, `NewestAskSurvives`, `AskInOnePlace`,
  `DisposedNeverRequested`, `NeverStranded`, `LoadingEnds`, `KeepsPromise`
  (DataQuery): no ask is lost, answered twice, or answered after it failed; a
  loading series has something to wait for; disposal is final for later requests.
* `SummaryIsRight`, `CalledOncePublished`, `CallbacksRun` (AppCore): the summary
  is subscribed late and right; callbacks run once, in the order of registration,
  and one that waits is left out only if one *before* it throws.
* `TableAgrees`, `TwoHundredIsWhole`, `Replies`, `InternsAtomically`
  (DataResponse): a reply with status 200 is complete, and no goroutine still
  writes to it.
* `UrlMirrorsValues`, `NoTwinEntries`, `LookingAroundWritesNothing`,
  `ChangeSettles` (UrlHash).
* `OnlyExtendIsSilent`, `MirrorsAgree`, `UpdatesEnd` (Interactions): who
  subscribes is told of each change but one kind; Values that follow each other
  agree after any nesting of callbacks, and the nesting ends.
* `RequestsCarryChanges`, `ChangesAreFetched` (FilterFetch): every change that was
  told is carried by a request, except where the last one was sent while `Changed`
  was still true: what changes after that is no rising edge and is not fetched.
  There is no such request if `Changed` is true for a moment only, which is the
  default of `<changed>` (`interactions.directive.ts:672`), and the DataQuery
  waits. That it waits *longer* than `Changed` stays true is not enough: further
  changes make it stay true, and postpone nothing.
* `WalkIsWholeView`, `HeaviestKept`, `FramesNest`, `AtRestDrawn` (TreeView): a
  walk returns just what its options describe or, with `MaxNodes`, the heaviest
  part; frames lie within their parents' and do not overlap; when no redraw is
  due the document has the latest tree and the highlights of now.
* `UnionHasEverything`, `LayoutIsSound`, `TraceAtRestDrawn` (TraceView): the union
  has every category and span of every layer once, whichever came last; spans
  lie in the stripes of their categories and edges end at their spans; at rest
  the chart shows the trace its layer got last, in the room there is, and for the
  range zoomed to last if the newest request was answered, and last.
* `CachedIsWhole`, `NoReaderLeft`, `AnswersMatch`, `AppInStep`,
  `RequestsAnswered`, `AppSettles` (LogViz): races never leave a cache with half
  a log or one under another's name; a reader has a consumer; answers say what
  the file has; the panels at rest agree with the selection of now, except where
  the latest request failed or an older answer came after it; requests end, and
  a client whose user holds no key comes to rest.

*Fairness.* DataQuery: timers fire, handlers run to their end, and each fetch
ends with an answer or an error (weak fairness per request): browsers give up
on a connection sooner or later. Nothing makes a component ask or dispose, nor
the application connect. AppCore: `publish()` is synchronous and goes on once
begun. DataResponse: weak fairness of the handler and of each goroutine, which
the Go scheduler gives; a data source is assumed to end. UrlHash: scheduled
callbacks and `hashchange` events are delivered by the event loop; users do
nothing by fairness. FilterFetch: synchronous code goes on once begun, and
timers fire. LogViz: weak fairness of the goroutines of each request (handler
and reader together), of the delivery of each answer, of renders and of the
DataQuery's timer; users, interrupts and crashes are not made to happen, and
nothing makes a user let go of a key. `TreeView` and `TraceView` have no liveness
property.

*Deadlock.* Every system here may come to rest (all asks answered, the reply
sent, no input left), so `CHECK_DEADLOCK` is off; what must not stop is stated
as liveness.

## 4. What is proved

The theorems hold for every value of the constants that satisfies the named
assumptions of the modules (`MaxAsksAssumption`, `UpdatesAssumption`, ...):
any number of series, requests, goroutines, keys and inputs.

**DataQueryProofs.** `SpinnersAreOwed`, `NewestAskSurvives`, `AskInOnePlace`,
`DisposedNeverRequested` and `NeverStranded`. The properties are not inductive:
the argument is that an ask number occurs in one place (pending map, one
request, the response being handled) and belongs to one series. `IInv` adds
that asks in use are not larger than `asks`, that a number belongs to a single
series, that requests are numbered apart, and that what is not in the handler
is empty. Each action moves a number from one place to the next.

The module also proves `Spec => KeepsPromise`: the core implements
`SeriesPromise`. Since an ask that is not done is in one place, its place is its
status (pending = waiting; in a request or in the response being handled =
sent). One lemma per kind of action follows the asks it moves: `FetchRises` is
`Ask`, the timer `Send`, a response or an error `GiveUp` for what it leaves out or
carries, a delivery `Hear`, `Dispose` `Leave`; the rest stutters.

**AppCoreProofs.** `SummaryIsRight` and `CalledOncePublished`, and that the
registry is final. `IInv` adds that the callbacks are of different users, that
those `publish()` has not reached have not run and those it has passed have, and
that `publish()` ends in one of two ways: at a callback that threw, or with the summary subscribed over the
final registry.

**DataResponseProofs.** `TableAgrees`, `IndicesResolve`, `TwoHundredIsWhole`
and the refinement `Spec => InternsAtomically`. `IInv` adds that before
dispatch the builder is untouched, that each series begun is a request no longer
to do, that a source that ended without an error has nothing left, and that a
missed string is still wanted. The table is append-only, so pairs once resolved
stay resolved; the second look under the write lock is what makes `Insert` one
step of `InternTable`.

**UrlHashProofs.** `UrlMirrorsValues`, `NoTwinEntries` and
`LookingAroundWritesNothing`. `IInv` adds that there is one callback just when
an update is pending, and that an update is pending only after the page itself
started or changed a Value. A write that throws leaves an incomplete hash, since
no key has a text in an unreadable one. Parsing a complete hash sets every key; writing keeps the stateful keys of an entry it replaces and
changes one in an entry it pushes.

**InteractionsProofs.** `OnlyExtendIsSilent`, for any Values, actions and
watches. `IInv` says that sharing a Set object is an equivalence and that those
who share one hold the same set; `FoldShares` shows that a set which takes over
an object takes over what it holds. Each update is then idle, a fold of another
Value, or stores data of its own, and of these only a fold that neither replaces
nor toggles goes past the setter.

`MirrorsAgree`, for tools whose mirrors begin alike (the only hypothesis; the
instance satisfies it). A mirror is a Value whose watch does nothing but set
another one, which does the same in return. `MirrorInv` says what holds *during*
callbacks: two mirrors agree, or the update that will bring one in line with the
other is on the stack. It survives interruption because a callback goes in front
of what it interrupts and takes nothing off the stack, and because the
subscribers of a Value that changes are told in the step that changes it.

`RequestsCarryChanges`, for any intervals. `FetchInv` ties the two timers to what
they are for: `Changed` is true just while its timer runs; what is not fetched
has the DataQuery's timer running, unless the last request came too early; what
counts as fetched was told of no change since. The last needs the first theorem:
a step that does not tell a parameter leaves it as it is, unless it is a set.
`FetchKeepsMirrors` shows that the composition keeps what `Interactions` has.

**TreeViewProofs.** `AtRestDrawn`, for any trees, options and inputs. The
invariant adds that whatever watches a highlight is a frame of the tree that is
shown, also while a redraw is due, and that at rest all frames watch; then a
call-out reaches all of the document and nothing else. Second, that a walk makes
parents before their children (`ParentsFirst`): entries on the heap have parents
that were made. The response's nodes and the sums of the client go by that order.

Third, `FramesNest`, for a tree of any shape, weights and size, which rests on
`ParentsFirst` and on the TreeNodes of a walk being nodes of the (finite) tree.
The argument is about lineages. Two nodes of which neither is above the other
are below different siblings (`Parting`), and all that lies on the elder's side
is left of the other (`LeftOfLater`); a node with what is left of it stays within
its parent with what is left of that (`WithinParent`). Sums of weights are
monotone and additive (module `Inductions`), so frames nest and do not overlap,
and the families of the roots add up to the width of the picture. An id is the
number of nodes drawn before (`Before`); of two nodes one's set is part of the
other's without being it, so ids differ, and `n` different numbers below `n` are
all of them.

Fourth, `WalkIsWholeView`, for any tree, weights and combination of options and
whatever order the visits take. What a walk has made is compared with a view
described without any order, so the invariant has to say what each entry will
still bring. Entries and SubtreeNodes stand for a class: the TreeNodes that share
one visible path (elided ones left out). `SightInv` says of every class in the
view that it has been returned, or waits in the heap, or is below one that waits
(`Covering`); that no class is returned twice, and none that waits has been
returned or lies below another that waits (`Made`, `Waiting`); and that each has
as parent the nearest class above it that the view shows (`Near`). A visit that
meets no error takes one class off the heap and puts those right below it on
(`KidsSee`). If it is skipped as too deep it brings none, and none of those is in
the view (`SkipSees`); if it is elided within a path prefix, they find its parent
above them (`ElideSees`). When the heap is empty, everything has been returned. A
walk starts at the root or, merging, at the ends of the prefixes (`StartSees`).
This and the next are about walks whose `MergePrefix`es meet neither an error nor
a path prefix (`MergesCleanly`); what becomes of others is said in section 5.

Last, `HeaviestKept`. `HeavyInv` adds that `addedNodes` counts what has been
returned outside of prefixes, and that whatever has been returned weighs no less
than what waits. The latter needs the heaviest entry first and that an entry
weighs no less than those it brings, which is `BelowWeighsLess`: a class weighs
what the TreeNodes at or below it have of their own, each counted once
(`ClassWeight`), and those below a class are part of them (`FamilyNarrows`). With
`SightInv`, what was left out is at or below one that waits, hence no heavier than
any that was returned. Like `MirrorsAgree` it has a hypothesis beyond the
assumptions of the modules: `WeightsAreTotal`, that `CompareFn` compares what
TreeNodes and all below them add up to. The code lets a caller pass any
comparison; the package comment speaks of the heaviest, and `compareBy` in
`walk_test.go` compares totals. For other comparisons (`walk_test.go` has one with
the lightest first) the nodes returned need not be the heaviest: a heavy one below
a light one may never be reached. The instance satisfies it, which TLC evaluates.

**LogServiceProofs.** `NoReaderLeft`, for any logs, requests and cache capacity
and whatever races do: a reader starts only when its handler goes to receive,
and the handler leaves either after an error that closes the channel or from a
closed channel.

`CachedIsWhole`, for the same. `CacheInv` relates what a handler has received to
where its reader is: there is a bijection between the entries received and the
first lines before the reader's position, with each entry what the file has
there (`Upto`). Either a round of the decoder reads on to the next first line and
adds its entry (`ReadsOn`), or it is at the end of a file that has no bad line
(`ReadsOut`). Hence a trace that was built has the entries of the whole file,
sorting only permutes them (`SortedIsWhole`), only such a trace goes to `Add`, and a race leaves some
arrangement of whole logs.

`AnswersMatch` (theorem `AnswersShowTheFile`), for the same. The argument has four
layers.

* *Ranges.* A whole log begins and ends where its file does (`EndsAgree`), so the
  filter that `filterFromGlobalFilters` makes from the trace is the one made from
  the file, and for every start, end, pan and zoom it fits (`RangeIsFit`).
* *Entries.* `Whole` gives a bijection between the places of a log and the first
  lines of its file. The binary searches keep the places in range, in order
  (`FoundAreListed`), and from there on each query filters again; an order of some
  places composed with the bijection is a bijection to the first lines that the
  request selects. This is where a lost, a doubled and a conflated entry would show.
* *Nodes.* For each query, what its builder writes is what its reader takes out:
  `FilesAreShown`, `EventsAreShown`, `SeriesAreShown` and `TraceIsSpanned`. The table
  and chart lemmas below them (rows, cells, columns, axes, points) do not depend on
  LogViz. Together they are `OutcomeAnswers`, for one query, and `AllAnswered`, for
  a request, which fails as a whole if one query does.
* *Steps.* `AnswerInv` adds to `CacheInv` that requests are of the kinds that
  clients make, that a reply stands only until its request is done with and is right
  for that request, and that the client's range comes from the brush or from an
  answer to a pan-and-zoom query. The range has to be in it because a later request
  carries it: that a reply shows the file depends on earlier replies.

`AppInStep` (theorem `PanelsShowTheLog`), for any scene, log and user. `StepInv` says
of each panel, also when not at rest, that it is in the pending map, was overtaken,
failed, is *awaited* (its newest request is under way and carries the query and the
filters of now) or is up to date. A change of a global Value puts every panel that
watches it into the pending map in the same step (`ActsKeep`); a panel that does not
watch a Value has the same answers before and after (`SameAnswers`); the answer to an
awaited request is correct by `AnswerInv` (`AwaitedIsCorrect`, `DeliverInStep`). What
the answer is compared with is the selection of *now*, so a panel which failed to
watch one of the Values it depends on would break the proof, as it does the run's
mutant.

These theorems use `CollectionsAssumption` (the lines of a file are a sequence; what
parses has a whole time and one of four levels), `CapacityAssumption`,
`MomentsAssumption` and `ScenesAssumption` (clients send sequences of the five
queries with whole numbers in them, and users type into the two search fields).
They do not say that a time series query is answered: where `logviz_bins` shows a
panic the process ends, and no reply claims anything.

The proof corrected the model twice. Two cases of `Zoomed` overlapped, so
that it was defined only for who takes the first that fits, as TLC does; and the
property took the entries of a file as a *set*, so that an answer which dropped one
of two equal lines would have passed. The log "twice" came from that.

**Inductions.** The library's induction theorems take a predicate as a parameter,
which none of the provers here can instantiate. Stated with a *set* instead of a
predicate they can be used: `Induction` from a least counterexample, `ByEarlier`
and `ByLater` over indices, `BySubsets` over the subsets of a finite set. On them
rest two facts about recursive functions, that there is one (`Recursion`) and
that its equations determine it, and the theory of sums over finite sets
(`Total`): that any member may be taken first, that parts add up and that a part
weighs no more than the whole.

The proofs of `DataResponse` and `AppCore` also show `IndicesResolve` (every
index in a reply resolves in its table) and that the registry is final after
`publish()`; no run checks these two.

Only model-checked:

* everything about liveness (`LoadingEnds`, `CallbacksRun`, `Replies`,
  `ChangeSettles`, `UpdatesEnd`, `ChangesAreFetched`, `RequestsAnswered`,
  `AppSettles`), because fairness and `ENABLED` are beyond this prover;
* `UnionHasEverything`, `LayoutIsSound` and `TraceAtRestDrawn`: `TraceData` walks
  trees by `RECURSIVE` operators, in whose modules this prover has no arithmetic.

The modules proved about use no `RECURSIVE` operator.

## 5. Where the code and its comments differ

* `DataQuery.loading` "is true if an update is being processed"
  (`data_query.ts:58`), but an older request that ends clears it.
* "The same series issues two requests; we want the latter to be used"
  (`data_query_test.ts:98`), but an older answer that comes late is delivered
  last.
* The debounce interval is said to be counted from the initial request
  (`data_query.directive.ts:59-61`), but each request restarts it.
* `onPublish` callbacks are "guaranteed to be invoked" (`app_core.ts:147-148`),
  unless an earlier one throws (`app_core_guarantee`).
* A chart "should refetch and rerender its data [...] whenever the set of
  selected widget IDs changes" (`docs/interactions.md:185-186`), but `extend`
  adds to a set in place (`value.ts:163`) and no subscriber is told
  (`filter_fetch_in_sync`).
* `start()` "starts listening" (`url_hash.ts:102`) and `onError` is the "error
  handler for parse or update failures" (`url_hash.ts:52`), but a malformed
  escape sequence throws past `onError` out of `start()`, which then cannot be
  repeated.
* The horizontal trace keeps its spans until another trace comes, while a resize
  redraws the axis (`trace_axis_in_step`).
* "The last bin will only contain samples at the last observed timestamp"
  (`timeseries_query.go:83`), but the width of a bin is truncated: earlier
  samples share it, and a range of fewer nanoseconds than bins, or of one moment,
  panics (`logviz_bins`).

Met on the way, without a run of their own:

* "When a parameter changes, or upon a rising edge on 'fetch', DataSeriesQuery
  requests a new response" (`data_series_query.ts:57-58`), but it does not watch
  its parameters: only the rising edge asks. Whoever makes the query has to put
  the parameters into the reaction that drives `fetch`, as `FilterFetch` does.
* `<clear>` without arguments notes "'clear' takes at least one argument" but makes
  the update all the same (`interactions.directive.ts:236-239`). An `<if>` without
  an `<else>` takes one that is in its `<then>` (`interactions.directive.ts:121`).
  `InteractionsDirective.get()` keeps its object before it is complete
  (`interactions.directive.ts:1145`): if a part throws, the next call returns what
  was there by then.
* `Walk` drops the error of its search for merge prefixes (`walk.go:583`), so a
  broken subtree is missing without a word; `MergePrefix()` without scopes
  panics; `MergePrefix` with `PathPrefix` walks leaves off the path prefix in
  full; below an elided prefix `SubtreeNode.Path` is not the whole path.
* d3 passes `(event, datum)` to listeners, but `weighted_tree.component.ts:202`
  and the clicks of the horizontal trace take the datum first. A tree of weight
  0, and a trace whose axis has no extent, are laid out at NaN.
* A body or a request that is the JSON `null` parses (`query_handler.go:117`) and is
  a nil pointer in `HandleDataRequest` (`query_dispatcher.go:79`): no reply.
* `UnionTracesDirective` provides `TraceDirective`, not `TraceProvider`
  (`trace_provider.directive.ts:95`), so a chart around `<union-traces>` takes the
  first `<trace>` in it (`horizontal_trace.component.ts:171`), although charts
  "should get their trace data from TraceProvider" (`trace_provider.directive.ts:22`).
  A late answer to a range zoomed to earlier is drawn. Clearing the brush calls `brush` again and
  resets the zoom before the new range is told. Traces on a double axis, which
  `trace.go` documents, throw in `timeValueToString` (`renderers.ts:348`). A
  called-out band is not drawn anew with a new layout, and the line of a vertical
  rule that was taken away stays.
* Pan and zoom are sent "to the backend, which will update and return the filtered
  time range" (`App.tsx:378`), but `setGlobalFilters` does not name them; a held
  key asks again on each render, a render drops the answer that is under way, and
  a late one overwrites a newer brush.
* Trace queries of LogViz have no categories: `add` does not keep the child it
  makes (`trace_query.go:43`). The file "ownership" that `service.go:61` gives to
  the reader ends with nobody closing it.

## 6. Abstractions, and what is not modelled

* Payloads, parameters and filters of requests; names and wording of errors.
* `reset()` and `triggerUpdates()`, which are for tests.
* Synchronous fetchers: the fetch observable emits after `issueQuery` returned.
  Subscribers of `loading` (`data_series_query.ts:97`, `:104`, `:107`): `DataQuery`
  has them do nothing to the core. Those in the repository pass the flag on, set
  a React state, or show and hide an element; one that fetched, cancelled or disposed in its callback would
  run in the middle of `FetchRises` or `FetchError`.
* The text of a hash. `serializeHashFragment` looks a value up by its encoded
  key (`hash_encoding.ts:83`), so a key that needs encoding loses its value; the
  model has only keys that need none. Values derived from other Values and
  direct calls of `parseURL`/`updateURL` are left out.
* Texts, numbers and times as such. Sets of integers sort by their decimal text
  (`value.ts:1236`), in the model by value; this matters to `compare` and not to
  equality. Whole numbers only, so that `Math.floor` has nothing to do. Of texts
  the model knows which ones `encodeURIComponent` changes: a swap takes its copy
  through `toV` and `fromV`, and a text that needs escaping comes back escaped.
* `Concat`; what reactions other than the fetching one emit over time; the calls
  a new watch makes when it subscribes.
* Data sources, HTTP, the browser: external, modelled by what they may do.
* Bar charts, category axes and graphs, on either side: each call writes straight
  into the response, or a property straight into markup. Of tables and XY charts,
  what draws them, render settings and payloads. Of the directives,
  `concat`, literals as arguments of updates and predicates, and local state.
  Colours, labels and tooltips.
* What payloads of a weighted tree hold; JavaScript's floating
  point (frames are in units of weight, pixels are whole).
* LogViz: themes (an unknown one makes two queries panic), call-outs, filters no
  query uses, and the simple parser, which nothing uses. An absent start or end of the range is 0, as in the code. Regular
  expressions are words. A request that the React client sends without queries
  is in the model.

## 7. Plan

In the order in which they matter; each with its MC module, runs and, where
marked, proofs.

1. `Interactions`, what is left: `Concat` and the distinct values a combined
   predicate emits over time (a pulse of `Changed` inside `And` may be lost).
2. `ValueCodec`: `toV`/`fromV`, the Go side's `fromAny`, and export/import, as
   functions checked against each other over a few texts that need escaping and
   boundary times (`UnixNano` before 1970), and with them the encoding of keys.
3. The second half of a swap that fails, `Clear` that returns early, and the
   write that `stop()` of `UrlHash` leaves behind.
4. Proofs: the layouts of `TraceData`, written with recursive functions. That
   spans lie in the stripes of their categories is a sum over categories, for
   which `Inductions` has the theory.
5. The table and chart components, whose redraws, pages and highlights follow
   the pattern of `TreeView`.
