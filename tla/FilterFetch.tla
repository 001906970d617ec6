----------------------------- MODULE FilterFetch ------------------------------
(***************************************************************************)
(* How a change of a Value comes to be fetched: a reaction `fetch' with a  *)
(* Changed predicate (interactions.ts) drives a DataSeriesQuery, whose     *)
(* parameters a DataQuery reads when it sends the request, one debounce    *)
(* interval later.  This composes Interactions with one series of          *)
(* DataQuery.                                                              *)
(*                                                                         *)
(* Time is counted in ticks; both timers run only between actions.         *)
(***************************************************************************)
EXTENDS Interactions

CONSTANTS
  Parameters,  \* the Values the predicate is about and the query sends
  Sinces,      \* how long Changed may be made to stay true after the last change
  Debounces    \* how long the DataQuery may be made to wait; 0 is not at all

ASSUME FetchAssumption ==
  /\ Parameters \subseteq Names
  /\ Sinces \subseteq Nat /\ Debounces \subseteq Nat

Off == -1

VARIABLES
  sinceMs,    \* how long Changed stays true, and
  debounceMs, \* how long the DataQuery waits, once and for all
  changed,   \* the predicate's value, and the last value of `fetch'
  quiet,     \* ticks left until it turns false, or Off
  pending,   \* ticks left until the DataQuery sends, or Off
  carried,   \* the parameters in the last request
  unfetched, \* a parameter told of a change after the last request
  early      \* that request was sent while `changed' was still true

timings == <<sinceMs, debounceMs>>
fetchVars == <<timings, changed, quiet, pending, carried, unfetched, early>>
vars == <<interactionVars, fetchVars>>

\* Subscribing to a Value yields what it holds: the series asks at once.
InitFetch ==
  /\ Init
  /\ sinceMs \in Sinces /\ debounceMs \in Debounces
  /\ changed = TRUE
  /\ quiet = sinceMs
  /\ pending = IF debounceMs > 0 THEN debounceMs ELSE Off
  /\ carried = [p \in Parameters |-> First[p]]
  /\ unfetched = (debounceMs > 0)
  /\ early = (debounceMs = 0)

BadAskCancelsTimer ==
  /\ unfetched' = TRUE
  /\ pending' = IF ~changed /\ pending = Off THEN debounceMs ELSE Off
  /\ UNCHANGED <<carried, early>>

\* A rising edge of the predicate asks for the data; without a debounce interval
\* the request is sent there and then.
Ask ==
  \/ /\ changed
     /\ unfetched' = TRUE
     /\ UNCHANGED <<pending, carried, early>>
  \/ /\ ~changed /\ debounceMs > 0
     /\ pending' = debounceMs
     /\ unfetched' = TRUE
     /\ early' = FALSE
     /\ UNCHANGED carried
  \/ /\ ~changed /\ debounceMs = 0
     /\ carried' = [p \in Parameters |-> held'[p]]
     /\ unfetched' = FALSE
     /\ early' = TRUE
     /\ UNCHANGED pending

\* Every change keeps the predicate true for another interval.
React ==
  \/ /\ news' \cap Parameters # {}
     /\ Ask
     /\ changed' = TRUE
     /\ quiet' = sinceMs
     /\ UNCHANGED timings
  \/ /\ news' \cap Parameters = {}
     /\ UNCHANGED fetchVars

BadQuietKeepsTrue ==
  /\ stack = <<>> /\ quiet = 0
  /\ quiet' = Off
  /\ UNCHANGED <<interactionVars, timings, changed, pending, carried, unfetched, early>>

\* The debounceTime of Changed: the predicate turns false.
Quiet ==
  /\ stack = <<>> /\ quiet = 0
  /\ changed' = FALSE
  /\ quiet' = Off
  /\ UNCHANGED <<interactionVars, timings, pending, carried, unfetched, early>>

\* The DataQuery sends the request, with the parameters as they are now.
Send ==
  /\ stack = <<>> /\ pending = 0
  /\ pending' = Off
  /\ carried' = [p \in Parameters |-> held[p]]
  /\ unfetched' = FALSE
  /\ early' = changed
  /\ UNCHANGED <<interactionVars, timings, changed, quiet>>

Earlier(timer) == IF timer = Off THEN Off ELSE timer - 1

Tick ==
  /\ stack = <<>>
  /\ quiet # 0 /\ pending # 0
  /\ quiet # Off \/ pending # Off
  /\ quiet' = Earlier(quiet) /\ pending' = Earlier(pending)
  /\ UNCHANGED <<interactionVars, timings, changed, carried, unfetched, early>>

NextFetch ==
  \/ Next /\ React
  \/ Quiet \/ Send \/ Tick

\* Code that runs goes on, and time passes.
FetchFairness == WF_vars(Step /\ React) /\ WF_vars(Quiet \/ Send \/ Tick)

FetchSpec == InitFetch /\ [][NextFetch]_vars /\ FetchFairness

-----------------------------------------------------------------------------
AtRest == stack = <<>> /\ quiet = Off /\ pending = Off

(***************************************************************************)
(* However changes, callbacks and timers fall together, no change that a   *)
(* parameter told of escapes the requests: once all is at rest the last    *)
(* one carried it.  The exception are requests sent while the predicate    *)
(* was still true, for what changes then is no rising edge.  There are     *)
(* none if the DataQuery waits and the predicate is true for a moment only *)
(* (the interval `<changed>' has by default).                              *)
(***************************************************************************)
RequestsCarryChanges ==
  /\ AtRest /\ ~early =>
       /\ ~unfetched
       /\ \A p \in Parameters : KindOf[p].shape # "set" => carried[p] = held[p]
  /\ sinceMs = 0 /\ debounceMs > 0 => ~early

\* With such intervals the request for a change is sent in the end.
ChangesAreFetched == (unfetched /\ sinceMs = 0 /\ debounceMs > 0) ~> ~unfetched

\* docs/interactions.md: the chart "should refetch and rerender its data [...]
\* whenever the set of selected widget IDs changes".  Adding to a set tells nobody.
InSync == AtRest => \A p \in Parameters : carried[p] = held[p]
=============================================================================
