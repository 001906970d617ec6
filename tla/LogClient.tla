------------------------------- MODULE LogClient ------------------------------
(***************************************************************************)
(* The LogViz React client (App.tsx): four panels, each with a             *)
(* DataSeriesQuery that a hook makes, over one DataQuery with a debounce;  *)
(* the global values they depend on; and the user, who brushes the chart,  *)
(* clicks on source files, types a search and holds keys to pan and zoom.  *)
(*                                                                         *)
(* React runs an event handler to its end and renders later.  The hook of  *)
(* the pan and zoom panel is given a new ValueMap on each render, so each  *)
(* render disposes that panel's series and makes another, which asks at    *)
(* once if a key is held.  The series of the other panels are made once.   *)
(***************************************************************************)
EXTENDS LogService

CONSTANT
  Moments   \* the times a brush may pick

VARIABLES
  acts,      \* bound: how many more things the user does
  range,     \* filtered_timerange_start and _end; 0 and 0 at first
  files,     \* filtered_source_files
  search,    \* by panel: source_file_search_regex, raw_event_search_regex
  keys,      \* depressed_key_codes
  pending,   \* the panels whose series wait for the DataQuery's timer
  timer,     \* which runs
  carries,   \* the panels that wait for each request
  spin,      \* the hooks' `loading' states
  shown,     \* the hooks' `data' states
  zoomed,    \* range of an answer to pan and zoom that is not rendered yet
  due,       \* a state has changed: App is to be rendered
  newest,    \* the latest request with a query of each panel, until it is answered
  overtaken, \* panels that were given an earlier answer after the latest
  failed     \* panels whose latest request failed

valueVars == <<acts, range, files, search, keys>>
fetchVars == <<pending, timer, carries, newest, overtaken, failed>>
hookVars == <<spin, shown, zoomed, due>>
clientVars == <<valueVars, fetchVars, hookVars>>

Panels == {"files", "entries", "times", "panzoom"}
NothingShown == [kind |-> "none", what |-> <<>>]

\* The panel each of the search fields is for.
Searches == [v \in {"file search", "entry search"} |-> IF v = "file search" THEN "files" ELSE "entries"]

BadWatching(value) ==
  CASE value = "range" -> {"files", "entries", "times"}
    [] value = "files" -> {"entries"}
    [] value \in {"file search", "entry search"} -> {Searches[value]}

\* The panels whose `fetch' is about changes of a value.
Watching(value) ==
  CASE value = "range" -> {"files", "entries", "times"}
    [] value = "files" -> {"entries", "times"}
    [] value \in {"file search", "entry search"} -> {Searches[value]}

\* keypressUpdate: pan or zoom is set while one of these is held, and then
\* panAndZoomFetch is true.
PanKeys == {"KeyA", "KeyD"}
ZoomKeys == {"KeyW", "KeyS"}
Steers(held) == held \intersect (PanKeys \union ZoomKeys) # {}

(***************************************************************************)
(* createLogvizState() and the first render: subscribing to the values     *)
(* makes each Changed predicate emit, so the three panels ask.             *)
(***************************************************************************)
InitClient(open, bound) ==
  /\ acts = IF open THEN bound ELSE 0
  /\ range = [start |-> 0, end |-> 0]
  /\ files = {}
  /\ search = [p \in {"files", "entries"} |-> ""]
  /\ keys = {}
  /\ pending = IF open THEN Watching("range") ELSE {}
  /\ timer = open
  /\ carries = [id \in Ids |-> {}]
  /\ spin = [p \in Panels |-> open /\ p \in Watching("range")]
  /\ shown = [p \in Panels |-> NothingShown]
  /\ zoomed = {}
  /\ due = open
  /\ newest = [p \in Panels |-> {}]
  /\ overtaken = [p \in Panels |-> FALSE]
  /\ failed = [p \in Panels |-> FALSE]

-----------------------------------------------------------------------------
\* The series of the panels ask for data: `loading' states may change, and the
\* timer starts again.
Ask(panels) ==
  /\ pending' = pending \union panels
  /\ timer' = (timer \/ panels # {})
  /\ spin' = [p \in Panels |-> spin[p] \/ p \in panels]
  /\ due' = (due \/ \E p \in panels : ~spin[p])

Act == acts > 0 /\ acts' = acts - 1

\* The chart's brush, between two moments of its axis, or the click that clears it.
Brush(start, end) ==
  LET chart == shown["times"]
  IN  /\ Act
      /\ chart.kind = "ok"
      /\ \/ start <= end /\ \A moment \in {start, end} : AxisContains(XAxis(chart.what), moment)
         \/ start = 0 /\ end = 0
      /\ range' = [start |-> start, end |-> end]
      /\ Ask(IF range' = range THEN {} ELSE Watching("range"))
      /\ UNCHANGED <<files, search, keys, carries, shown, zoomed, newest, overtaken, failed>>

Listed(file) == shown["files"].kind = "ok" /\ file \in FilesListed(shown["files"].what)

\* SetOrClear for a click on the row of a source file, Toggle for a shift-click.
Click(file, shift) ==
  /\ Act
  /\ Listed(file)
  /\ files' = CASE shift /\ file \in files -> files \ {file}
                [] shift /\ file \notin files -> files \union {file}
                [] ~shift /\ files = {file} -> {}
                [] ~shift /\ files # {file} -> {file}
  /\ Ask(Watching("files"))
  /\ UNCHANGED <<range, search, keys, carries, shown, zoomed, newest, overtaken, failed>>

\* The search fields' state is App's, which is rendered again.
Type(field, word) ==
  /\ Act
  /\ word # search[Searches[field]]
  /\ search' = [search EXCEPT ![Searches[field]] = word]
  /\ pending' = pending \union Watching(field)
  /\ timer' = TRUE
  /\ spin' = [p \in Panels |-> spin[p] \/ p \in Watching(field)]
  /\ due' = TRUE
  /\ UNCHANGED <<range, files, keys, carries, shown, zoomed, newest, overtaken, failed>>

\* The theme is App's state too, but no panel watches it.
SwitchTheme ==
  /\ Act
  /\ due' = TRUE
  /\ UNCHANGED <<range, files, search, keys, pending, timer, carries, spin, shown, zoomed>>
  /\ UNCHANGED <<newest, overtaken, failed>>

\* A key goes down; the first that steers is a rising edge of panAndZoomFetch.
KeyDown(code) ==
  /\ Act
  /\ code \notin keys
  /\ keys' = keys \union {code}
  /\ Ask(IF Steers(keys') /\ ~Steers(keys) THEN {"panzoom"} ELSE {})
  /\ UNCHANGED <<range, files, search, carries, shown, zoomed, newest, overtaken, failed>>

KeyUp(code) ==
  /\ code \in keys
  /\ keys' = keys \ {code}
  /\ UNCHANGED <<acts, range, files, search, fetchVars, hookVars>>

-----------------------------------------------------------------------------
(***************************************************************************)
(* The DataQuery's timer fires: one request for whatever is pending, which *)
(* may be nothing if the series that asked is gone.                        *)
(***************************************************************************)
Send(id) ==
  /\ timer
  /\ timer' = FALSE
  /\ pending' = {}
  /\ carries' = [carries EXCEPT ![id] = pending]
  /\ newest' = [p \in Panels |-> IF p \in pending THEN {id} ELSE newest[p]]
  /\ overtaken' = [p \in Panels |-> overtaken[p] /\ p \notin pending]
  /\ failed' = [p \in Panels |-> failed[p] /\ p \notin pending]
  /\ UNCHANGED <<valueVars, hookVars>>

(***************************************************************************)
(* The answer to a request, or an error, reaches the series that wait for  *)
(* it and the states of their hooks.                                       *)
(***************************************************************************)
Deliver(id, ok, data) ==
  LET told == carries[id]
  IN  /\ carries' = [carries EXCEPT ![id] = {}]
      /\ shown' = [p \in Panels |-> IF ok /\ p \in told THEN [kind |-> "ok", what |-> data[p]] ELSE shown[p]]
      /\ zoomed' = IF ok /\ "panzoom" \in told THEN {RangeOf(data["panzoom"])} ELSE zoomed
      /\ spin' = [p \in Panels |-> spin[p] /\ p \notin told]
      /\ due' = (due \/ (ok /\ told # {}) \/ \E p \in told : spin[p])
      /\ newest' = [p \in Panels |-> newest[p] \ {id}]
      /\ overtaken' = [p \in Panels |-> overtaken[p] \/ (ok /\ p \in told /\ newest[p] = {})]
      /\ failed' = [p \in Panels |-> failed[p] \/ (~ok /\ p \in told /\ newest[p] = {id})]
      /\ UNCHANGED <<valueVars, pending, timer>>

BadRenderAgain ==
  LET panels == (IF zoomed # {} /\ zoomed # {range} THEN Watching("range") ELSE {})
                \union (IF Steers(keys) THEN {"panzoom"} ELSE {})
  IN  /\ due
      /\ range' = IF zoomed = {} THEN range ELSE CHOOSE r \in zoomed : TRUE
      /\ zoomed' = {}
      /\ carries' = [id \in Ids |-> carries[id] \ {"panzoom"}]
      /\ pending' = (pending \ {"panzoom"}) \union panels
      /\ timer' = (timer \/ panels # {})
      /\ spin' = [p \in Panels |-> p \in panels \/ (spin[p] /\ p # "panzoom")]
      /\ due' = TRUE
      /\ UNCHANGED <<acts, files, search, keys, shown, newest, overtaken, failed>>

(***************************************************************************)
(* App is rendered and its effects run: the pan and zoom series is         *)
(* disposed, with its query if that is pending, and made again; then a     *)
(* range that arrived is stored, which makes the other panels ask.         *)
(***************************************************************************)
Render ==
  LET panels == (IF zoomed # {} /\ zoomed # {range} THEN Watching("range") ELSE {})
                \union (IF Steers(keys) THEN {"panzoom"} ELSE {})
  IN  /\ due
      /\ range' = IF zoomed = {} THEN range ELSE CHOOSE r \in zoomed : TRUE
      /\ zoomed' = {}
      /\ carries' = [id \in Ids |-> carries[id] \ {"panzoom"}]
      /\ pending' = (pending \ {"panzoom"}) \union panels
      /\ timer' = (timer \/ panels # {})
      /\ spin' = [p \in Panels |-> p \in panels \/ (spin[p] /\ p # "panzoom")]
      /\ due' = \E p \in Panels : spin[p] # spin'[p]
      /\ UNCHANGED <<acts, files, search, keys, shown, newest, overtaken, failed>>

User(words, sources, codes) ==
  \/ \E start, end \in Moments \union {0} : Brush(start, end)
  \/ \E file \in sources, shift \in BOOLEAN : Click(file, shift)
  \/ \E field \in DOMAIN words : \E word \in words[field] : Type(field, word)
  \/ SwitchTheme
  \/ \E code \in codes : KeyDown(code) \/ KeyUp(code)
=============================================================================
