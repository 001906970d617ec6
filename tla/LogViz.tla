-------------------------------- MODULE LogViz --------------------------------
(***************************************************************************)
(* LogViz as a whole: the server with its caches and readers (LogService), *)
(* the React client that sends it requests (LogClient), and other clients  *)
(* of the same server, such as the Angular one, whose requests also carry  *)
(* pan and zoom.  A scene of Scenes says which of them are there.          *)
(***************************************************************************)
EXTENDS LogClient

CONSTANT
  Scenes   \* a sequence of records:
           \*   app, acts: is the React client open, how often its user acts
           \*   log: the collection it shows
           \*   words, codes: what its user may search for, by field, and which keys press
           \*   bins: the bin count of its chart
           \*   posts, requests: how often the other clients ask, and for what
           \*   stops: the server may be interrupted

\* The queries that there are, with values that they can be decoded to.
IsQuery(query) ==
  \/ query.name \in {"logs.aggregate_source_files_table", "logs.raw_entries", "logs.trace", "logs.pan_and_zoom"}
  \/ query.name = "logs.timeseries" /\ query.bins \in Int

ASSUME MomentsAssumption == Moments \subseteq Int

ASSUME ScenesAssumption ==
  \A i \in DOMAIN Scenes :
    /\ Scenes[i].bins \in Int
    /\ DOMAIN Scenes[i].words \subseteq DOMAIN Searches
    /\ \A request \in Scenes[i].requests :
         /\ request.globals.start \in Int /\ request.globals.end \in Int
         /\ request.queries \in Seq(ToSet(request.queries))
         /\ \A query \in ToSet(request.queries) : IsQuery(query)

VARIABLES scene, posts

vars == <<serviceVars, clientVars, scene, posts>>

Scene == Scenes[scene]

Init ==
  /\ scene \in DOMAIN Scenes
  /\ InitService
  /\ InitClient(Scene.app, Scene.acts)
  /\ posts = Scene.posts

\* The global filters that setGlobalFilters() names: pan and zoom are not among them.
Globals ==
  [collection |-> Scene.log, start |-> range.start, end |-> range.end, files |-> files,
   pan |-> "", zoom |-> ""]

\* The query of each panel, with its parameters.
QueryOf(panel) ==
  CASE panel = "files" -> [name |-> "logs.aggregate_source_files_table", search |-> search["files"]]
    [] panel = "entries" -> [name |-> "logs.raw_entries", search |-> search["entries"]]
    [] panel = "times" -> [name |-> "logs.timeseries", bins |-> Scene.bins, by |-> "level_name"]
    [] panel = "panzoom" -> [name |-> "logs.pan_and_zoom"]

SendRequest(id) ==
  LET panels == SetToSeq(pending)
  IN  /\ Send(id)
      /\ Post(id, [globals |-> Globals, queries |-> [i \in DOMAIN panels |-> QueryOf(panels[i])],
                   app |-> TRUE])
      /\ UNCHANGED <<scene, posts>>

DataFor(id, panel) ==
  LET i == CHOOSE j \in DOMAIN asked[id].queries : asked[id].queries[j].name = QueryOf(panel).name
  IN  reply[id].what[i]

DeliverReply(id) ==
  /\ pc[id] = "replied"
  /\ asked[id].app
  /\ Deliver(id, reply[id].kind = "ok",
             IF reply[id].kind = "ok" THEN [p \in carries[id] |-> DataFor(id, p)] ELSE <<>>)
  /\ Release(id)
  /\ UNCHANGED <<scene, posts>>

PostOther(id) ==
  /\ posts > 0
  /\ posts' = posts - 1
  /\ \E request \in Scene.requests : Post(id, request)
  /\ UNCHANGED <<clientVars, scene>>

CollectOther(id) ==
  /\ pc[id] = "replied"
  /\ ~asked[id].app
  /\ Release(id)
  /\ UNCHANGED <<clientVars, scene, posts>>

ServerStep(id) == (Serve(id) \/ Read(id)) /\ UNCHANGED <<clientVars, scene, posts>>

Accidents == (Abort \/ (Scene.stops /\ (Interrupt \/ Exit))) /\ UNCHANGED <<clientVars, scene, posts>>

UserActs ==
  /\ User(Scene.words, FilesOf(EntriesIn(Collections[Scene.log])), Scene.codes)
  /\ UNCHANGED <<serviceVars, scene, posts>>

Renders == Render /\ UNCHANGED <<serviceVars, scene, posts>>

Receives(id) == DeliverReply(id) \/ CollectOther(id)

Next ==
  \/ UserActs
  \/ Renders
  \/ Accidents
  \/ \E id \in Ids : SendRequest(id) \/ PostOther(id) \/ ServerStep(id) \/ Receives(id)

(***************************************************************************)
(* Goroutines that can go on do, answers arrive, a client renders what is  *)
(* due and its timers fire.  Users and accidents are not made to act, and  *)
(* nothing makes a user let go of a key.                                   *)
(***************************************************************************)
Fairness ==
  /\ \A id \in Ids : WF_vars(ServerStep(id)) /\ WF_vars(Receives(id))
  /\ WF_vars(Renders)
  /\ WF_vars(\E id \in Ids : SendRequest(id))

Spec == Init /\ [][Next]_vars /\ Fairness

-----------------------------------------------------------------------------
(* Properties *)

AtRest == pending = {} /\ ~timer /\ ~due /\ \A id \in Ids : asked[id] = NoRequest

(***************************************************************************)
(* App.tsx: each panel asks again when one of the values that its query    *)
(* depends on changes.  Once nothing is under way it shows what the log    *)
(* has for the range, files and searches selected now, unless its latest   *)
(* request failed or was overtaken by the one before.                      *)
(***************************************************************************)
AppInStep ==
  Scene.app /\ AtRest =>
    LET entries == EntriesIn(Collections[Scene.log])
        filter == FilterFromGlobalFilters(Ends(entries), Globals)
    IN  \A panel \in {"files", "entries", "times"} :
          \/ overtaken[panel] \/ failed[panel]
          \/ /\ shown[panel].kind = "ok"
             /\ Answers(entries, Globals, filter, QueryOf(panel), shown[panel].what)

\* HandleDataRequest(), errgroup and the reader's channel: every request is
\* answered in the end, or its connection fails with the process.
RequestsAnswered == \A id \in Ids : []<>(pc[id] = "free")

\* A client whose user holds no key comes to rest: the renders that make series
\* and the answers that make renders do not keep each other going.
AppSettles == []<>(AtRest \/ Steers(keys))
=============================================================================
