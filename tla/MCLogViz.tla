------------------------------- MODULE MCLogViz -------------------------------
(* Instances of LogViz: a few short logs, among them an unordered one, one   *)
(* with continuation lines and some that the decoder refuses.                *)
EXTENDS LogViz

CONSTANTS Others, AppActs

Line(kind, time, level, file, line, word) ==
  [kind |-> kind, time |-> time, level |-> level, file |-> file, line |-> line, word |-> word]
Junk == [kind |-> "junk"]

a1 == Line("entry", 10, 3, "a.go", 1, "hello")
a2 == Line("entry", 16, 2, "a.go", 2, "warn")
b1 == Line("entry", 13, 3, "b.go", 1, "hello")
more == Line("more", 10, 3, "a.go", 1, "again")
odd == Line("odd", 10, 3, "a.go", 1, "hello")

MCCollections ==
  ("log" :> <<Junk, a1, more, a2, b1>>)
  @@ ("tie" :> <<[b1 EXCEPT !.time = 10], a1>>)
  @@ ("pair" :> <<[b1 EXCEPT !.time = 14], a1>>)
  @@ ("twice" :> <<a2, a1, a1>>)
  @@ ("single" :> <<a1>>)
  @@ ("broken" :> <<a1, Junk, a2>>)
  @@ ("odd" :> <<a1, odd>>)
  @@ ("blank" :> <<Junk>>)

Ask1(collection, start, end, pan, zoom, chosen, query) ==
  [app |-> FALSE, queries |-> <<query>>,
   globals |-> [collection |-> collection, start |-> start, end |-> end, files |-> chosen,
                pan |-> pan, zoom |-> zoom]]

TableQ(word) == [name |-> "logs.aggregate_source_files_table", search |-> word]
RawQ(word) == [name |-> "logs.raw_entries", search |-> word]
TimesQ(bins, by) == [name |-> "logs.timeseries", bins |-> bins, by |-> by]
TraceQ == [name |-> "logs.trace"]
PanZoomQ == [name |-> "logs.pan_and_zoom"]

\* One request at a time: every query with every range, pan and zoom.
Kinds == {TableQ(w) : w \in {"", "a.go", BadRegex}} \union {RawQ(w) : w \in {"", "again", BadRegex}}
         \union {TimesQ(n, "level_name") : n \in {1, 3, 4}} \union {TimesQ(3, "file")} \union {TraceQ, PanZoomQ}
EveryRequest ==
  {Ask1("log", s, e, pan, zoom, chosen, q) :
     s \in {0, 12, 17}, e \in {0, 11, 15}, pan \in {"left", "right", "none"},
     zoom \in {"in", "out", "none"}, chosen \in {{}, {"b.go"}}, q \in Kinds}
  \union {Ask1("log", 0, 0, "none", "none", {"b.go", "z.go"}, RawQ(""))}

\* A log that has the same entry twice.
Twice == {Ask1("twice", 0, 0, "none", "none", {}, q) : q \in {TableQ(""), RawQ(""), TimesQ(3, "level_name"), TraceQ}}

Plain(collections) == {Ask1(c, 0, 0, "none", "none", {}, RawQ("")) : c \in collections}

\* Requests that race for the caches.
Racing == Plain({"pair", "single", "broken", "missing"})

Blank == [app |-> FALSE, acts |-> 0, log |-> "log", words |-> <<>>, codes |-> {}, bins |-> 3,
          posts |-> 0, requests |-> {}, stops |-> FALSE]
MCScenes ==
  <<[Blank EXCEPT !.posts = 1, !.requests = EveryRequest \union Plain({"tie", "odd", "blank"})],
    [Blank EXCEPT !.posts = Others, !.requests = Racing],
    [Blank EXCEPT !.posts = 2, !.requests = Racing, !.stops = TRUE],
    [Blank EXCEPT !.app = TRUE, !.log = "pair", !.acts = AppActs, !.words = ("file search" :> {"b.go"}) @@ ("entry search" :> {"again"})],
    [Blank EXCEPT !.app = TRUE, !.log = "pair", !.acts = 1, !.codes = {"KeyW"}],
    [Blank EXCEPT !.posts = 1, !.requests = Twice]>>
===============================================================================
