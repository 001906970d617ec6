------------------------------- MODULE LogData --------------------------------
(***************************************************************************)
(* What LogViz computes from a log: the decoder of CockroachDB logs        *)
(* (crdb_log_parser.go), the time-ordered log trace and its filters        *)
(* (log_trace.go, filter.go), the range that the global filters select     *)
(* (data_source.go) and the answers to the queries (data_source.go,        *)
(* timeseries_query.go, trace_query.go).                                   *)
(*                                                                         *)
(* A line of a log is a record: `kind' is "entry" for a first line, "more" *)
(* for a continuation, "odd" for a first line whose date or number does    *)
(* not parse and "junk" for one that is not of the format; every line but  *)
(* junk has the other fields.  A message is the set of words in it, and a  *)
(* regular expression is a word, found in the texts that have it: "" is in *)
(* each, and BadRegex does not compile.  Times are in nanoseconds.         *)
(***************************************************************************)
EXTENDS Functions, Table, XYChart, SequencesExt

CONSTANT MaxZoom   \* how much of a log's duration is left at most, as a divisor

ASSUME MaxZoomAssumption == MaxZoom \in Nat \ {0}

BadRegex == "("
Found(regex, words) == regex = "" \/ regex \in words

\* The members of a list at some places.  The order of the places is theirs.
InOrder(places) ==
  {order \in [1 .. Cardinality(places) -> places] : \A i, j \in DOMAIN order : i < j => order[i] < order[j]}
At(list, places) ==
  Only({[k \in DOMAIN order |-> from[order[k]]] : order \in InOrder(places), from \in {list}})

\* time.Duration's division truncates.
Quotient(a, b) == IF a >= 0 THEN a \div b ELSE -((-a) \div b)

-----------------------------------------------------------------------------
(* The decoder *)

Readable(lines, i) == i <= Len(lines) /\ lines[i].kind # "junk"

(***************************************************************************)
(* decode(), with the next fragment at line `pos'.  Only the first line of *)
(* a log may be junk.  The decoder looks one line past the entry, and an   *)
(* error there costs the entry it had read.                                *)
(***************************************************************************)
ReadLogEntry(lines, pos) ==
  LET start == IF pos = 1 /\ lines # <<>> /\ ~Readable(lines, 1) THEN 2 ELSE pos
      stop == CHOOSE i \in start + 1 .. Len(lines) + 1 :
                /\ ~(Readable(lines, i) /\ lines[i].kind = "more")
                /\ \A j \in start + 1 .. i - 1 : lines[j].kind = "more"
      wrong == \/ lines[start].kind \in {"junk", "odd"}
               \/ stop <= Len(lines) /\ ~Readable(lines, stop)
  IN  CASE start > Len(lines) -> [kind |-> "eof"]
        [] start <= Len(lines) /\ wrong -> [kind |-> "error"]
        [] OTHER -> [kind |-> "entry", next |-> stop,
                     entry |-> [time |-> lines[start].time, level |-> lines[start].level,
                                file |-> lines[start].file, line |-> lines[start].line,
                                words |-> {lines[i].word : i \in start .. stop - 1}]]

-----------------------------------------------------------------------------
(* The log trace: its entries in time order; sort.Slice orders equal times *)
(* as it likes.                                                            *)

TimeOrdered(entries) == \A i, j \in DOMAIN entries : i < j => entries[i].time <= entries[j].time

LogTraces(read) ==
  {log \in {[i \in DOMAIN read |-> read[order[i]]] : order \in Injection(DOMAIN read, DOMAIN read)} :
     TimeOrdered(log)}

StartOf(log) == log[1].time
EndOf(log) == log[Len(log)].time
FilesOf(log) == {log[i].file : i \in DOMAIN log}
LevelsOf(log) == {log[i].level : i \in DOMAIN log}

(***************************************************************************)
(* ForEachEntry(): the slice between the first entry not before the start  *)
(* and the first after the end, found by binary search in a filter clamped *)
(* to the log; slicing panics when the second comes before the first.      *)
(***************************************************************************)
ForEachEntry(log, filter) ==
  LET start == IF filter.start < StartOf(log) THEN StartOf(log) ELSE filter.start
      end == IF filter.end > EndOf(log) THEN EndOf(log) ELSE filter.end
      startIdx == Cardinality({i \in DOMAIN log : log[i].time < start})
      endIdx == Cardinality({i \in DOMAIN log : log[i].time <= end})
      filteredIn == {i \in startIdx + 1 .. endIdx :
                       /\ start <= log[i].time /\ log[i].time <= end
                       /\ filter.files = {} \/ log[i].file \in filter.files}
  IN  [crash |-> startIdx > endIdx, entries |-> At(log, filteredIn)]

-----------------------------------------------------------------------------
(* The filters that a request's global filters select: start and end (0 if *)
(* they are not given, which the clamp turns into the log's own), source   *)
(* files, pan and zoom.                                                    *)

ClampTimerange(log, start, end) ==
  [start |-> IF start < StartOf(log) THEN StartOf(log) ELSE start,
   end   |-> IF EndOf(log) < end \/ end < StartOf(log) THEN EndOf(log) ELSE end]

\* Half the width of the range after zooming.
Zoomed(log, half, zoom) ==
  LET total == EndOf(log) - StartOf(log)
      narrow == Quotient(half, 2)
  IN CASE zoom = "in" -> IF narrow >= 0 /\ total > 2 * narrow * MaxZoom THEN total \div (2 * MaxZoom)
                         ELSE narrow
       [] zoom = "out" -> half * 2
       [] OTHER -> half

Larger(a, b) == IF a < b THEN b ELSE a
Smaller(a, b) == IF a < b THEN a ELSE b

BadPannedPastEnds(log, midpoint, half, pan) ==
  CASE pan = "left" -> midpoint - 2 * half
    [] pan = "right" -> midpoint + half
    [] OTHER -> midpoint

\* The middle of the range after panning by half its width, away from the ends.
Panned(log, midpoint, half, pan) ==
  CASE pan = "left" -> Larger(midpoint - half, StartOf(log) + half)
    [] pan = "right" -> Smaller(midpoint + half, EndOf(log) - half)
    [] OTHER -> midpoint

\* filterFromGlobalFilters(); `known' is false when it fails on a source file.
FilterFromGlobalFilters(log, globals) ==
  LET asked == ClampTimerange(log, globals.start, globals.end)
      width == Quotient(asked.end - asked.start, 2)
      half == Zoomed(log, width, globals.zoom)
      midpoint == Panned(log, asked.start + width, half, globals.pan)
      range == ClampTimerange(log, midpoint - half, midpoint + half)
  IN  [known |-> globals.files \subseteq FilesOf(log),
       start |-> range.start, end |-> range.end, files |-> globals.files]

-----------------------------------------------------------------------------
(* The queries.  An outcome is an answer, an error or a panic.             *)

Failure(kind) == [kind |-> kind, what |-> <<>>]
Answered(what) == [kind |-> "ok", what |-> what]

\* The columns of the table of source files, and the cells of one; each level has a
\* column, by weight.
LevelKeys == [weight \in 0 .. 3 |-> <<"level_0", "level_1", "level_2", "level_3">>[weight + 1]]
LevelColumns(levels) == At([l \in DOMAIN LevelKeys |-> Column(LevelKeys[l])], levels)
FileColumns(log) ==
  <<Column("source_file"), Column("source_loc_count"), Column("entries")>>
  \o LevelColumns(LevelsOf(log))

\* row(): the row of a source file, whose entries are at places `its'; there are no
\* cells for levels without.
LevelCells(entries, its) ==
  At([l \in DOMAIN LevelKeys |-> Cell(LevelKeys[l], Cardinality({i \in its : entries[i].level = l}))],
     {entries[i].level : i \in its})
FileRow(file, entries, its) ==
  Row(<<Cell("source_file", file),
        Cell("source_loc_count", Cardinality({entries[i].line : i \in its})),
        Cell("entries", Cardinality(its))>> \o LevelCells(entries, its),
      Property("source_file", file))

\* handleSourceFileTableQuery(): a row for each filtered source file and each one
\* with an entry in the time range, whether its file is filtered in or not, by name
\* (in some order).
FileTableOf(found, log, filter, query) ==
  LET matching == {i \in DOMAIN found.entries : Found(query.search, {found.entries[i].file})}
      sources == filter.files \union {found.entries[i].file : i \in matching}
      of(file) == {i \in matching : found.entries[i].file = file}
  IN  CASE query.search = BadRegex -> Failure("error")
        [] query.search # BadRegex /\ found.crash -> Failure("panic")
        [] OTHER -> Answered(NewTable(FileColumns(log), SetToSeq({FileRow(file, found.entries, of(file)) : file \in sources})))
SourceFileTable(log, filter, query) ==
  Only({FileTableOf(found, log, filter, query) : found \in {ForEachEntry(log, [filter EXCEPT !.files = {}])}})

\* A row of the raw entries has one cell, which is formatted, and properties to
\* interact with.
EventFormat == <<"level_name", "timestamp", "source_loc_name", "message">>
EventRow(e) ==
  Row(<<FormattedCell("event_format", EventFormat,
          [timestamp |-> e.time, level_name |-> e.level, source_loc_name |-> <<e.file, e.line>>,
           message |-> e.words])>>,
      [source_file |-> e.file, timestamp |-> e.time])

EventsOf(found, query) ==
  LET matching == At(found.entries, {i \in DOMAIN found.entries : Found(query.search, found.entries[i].words)})
  IN  CASE query.search = BadRegex -> Failure("error")
        [] query.search # BadRegex /\ found.crash -> Failure("panic")
        [] OTHER -> Answered(NewTable(<<Column("event_format")>>, [i \in DOMAIN matching |-> EventRow(matching[i])]))
RawEntries(log, filter, query) ==
  Only({EventsOf(found, query) : found \in {ForEachEntry(log, filter)}})

\* binWidth, and whichBin(): 0 widths make it divide by zero.
BinWidth(filter, query) == Quotient(filter.end - filter.start, query.bins - 1)
HasBin(filter, query, e) ==
  /\ BinWidth(filter, query) # 0
  /\ Quotient(e.time - filter.start, BinWidth(filter, query)) < query.bins
WhichBin(filter, query, e) == Quotient(e.time - filter.start, BinWidth(filter, query))

(***************************************************************************)
(* handleTimeseriesQuery(): a series for each level, by name (in some      *)
(* order), with a point for each bin, at its start: how many entries of    *)
(* the level are in it.  (The code divides all of these by the time unit   *)
(* of the bins.)  An entry that has no bin makes it panic.                 *)
(***************************************************************************)
SeriesFrom(found, filter, query) ==
  LET inBin(level, b) ==
        Cardinality({i \in DOMAIN found.entries :
                       found.entries[i].level = level /\ WhichBin(filter, query, found.entries[i]) = b})
      xAxis == NewAxis("timestamp", "x_axis", {filter.start, filter.end})
      yAxis == NewAxis("double", "y_axis",
                       {0} \union {inBin(l, b) : l \in LevelsOf(found.entries), b \in 0 .. query.bins - 1})
      pointsOf(level) ==
        [i \in 1 .. query.bins |->
           Point("x_axis", "y_axis", filter.start + (i - 1) * BinWidth(filter, query), inBin(level, i - 1))]
  IN  CASE query.bins <= 1 \/ query.by # "level_name" -> Failure("error")
        [] query.bins > 1 /\ query.by = "level_name"
           /\ (found.crash \/ \E i \in DOMAIN found.entries : ~HasBin(filter, query, found.entries[i]))
             -> Failure("panic")
        [] OTHER ->
             Answered(NewChart(xAxis, yAxis,
               SetToSeq({AddSeries(l, pointsOf(l)) : l \in LevelsOf(found.entries)})))
Timeseries(log, filter, query) ==
  Only({SeriesFrom(found, filter, query) : found \in {ForEachEntry(log, filter)}})

\* timeSeriesTreeNode.add(): the entry goes to the node; the child that is made
\* for the rest of its path is never put among the node's children.
AddToTree(node, entry) == [node EXCEPT !.entries = Append(@, entry)]

\* handleTraceQuery(): a category for each child of the root, of which none is.
TreeOf(found) ==
  LET added[n \in 0 .. Len(found.entries)] ==
        IF n = 0 THEN [entries |-> <<>>, children |-> {}]
        ELSE AddToTree(added[n - 1], found.entries[n])
      root == added[Len(found.entries)]
  IN  CASE found.crash -> Failure("panic")
        [] ~found.crash /\ root.entries = <<>> -> Failure("error")
        [] OTHER -> Answered(Node(NewAxis("timestamp", "x_axis",
                                          {root.entries[1].time, root.entries[Len(root.entries)].time}),
                                  SetToSeq(root.children)))
TraceOf(log, filter) == Only({TreeOf(found) : found \in {ForEachEntry(log, filter)}})

\* handlePanAndZoomQuery().
PanAndZoom(filter) ==
  Node([start_timestamp |-> filter.start, end_timestamp |-> filter.end], <<>>)

Outcome(log, filter, query) ==
  CASE query.name = "logs.aggregate_source_files_table" -> SourceFileTable(log, filter, query)
    [] query.name = "logs.raw_entries" -> RawEntries(log, filter, query)
    [] query.name = "logs.timeseries" -> Timeseries(log, filter, query)
    [] query.name = "logs.trace" -> TraceOf(log, filter)
    [] query.name = "logs.pan_and_zoom" -> Answered(PanAndZoom(filter))

(***************************************************************************)
(* HandleDataSeriesRequests(), once it has the log: the queries one after  *)
(* the other, up to the first that fails.  The result has the answers by   *)
(* series if there is no such query.                                       *)
(***************************************************************************)
Result(outcomes, known) ==
  LET failing == {i \in DOMAIN outcomes : outcomes[i].kind # "ok"}
      first == CHOOSE i \in failing : \A j \in failing : i <= j
  IN  CASE ~known -> Failure("error")
        [] known /\ failing # {} -> Failure(outcomes[first].kind)
        [] OTHER -> Answered([i \in DOMAIN outcomes |-> outcomes[i].what])
HandleDataSeriesRequests(log, filter, queries) ==
  Only({Result(outcomes, filter.known) :
          outcomes \in {[i \in DOMAIN queries |-> Outcome(log, filter, queries[i])]}})

-----------------------------------------------------------------------------
(* What an answer must be, said of the lines of the log itself.            *)

\* Every line but the first is of the format, and every entry's numbers parse.
WellFormed(lines) ==
  \A i \in DOMAIN lines : lines[i].kind \in {"entry", "more"} \/ (i = 1 /\ lines[i].kind = "junk")

\* The entries of a log: each a first line and the lines up to the next one.
Begins(lines, i) ==
  lines[i].kind # "junk" /\ (lines[i].kind # "more" \/ i = 1 \/ lines[i - 1].kind = "junk")
FirstLines(lines) == {i \in DOMAIN lines : Begins(lines, i)}
EntryAt(lines, i) ==
  LET of == {j \in i .. Len(lines) : \A k \in i + 1 .. j : ~Begins(lines, k)}
  IN  [time |-> lines[i].time, level |-> lines[i].level, file |-> lines[i].file, line |-> lines[i].line,
       words |-> {lines[j].word : j \in of}]
EntriesIn(lines) == [i \in FirstLines(lines) |-> EntryAt(lines, i)]

\* An earliest and a latest one.
Ends(entries) ==
  LET places == DOMAIN entries
  IN  <<entries[CHOOSE i \in places : \A j \in places : entries[i].time <= entries[j].time],
        entries[CHOOSE i \in places : \A j \in places : entries[i].time >= entries[j].time]>>

\* The range of an answer lies in the log, and panning and zooming do what they say.
RangeFits(ends, globals, range) ==
  LET first == StartOf(ends)
      last == EndOf(ends)
      start == Larger(globals.start, first)
      end == IF globals.end < first THEN last ELSE Smaller(globals.end, last)
      still == globals.zoom \notin {"in", "out"}
  IN  start <= end =>
        /\ first <= range.start /\ range.start <= range.end /\ range.end <= last
        /\ still => range.end - range.start \in {end - start, end - start - 1}
        /\ still /\ globals.pan = "left" => range.start <= start
        /\ still /\ globals.pan = "right" => range.end >= end - 1
        /\ globals.zoom = "in" => (range.end - range.start + 1) * 2 * MaxZoom > last - first
        /\ globals.zoom = "out" /\ globals.pan \notin {"left", "right"} =>
             range.start <= start /\ range.end >= end - 1

\* What the client makes of a row of each table, and of pan and zoom.
AllRows(table) == ToSet(RowSlice(table, 0, RowCount(table)))
FilesListed(table) == {row.properties["source_file"] : row \in AllRows(table)}
RangeOf(node) == [start |-> node.properties["start_timestamp"], end |-> node.properties["end_timestamp"]]

\* A row counts the entries of its file that are among `logged', and those of each
\* level; it has blanks for levels without.
CountsFile(row, entries, logged) ==
  LET file == row.properties["source_file"]
      its == {i \in logged : entries[i].file = file}
      of(level) == {i \in its : entries[i].level = level}
  IN  /\ CellOf(row, "source_file") = <<file>>
      /\ CellOf(row, "entries") = <<Cardinality(its)>>
      /\ CellOf(row, "source_loc_count") = <<Cardinality({entries[i].line : i \in its})>>
      /\ \A l \in LevelsOf(entries) :
           CellOf(row, LevelKeys[l]) = IF of(l) = {} THEN <<>> ELSE <<Cardinality(of(l))>>

\* A table of the source files, as a DataTable shows it: a row for each file with
\* entries among `logged', and a column for each level of the log.
ShowsFiles(table, entries, logged) ==
  /\ IsTable(table)
  /\ ToSet(Columns(table)) =
       {"source_file", "source_loc_count", "entries"} \union {LevelKeys[l] : l \in LevelsOf(entries)}
  /\ {entries[i].file : i \in logged} \subseteq FilesListed(table)
  /\ RowCount(table) = Cardinality(FilesListed(table))
  /\ \A row \in AllRows(table) : CountsFile(row, entries, logged)

\* A table of events shows those of `wanted', each once, in the order of time.
Event(e) == <<e.level, e.time, <<e.file, e.line>>, e.words>>
ShowsEvents(table, entries, wanted) ==
  LET rows == RowSlice(table, 0, RowCount(table))
  IN  /\ IsTable(table)
      /\ TimeOrdered([i \in DOMAIN rows |-> [time |-> rows[i].properties["timestamp"]]])
      /\ \E shown \in Bijection(DOMAIN rows, wanted) :
           \A i \in DOMAIN rows : CellOf(rows[i], "event_format") = <<Event(entries[shown[i]])>>

\* A chart has a series for each level of `selected', with a point for each bin,
\* which counts the entries in it; all of them are within the axes.
ShowsSeries(chart, range, width, bins, entries, selected) ==
  /\ IsChart(chart)
  /\ {DefinedCategory(s) : s \in SeriesOf(chart)} = {entries[i].level : i \in selected}
  /\ \A s \in SeriesOf(chart) :
       LET points == PointsOf(chart, s)
           in(point) == {i \in selected : /\ entries[i].level = DefinedCategory(s)
                                          /\ point.x <= entries[i].time
                                          /\ entries[i].time < point.x + width}
       IN  /\ Len(points) = bins
           /\ \A i \in DOMAIN points :
                /\ AxisContains(XAxis(chart), points[i].x) /\ AxisContains(YAxis(chart), points[i].y)
                /\ points[i].x = range.start + (i - 1) * width
                /\ points[i].y = Cardinality(in(points[i]))

\* The axis of a trace goes from the first of `selected' to the last.
SpansTrace(axis, entries, selected) ==
  /\ \A i \in selected : AxisContains(axis, entries[i].time)
  /\ {axis.min, axis.max} \subseteq {entries[i].time : i \in selected}

\* `node' answers `query' under `globals', for these entries; its range is `range'.
Answers(entries, globals, range, query, node) ==
  LET inRange == {i \in DOMAIN entries : range.start <= entries[i].time /\ entries[i].time <= range.end}
      selected == {i \in inRange : globals.files = {} \/ entries[i].file \in globals.files}
  IN CASE query.name = "logs.aggregate_source_files_table" ->
            ShowsFiles(node, entries, {i \in inRange : Found(query.search, {entries[i].file})})
       [] query.name = "logs.raw_entries" ->
            ShowsEvents(node, entries, {i \in selected : Found(query.search, entries[i].words)})
       [] query.name = "logs.timeseries" ->
            ShowsSeries(node, range, BinWidth(range, query), query.bins, entries, selected)
       [] query.name = "logs.trace" -> SpansTrace(GetAxis(node), entries, selected)
       [] query.name = "logs.pan_and_zoom" -> RangeFits(Ends(entries), globals, RangeOf(node))
=============================================================================
