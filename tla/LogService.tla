------------------------------ MODULE LogService ------------------------------
(***************************************************************************)
(* The LogViz server: requests are handled concurrently, each by a         *)
(* goroutine that looks its collection up in the data source's cache       *)
(* (data_source.go), then in the fetcher's (service.go), and else reads it *)
(* from a file.  Another goroutine parses the file and hands the entries   *)
(* over an unbuffered channel (logger_reader.go, log_trace.go).            *)
(*                                                                         *)
(* Both caches are simplelru.LRUs, which are not safe for concurrent use,  *)
(* and nothing serialises the calls.  A call is two steps; while it is     *)
(* inside, calls of other handlers to the same cache race with it.  A race *)
(* leaves the cache with any of the collections involved, in any order,    *)
(* and one with an Add may be fatal: Go aborts the process on a concurrent *)
(* write to a map it detects.  So does a panic in a handler's goroutine,   *)
(* which the error group that runs it does not recover from.               *)
(***************************************************************************)
EXTENDS LogData

CONSTANTS
  Ids,          \* requests that can be under way at once
  Collections,  \* the lines of each log file under the collection root
  Capacity      \* of each cache; 10 in the code

ASSUME CapacityAssumption == Capacity \in Nat \ {0}

ASSUME CollectionsAssumption ==
  \A name \in DOMAIN Collections :
    /\ Collections[name] \in Seq(ToSet(Collections[name]))
    /\ \A line \in ToSet(Collections[name]) :
         /\ line.kind \in {"entry", "more", "odd", "junk"}
         /\ line.kind # "junk" => line.time \in Int /\ line.level \in DOMAIN LevelKeys

VARIABLES
  process,   \* serving, draining (after an interrupt) or gone
  pc,        \* where the handling of each request is; "free": there is none
  asked,     \* the request: global filters and a sequence of queries
  cache,     \* the LRUs "outer" and "inner": [name, log], the latest first
  inside,    \* handlers inside an LRU's method
  read,      \* the entries NewLogTrace has received
  reader,    \* the reader goroutine a handler started
  trace,     \* the log trace a handler has got hold of
  reply

serviceVars == <<process, pc, asked, cache, inside, read, reader, trace, reply>>

Caches == {"outer", "inner"}
NoReader == [at |-> "none"]
Closed == [at |-> "closed"]
Reading(pos) == [at |-> "reading", pos |-> pos]
Sending(item) == [at |-> "sending", item |-> item]
NoRequest == [globals |-> <<>>, queries |-> <<>>]
NoReply == Failure("none")

InitService ==
  /\ process = "serving"
  /\ pc = [id \in Ids |-> "free"]
  /\ asked = [id \in Ids |-> NoRequest]
  /\ cache = [c \in Caches |-> <<>>]
  /\ inside = {}
  /\ read = [id \in Ids |-> <<>>]
  /\ reader = [id \in Ids |-> NoReader]
  /\ trace = [id \in Ids |-> <<>>]
  /\ reply = [id \in Ids |-> NoReply]

NameOf(id) == asked[id].globals.collection

\* The handler returns: the server answers the request.
Return(id, outcome) ==
  /\ reply' = [reply EXCEPT ![id] = outcome]
  /\ pc' = [pc EXCEPT ![id] = "replied"]

Goto(id, place) == pc' = [pc EXCEPT ![id] = place] /\ UNCHANGED reply

\* A client sends a request.
Post(id, request) ==
  /\ pc[id] = "free"
  /\ asked' = [asked EXCEPT ![id] = request]
  /\ pc' = [pc EXCEPT ![id] = "sent"]
  /\ UNCHANGED <<process, cache, inside, read, reader, trace, reply>>

(***************************************************************************)
(* HandleDataRequest() gives the queries to the data source they belong    *)
(* to; without any there is nothing to handle.                             *)
(***************************************************************************)
Accept(id) ==
  /\ process = "serving"
  /\ pc[id] = "sent"
  /\ IF asked[id].queries = <<>> THEN Return(id, Answered(<<>>)) ELSE Goto(id, "outer get")
  /\ UNCHANGED <<process, asked, cache, inside, read, reader, trace>>

-----------------------------------------------------------------------------
(* The caches *)

CacheUsed(place) == IF place \in {"outer get", "outer add"} THEN "outer" ELSE "inner"
Rivals(id) == {j \in inside \ {id} : CacheUsed(pc[j]) = CacheUsed(pc[id])}

\* A handler enters a method of an LRU.
Enter(id) ==
  /\ process # "gone"
  /\ pc[id] \in {"outer get", "inner get", "inner add", "outer add"}
  /\ id \notin inside
  /\ inside' = inside \union {id}
  /\ UNCHANGED <<process, pc, asked, cache, read, reader, trace, reply>>

Held(c, name) == {i \in DOMAIN cache[c] : cache[c][i].name = name}
Without(c, i) == RemoveAt(cache[c], i)

\* What races may leave of the items of an LRU.
Garbled(items) == UNION {SetToSeqs(some) : some \in SUBSET items}

(***************************************************************************)
(* A handler leaves the method, which was to make the cache `after'.       *)
(***************************************************************************)
Leave(id, after) ==
  LET c == CacheUsed(pc[id])
  IN  /\ inside' = inside \ {id}
      /\ \/ cache' = [cache EXCEPT ![c] = after]
         \/ /\ Rivals(id) # {}
            /\ \E left \in Garbled(ToSet(cache[c]) \union ToSet(after)) :
                 /\ Len(left) <= Capacity
                 /\ cache' = [cache EXCEPT ![c] = left]

\* LRU.Get(): a collection that is found becomes the latest.
Get(id, found, missed) ==
  LET c == CacheUsed(pc[id])
      name == NameOf(id)
  IN  /\ process # "gone"
      /\ id \in inside
      /\ \/ \E i \in Held(c, name) :
              /\ trace' = [trace EXCEPT ![id] = cache[c][i].log]
              /\ Leave(id, <<cache[c][i]>> \o Without(c, i))
              /\ Goto(id, found)
         \/ /\ Held(c, name) = {}
            /\ inside' = inside \ {id}
            /\ Goto(id, missed)
            /\ UNCHANGED <<cache, trace>>
      /\ UNCHANGED <<process, asked, read, reader>>

LookOuter(id) == pc[id] = "outer get" /\ Get(id, "answer", "inner get")
LookInner(id) == pc[id] = "inner get" /\ Get(id, "outer add", "open")

\* LRU.Add(): the latest, in the place of one of its name; the least recently
\* used goes if there are too many.
Add(id, next) ==
  LET c == CacheUsed(pc[id])
      name == NameOf(id)
      latest == <<[name |-> name, log |-> trace[id]]>>
  IN  /\ process # "gone"
      /\ id \in inside
      /\ \/ \E i \in Held(c, name) : Leave(id, latest \o Without(c, i))
         \/ /\ Held(c, name) = {}
            /\ Leave(id, latest \o SubSeq(cache[c], 1, Smaller(Capacity - 1, Len(cache[c]))))
      /\ Goto(id, next)
      /\ UNCHANGED <<process, asked, read, reader, trace>>

AddInner(id) == pc[id] = "inner add" /\ Add(id, "outer add")
AddOuter(id) == pc[id] = "outer add" /\ Add(id, "answer")

\* Go notices that an Add and another call are inside one LRU's map.
Abort ==
  /\ process # "gone"
  /\ \E id \in inside :
       /\ Rivals(id) # {}
       /\ pc[id] \in {"inner add", "outer add"}
  /\ process' = "gone"
  /\ UNCHANGED <<pc, asked, cache, inside, read, reader, trace, reply>>

-----------------------------------------------------------------------------
(* Reading a collection *)

\* os.Open; then NewLogTrace() starts the reader.
Open(id) ==
  /\ process # "gone"
  /\ pc[id] = "open"
  /\ \/ /\ NameOf(id) \notin DOMAIN Collections
        /\ Return(id, Failure("error"))
        /\ UNCHANGED <<read, reader>>
     \/ /\ NameOf(id) \in DOMAIN Collections
        /\ Goto(id, "build")
        /\ read' = [read EXCEPT ![id] = <<>>]
        /\ reader' = [reader EXCEPT ![id] = Reading(1)]
  /\ UNCHANGED <<process, asked, cache, inside, trace>>

BadReadStaysOpen(id) ==
  /\ process # "gone"
  /\ reader[id].at = "reading"
  /\ LET item == ReadLogEntry(Collections[NameOf(id)], reader[id].pos)
     IN  /\ item.kind # "eof"
         /\ reader' = [reader EXCEPT ![id] = Sending(item)]
  /\ UNCHANGED <<process, pc, asked, cache, inside, read, trace, reply>>

\* The reader parses an entry; at the end of the file it closes the channel.
Read(id) ==
  /\ process # "gone"
  /\ reader[id].at = "reading"
  /\ LET item == ReadLogEntry(Collections[NameOf(id)], reader[id].pos)
     IN  reader' = [reader EXCEPT ![id] = IF item.kind = "eof" THEN Closed ELSE Sending(item)]
  /\ UNCHANGED <<process, pc, asked, cache, inside, read, trace, reply>>

BadErrorReadOn(id) ==
  /\ process # "gone"
  /\ pc[id] = "build"
  /\ reader[id].at = "sending"
  /\ LET item == reader[id].item
     IN  \/ /\ item.kind = "error"
            /\ reader' = [reader EXCEPT ![id] = Sending(item)]
            /\ Return(id, Failure("error"))
            /\ UNCHANGED read
         \/ /\ item.kind = "entry"
            /\ reader' = [reader EXCEPT ![id] = Reading(item.next)]
            /\ read' = [read EXCEPT ![id] = Append(@, item.entry)]
            /\ Goto(id, "build")
  /\ UNCHANGED <<process, asked, cache, inside, trace>>

(***************************************************************************)
(* The channel hands an item over.  After an error neither side goes on:   *)
(* the reader closes the channel and NewLogTrace() returns.                *)
(***************************************************************************)
Receive(id) ==
  /\ process # "gone"
  /\ pc[id] = "build"
  /\ reader[id].at = "sending"
  /\ LET item == reader[id].item
     IN  \/ /\ item.kind = "error"
            /\ reader' = [reader EXCEPT ![id] = Closed]
            /\ Return(id, Failure("error"))
            /\ UNCHANGED read
         \/ /\ item.kind = "entry"
            /\ reader' = [reader EXCEPT ![id] = Reading(item.next)]
            /\ read' = [read EXCEPT ![id] = Append(@, item.entry)]
            /\ Goto(id, "build")
  /\ UNCHANGED <<process, asked, cache, inside, trace>>

BadBuildUnsorted(id) ==
  /\ process # "gone"
  /\ pc[id] = "build"
  /\ reader[id].at = "closed"
  /\ \/ read[id] = <<>> /\ Return(id, Failure("error")) /\ UNCHANGED trace
     \/ /\ read[id] # <<>>
        /\ trace' = [trace EXCEPT ![id] = read[id]]
        /\ Goto(id, "inner add")
  /\ UNCHANGED <<process, asked, cache, inside, read, reader>>

\* The channel is closed: NewLogTrace() sorts what it has received.
Build(id) ==
  /\ process # "gone"
  /\ pc[id] = "build"
  /\ reader[id].at = "closed"
  /\ \/ read[id] = <<>> /\ Return(id, Failure("error")) /\ UNCHANGED trace
     \/ /\ read[id] # <<>>
        /\ \E log \in LogTraces(read[id]) : trace' = [trace EXCEPT ![id] = log]
        /\ Goto(id, "inner add")
  /\ UNCHANGED <<process, asked, cache, inside, read, reader>>

-----------------------------------------------------------------------------
(* Answering *)

Handle(id) ==
  /\ process # "gone"
  /\ pc[id] = "answer"
  /\ \E filter \in {FilterFromGlobalFilters(trace[id], asked[id].globals)} :
     \E outcome \in {HandleDataSeriesRequests(trace[id], filter, asked[id].queries)} :
       \/ outcome.kind = "panic" /\ process' = "gone" /\ UNCHANGED <<pc, reply>>
       \/ outcome.kind # "panic" /\ Return(id, outcome) /\ UNCHANGED process
  /\ UNCHANGED <<asked, cache, inside, read, reader, trace>>

(***************************************************************************)
(* An interrupt ends serving: the process refuses new requests and goes    *)
(* once the others are done, or after five seconds.                        *)
(***************************************************************************)
Interrupt ==
  /\ process = "serving"
  /\ process' = "draining"
  /\ UNCHANGED <<pc, asked, cache, inside, read, reader, trace, reply>>

Exit ==
  /\ process = "draining"
  /\ process' = "gone"
  /\ UNCHANGED <<pc, asked, cache, inside, read, reader, trace, reply>>

\* The client's connection fails: refused, or closed by the end of the process.
Disconnect(id) ==
  /\ \/ process # "serving" /\ pc[id] = "sent"
     \/ process = "gone" /\ pc[id] \notin {"free", "sent", "replied"}
  /\ Return(id, Failure("error"))
  /\ UNCHANGED <<process, asked, cache, inside, read, reader, trace>>

\* The client has its answer; what the request used is garbage.
Release(id) ==
  /\ pc' = [pc EXCEPT ![id] = "free"]
  /\ asked' = [asked EXCEPT ![id] = NoRequest]
  /\ reply' = [reply EXCEPT ![id] = NoReply]
  /\ trace' = [trace EXCEPT ![id] = <<>>]
  /\ read' = [read EXCEPT ![id] = <<>>]
  /\ reader' = [reader EXCEPT ![id] = IF @.at = "closed" \/ process = "gone" THEN NoReader ELSE @]
  /\ inside' = inside \ {id}
  /\ UNCHANGED <<process, cache>>

Serve(id) ==
  \/ Accept(id) \/ Enter(id) \/ LookOuter(id) \/ LookInner(id) \/ Open(id)
  \/ Receive(id) \/ Build(id) \/ AddInner(id) \/ AddOuter(id) \/ Handle(id)
  \/ Disconnect(id)

-----------------------------------------------------------------------------
(* Properties *)

\* The log trace of a file that reads well: each of its entries, in time order.
\* There is one at least.
Whole(name, log) ==
  /\ name \in DOMAIN Collections
  /\ log \in Seq(ToSet(log)) /\ log # <<>>
  /\ WellFormed(Collections[name])
  /\ TimeOrdered(log)
  /\ \E order \in Bijection(DOMAIN log, FirstLines(Collections[name])) :
       \A i \in DOMAIN log : log[i] = EntryAt(Collections[name], order[i])

(***************************************************************************)
(* fetchCollection() and Fetch(): whatever requests race for, a cached     *)
(* collection is the whole of its file; one that failed is not cached.     *)
(***************************************************************************)
CachedIsWhole ==
  \A c \in Caches : \A i \in DOMAIN cache[c] : Whole(cache[c][i].name, cache[c][i].log)

(***************************************************************************)
(* Entries(): "The caller should consume the channel fully, otherwise a    *)
(* goroutine is leaked."  A reader that is not done has a consumer.        *)
(***************************************************************************)
NoReaderLeft ==
  process # "gone" => \A id \in Ids : reader[id].at \in {"reading", "sending"} => pc[id] = "build"

(***************************************************************************)
(* HandleDataSeriesRequests(): an answer shows what the file has in the    *)
(* range and the source files that the request selects, whichever cache    *)
(* the log came from and whatever happened on the way.                     *)
(***************************************************************************)
AnswersMatch ==
  \A id \in Ids : reply[id].kind = "ok" =>
    LET globals == asked[id].globals
        queries == asked[id].queries
        entries == EntriesIn(Collections[globals.collection])
        filter == FilterFromGlobalFilters(Ends(entries), globals)
    IN  \A i \in DOMAIN queries :
          /\ Answers(entries, globals, filter, queries[i], reply[id].what[i])
          /\ queries[i].name = "logs.aggregate_source_files_table" =>
               globals.files \subseteq FilesListed(reply[id].what[i])
          /\ RangeFits(Ends(entries), globals, filter)

(***************************************************************************)
(* timeseries_query.go: "The last bin will only contain samples at the     *)
(* last observed timestamp".  A query that is to be handled finds a bin    *)
(* for each entry, and in the last one only those at the end of its range. *)
(***************************************************************************)
LastBinIsLastMoment ==
  \A id \in Ids : pc[id] = "answer" =>
    LET filter == FilterFromGlobalFilters(trace[id], asked[id].globals)
        found == ForEachEntry(trace[id], filter).entries
    IN  \A q \in ToSet(asked[id].queries) :
          q.name = "logs.timeseries" /\ q.by = "level_name" /\ q.bins > 1 =>
            \A e \in ToSet(found) :
              /\ HasBin(filter, q, e)
              /\ WhichBin(filter, q, e) = q.bins - 1 => e.time = filter.end
=============================================================================
