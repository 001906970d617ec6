--------------------------- MODULE LogServiceProofs ---------------------------
(***************************************************************************)
(* Proofs that LogViz leaves no log reader behind, that its caches hold    *)
(* whole logs only, that every answer shows what its file has, and that a  *)
(* React client at rest shows such answers: for any collections, requests, *)
(* users and cache capacity, and whatever a race makes of the caches.      *)
(***************************************************************************)
EXTENDS LogViz, Inductions, FiniteSetTheorems, FunctionTheorems, SequenceTheorems

(***************************************************************************)
(* The inductive invariant: a reader at work has its request at the        *)
(* receiving end of the channel.  A reader only starts when its handler    *)
(* goes to receive, and the handler leaves either with an error, when the  *)
(* reader has closed the channel, or from a closed channel.                *)
(***************************************************************************)
AtWork(id) == reader[id].at \in {"reading", "sending"}

Places ==
  {"free", "sent", "outer get", "inner get", "open", "build", "inner add", "outer add",
   "answer", "replied"}

IInv ==
  /\ pc \in [Ids -> Places]
  /\ reader = [id \in Ids |-> reader[id]]
  /\ NoReaderLeft

\* Steps of the client and of scenes leave the readers and their handlers alone.
ReadersRest == UNCHANGED <<process, pc, reader>>

LEMMA InitialReaders == Init => IInv
<1> SUFFICES ASSUME Init
             PROVE  IInv
  OBVIOUS
<1>1. pc = [id \in Ids |-> "free"] /\ reader = [id \in Ids |-> NoReader]
  BY DEF Init, InitService
<1>2. \A id \in Ids : ~AtWork(id)
  BY <1>1 DEF NoReader, AtWork
<1>3. pc \in [Ids -> Places] /\ reader = [id \in Ids |-> reader[id]]
  BY <1>1 DEF Places
<1> QED BY <1>2, <1>3 DEF IInv, NoReaderLeft, AtWork

LEMMA RestKeeps ==
  ASSUME IInv, ReadersRest
  PROVE  IInv'
BY DEF IInv, ReadersRest, NoReaderLeft

(***************************************************************************)
(* A handler that neither starts nor hears a reader moves from a place     *)
(* where it has none at work.                                              *)
(***************************************************************************)
LEMMA MovesKeep ==
  ASSUME IInv, NEW id \in Ids, NEW place \in Places,
         process' = process \/ process' = "gone",
         pc[id] # "build" \/ process = "gone",
         pc' = [pc EXCEPT ![id] = place], UNCHANGED reader
  PROVE  IInv'
<1>1. pc' \in [Ids -> Places]
  BY DEF IInv
<1>2. process' # "gone" => \A j \in Ids : pc[j] = "build" => pc'[j] = "build"
  BY DEF IInv
<1> QED BY <1>1, <1>2 DEF IInv, NoReaderLeft

\* The server's process only ends.
LEMMA ProcessKeeps ==
  ASSUME IInv, process # "gone", UNCHANGED <<pc, reader>>
  PROVE  IInv'
BY DEF IInv, NoReaderLeft

-----------------------------------------------------------------------------
(* The handlers *)

LEMMA LookupsKeep ==
  ASSUME IInv, NEW id \in Ids,
         Accept(id) \/ Enter(id) \/ LookOuter(id) \/ LookInner(id) \/ AddInner(id) \/ AddOuter(id)
  PROVE  IInv'
<1>1. CASE Accept(id)
  BY <1>1, MovesKeep DEF Places, Accept, Return, Goto
<1>2. CASE Enter(id)
  BY <1>2, RestKeeps DEF Enter, ReadersRest
<1>3. CASE LookOuter(id)
  BY <1>3, MovesKeep DEF Places, LookOuter, Get, Goto
<1>4. CASE LookInner(id)
  BY <1>4, MovesKeep DEF Places, LookInner, Get, Goto
<1>5. CASE AddInner(id)
  BY <1>5, MovesKeep DEF Places, AddInner, Add, Goto
<1>6. CASE AddOuter(id)
  BY <1>6, MovesKeep DEF Places, AddOuter, Add, Goto
<1> QED BY <1>1, <1>2, <1>3, <1>4, <1>5, <1>6

\* Opening a file starts a reader and goes on to receive from it.
LEMMA OpenKeeps ==
  ASSUME IInv, NEW id \in Ids, Open(id)
  PROVE  IInv'
<1>1. CASE NameOf(id) \notin DOMAIN Collections
  BY <1>1, MovesKeep DEF Places, Open, Return
<1>2. CASE NameOf(id) \in DOMAIN Collections
  <2>1. /\ pc' = [pc EXCEPT ![id] = "build"]
        /\ reader' = [reader EXCEPT ![id] = Reading(1)]
        /\ UNCHANGED process
    BY <1>2 DEF Open, Goto
  <2>2. pc' \in [Ids -> Places] /\ reader' = [j \in Ids |-> reader'[j]]
    BY <2>1 DEF IInv, Places
  <2> QED BY <2>1, <2>2 DEF IInv, NoReaderLeft
<1> QED BY <1>1, <1>2

\* The reader's own step: it had a receiver, and keeps it.
LEMMA ReadKeeps ==
  ASSUME IInv, NEW id \in Ids, Read(id)
  PROVE  IInv'
<1>1. /\ \E item : reader' = [reader EXCEPT ![id] = item]
      /\ UNCHANGED <<process, pc>>
      /\ pc[id] = "build"
  BY DEF Read, IInv, NoReaderLeft
<1> QED BY <1>1 DEF IInv, NoReaderLeft

\* A handler that gives up after an error leaves a reader that is done.
LEMMA ReceiveKeeps ==
  ASSUME IInv, NEW id \in Ids, Receive(id)
  PROVE  IInv'
<1>1. CASE reader[id].item.kind = "error"
  <2>1. /\ reader' = [reader EXCEPT ![id] = Closed]
        /\ pc' = [pc EXCEPT ![id] = "replied"]
        /\ UNCHANGED process
    BY <1>1 DEF Receive, Return
  <2>2. pc' \in [Ids -> Places] /\ reader' = [j \in Ids |-> reader'[j]]
    BY <2>1 DEF IInv, Places
  <2>3. reader'[id].at = "closed" /\ \A j \in Ids \ {id} : reader'[j] = reader[j] /\ pc'[j] = pc[j]
    BY <2>1 DEF IInv, Closed
  <2> QED BY <2>1, <2>2, <2>3 DEF IInv, NoReaderLeft
<1>2. CASE reader[id].item.kind = "entry"
  <2>1. /\ \E item : reader' = [reader EXCEPT ![id] = item]
        /\ pc' = [pc EXCEPT ![id] = "build"]
        /\ UNCHANGED process
    BY <1>2 DEF Receive, Goto
  <2>2. pc' \in [Ids -> Places] /\ reader' = [j \in Ids |-> reader'[j]]
    BY <2>1 DEF IInv, Places
  <2> QED BY <2>1, <2>2 DEF IInv, NoReaderLeft
<1> QED BY <1>1, <1>2 DEF Receive

\* A handler that has the whole log leaves a closed channel.
LEMMA BuildKeeps ==
  ASSUME IInv, NEW id \in Ids, Build(id)
  PROVE  IInv'
<1>1. /\ reader[id].at = "closed"
      /\ \E place \in Places : pc' = [pc EXCEPT ![id] = place]
      /\ UNCHANGED <<process, reader>>
  BY DEF Places, Build, Return, Goto
<1> QED BY <1>1 DEF IInv, NoReaderLeft

LEMMA HandleKeeps ==
  ASSUME IInv, NEW id \in Ids, Handle(id)
  PROVE  IInv'
<1>1. /\ process # "gone" /\ pc[id] = "answer" /\ UNCHANGED reader
      /\ \/ process' = "gone" /\ UNCHANGED pc
         \/ UNCHANGED process /\ pc' = [pc EXCEPT ![id] = "replied"]
  BY DEF Handle, Return
<1> QED BY <1>1, MovesKeep, ProcessKeeps DEF Places

LEMMA ServerKeeps ==
  ASSUME IInv, NEW id \in Ids, Serve(id) \/ Read(id)
  PROVE  IInv'
<1>1. CASE Disconnect(id)
  BY <1>1, MovesKeep DEF Places, Disconnect, Return
<1> QED BY <1>1, LookupsKeep, OpenKeeps, ReadKeeps, ReceiveKeeps, BuildKeeps, HandleKeeps DEF Serve

-----------------------------------------------------------------------------
(* Clients and accidents *)

LEMMA PostKeeps ==
  ASSUME IInv, NEW id \in Ids, NEW request, Post(id, request)
  PROVE  IInv'
BY MovesKeep DEF Places, Post

\* A request that is replied to has no reader at work, so none is dropped.
LEMMA ReleaseKeeps ==
  ASSUME IInv, NEW id \in Ids, pc[id] = "replied", Release(id)
  PROVE  IInv'
<1>1. /\ pc' = [pc EXCEPT ![id] = "free"]
      /\ reader' = [reader EXCEPT ![id] = IF @.at = "closed" \/ process = "gone" THEN NoReader ELSE @]
      /\ UNCHANGED process
  BY DEF Release
<1>2. pc' \in [Ids -> Places] /\ reader' = [j \in Ids |-> reader'[j]]
  BY <1>1 DEF IInv, Places
<1>3. process = "gone" \/ ~AtWork(id)
  BY DEF IInv, NoReaderLeft, AtWork
<1>4. process = "gone" \/ ~AtWork(id)'
  BY <1>1, <1>3 DEF IInv, NoReader, AtWork
<1>5. \A j \in Ids \ {id} : reader'[j] = reader[j] /\ pc'[j] = pc[j]
  BY <1>1 DEF IInv
<1> QED BY <1>1, <1>2, <1>4, <1>5 DEF IInv, NoReaderLeft, AtWork

LEMMA AccidentsKeep ==
  ASSUME IInv, Accidents
  PROVE  IInv'
BY ProcessKeeps DEF Accidents, Abort, Interrupt, Exit

LEMMA NextKeeps ==
  ASSUME IInv, [Next]_vars
  PROVE  IInv'
<1>1. CASE UserActs
  BY <1>1, RestKeeps DEF UserActs, ReadersRest, serviceVars
<1>2. CASE Renders
  BY <1>2, RestKeeps DEF Renders, ReadersRest, serviceVars
<1>3. CASE Accidents
  BY <1>3, AccidentsKeep
<1>4. ASSUME NEW id \in Ids, SendRequest(id)
      PROVE  IInv'
  BY <1>4, PostKeeps DEF SendRequest
<1>5. ASSUME NEW id \in Ids, PostOther(id)
      PROVE  IInv'
  BY <1>5, PostKeeps DEF PostOther
<1>6. ASSUME NEW id \in Ids, ServerStep(id)
      PROVE  IInv'
  BY <1>6, ServerKeeps DEF ServerStep
<1>7. ASSUME NEW id \in Ids, Receives(id)
      PROVE  IInv'
  BY <1>7, ReleaseKeeps DEF Receives, DeliverReply, CollectOther
<1>8. CASE UNCHANGED vars
  BY <1>8, RestKeeps DEF vars, serviceVars, ReadersRest
<1> QED BY <1>1, <1>2, <1>3, <1>4, <1>5, <1>6, <1>7, <1>8 DEF Next

(***************************************************************************)
(* Entries() and NewLogTrace(): a goroutine that reads a log has a         *)
(* consumer, so none is leaked, in whatever order requests race, fail,     *)
(* time out or are dropped.                                                *)
(***************************************************************************)
THEOREM ReadersHaveConsumers == Spec => []NoReaderLeft
<1>1. Init => IInv
  BY InitialReaders
<1>2. IInv /\ [Next]_vars => IInv'
  BY NextKeeps
<1>3. IInv => NoReaderLeft
  BY DEF IInv
<1> QED BY <1>1, <1>2, <1>3, PTL DEF Spec

-----------------------------------------------------------------------------
(* The decoder (crdb_log_parser.go) *)

IsLog(lines) ==
  /\ lines \in Seq(ToSet(lines))
  /\ \A i \in DOMAIN lines : lines[i].kind \in {"entry", "more", "odd", "junk"}

IsFine(lines, i) == lines[i].kind \in {"entry", "more"} \/ (i = 1 /\ lines[i].kind = "junk")

FirstLinesBefore(lines, pos) == {i \in FirstLines(lines) : i < pos}

\* The reader is at line `pos' and has found these entries: those that begin before.
Upto(lines, entries, pos) ==
  /\ pos \in 1 .. Len(lines) + 1
  /\ \A i \in 1 .. pos - 1 : IsFine(lines, i)
  /\ pos = 1 \/ pos = Len(lines) + 1 \/ Begins(lines, pos)
  /\ entries \in Seq(ToSet(entries))
  /\ \E order \in Bijection(1 .. Len(entries), FirstLinesBefore(lines, pos)) :
       \A i \in 1 .. Len(entries) : entries[i] = EntryAt(lines, order[i])

\* Where the next entry begins, and where the one after it.
Start(lines, pos) == IF pos = 1 /\ lines # <<>> /\ ~Readable(lines, 1) THEN 2 ELSE pos
IsStop(lines, start, i) ==
  /\ ~(Readable(lines, i) /\ lines[i].kind = "more")
  /\ \A j \in start + 1 .. i - 1 : lines[j].kind = "more"
Stop(lines, start) == CHOOSE i \in start + 1 .. Len(lines) + 1 : IsStop(lines, start, i)

LEMMA LogLength ==
  ASSUME NEW lines, IsLog(lines)
  PROVE  Len(lines) \in Nat /\ DOMAIN lines = 1 .. Len(lines)
BY DEF IsLog

\* There is such a stop.
LEMMA Stops ==
  ASSUME NEW lines, IsLog(lines), NEW start \in 1 .. Len(lines)
  PROVE  Stop(lines, start) \in start + 1 .. Len(lines) + 1 /\ IsStop(lines, start, Stop(lines, start))
<1> DEFINE T == {i \in start + 1 .. Len(lines) + 1 : ~(Readable(lines, i) /\ lines[i].kind = "more")}
<1>1. Len(lines) \in Nat
  BY LogLength
<1>2. T \subseteq Nat /\ Len(lines) + 1 \in T
  BY <1>1 DEF Readable
<1>3. PICK x \in T : \A y \in T : x <= y
  <2> HIDE DEF T
  <2>1. QED  BY <1>2, LeastNatural
<1>4. \A j \in start + 1 .. x - 1 : j \in start + 1 .. Len(lines) + 1 /\ ~ (x <= j)
  BY <1>1
<1>5. \A j \in start + 1 .. x - 1 : lines[j].kind = "more"
  BY <1>3, <1>4
<1>6. x \in start + 1 .. Len(lines) + 1 /\ IsStop(lines, start, x)
  BY <1>3, <1>5 DEF IsStop
<1>7. QED  BY <1>6 DEF Stop

\* The reading of one entry: what it is, from where to where, and what it is not.
LEMMA EntryRead ==
  ASSUME NEW lines, IsLog(lines), NEW pos \in 1 .. Len(lines) + 1,
         NEW start, start = Start(lines, pos), NEW stop, stop = Stop(lines, start)
  PROVE  /\ ReadLogEntry(lines, pos).kind = "eof" => start > Len(lines)
         /\ ReadLogEntry(lines, pos).kind = "entry" =>
              /\ start \in 1 .. Len(lines)
              /\ lines[start].kind \in {"entry", "more"}
              /\ stop \in start + 1 .. Len(lines) + 1
              /\ \A i \in start + 1 .. stop - 1 : lines[i].kind = "more"
              /\ stop <= Len(lines) => lines[stop].kind \in {"entry", "odd"}
              /\ ReadLogEntry(lines, pos).next = stop
              /\ ReadLogEntry(lines, pos).entry =
                   [time |-> lines[start].time, level |-> lines[start].level,
                    file |-> lines[start].file, line |-> lines[start].line,
                    words |-> {lines[i].word : i \in start .. stop - 1}]
<1> DEFINE item == ReadLogEntry(lines, pos)
           wrong == \/ lines[start].kind \in {"junk", "odd"}
                    \/ stop <= Len(lines) /\ ~Readable(lines, stop)
           entry == [time |-> lines[start].time, level |-> lines[start].level,
                     file |-> lines[start].file, line |-> lines[start].line,
                     words |-> {lines[i].word : i \in start .. stop - 1}]
<1>1. item = CASE start > Len(lines) -> [kind |-> "eof"]
               [] start <= Len(lines) /\ wrong -> [kind |-> "error"]
               [] OTHER -> [kind |-> "entry", next |-> stop, entry |-> entry]
  BY DEF ReadLogEntry, Start, Stop, IsStop
<1>2. Len(lines) \in Nat /\ DOMAIN lines = 1 .. Len(lines) /\ start \in Nat \ {0}
  BY LogLength DEF Start
<1>3. CASE start > Len(lines)
  <2>1. item = [kind |-> "eof"]
    <3> HIDE DEF item, wrong, entry
    <3>1. QED  BY <1>1, <1>2, <1>3
  <2>2. QED  BY <1>3, <2>1
<1>4. CASE start <= Len(lines) /\ wrong
  <2>1. item = [kind |-> "error"]
    BY <1>1, <1>2, <1>4
  <2>2. QED  BY <2>1
<1>5. CASE start <= Len(lines) /\ ~wrong
  <2>1. item = [kind |-> "entry", next |-> stop, entry |-> entry]
    BY <1>1, <1>2, <1>5
  <2>2. start \in 1 .. Len(lines) /\ lines[start].kind \in {"entry", "more"}
    BY <1>2, <1>5 DEF IsLog
  <2>3. stop \in start + 1 .. Len(lines) + 1 /\ IsStop(lines, start, stop)
    BY <2>2, Stops
  <2>4. stop <= Len(lines) => lines[stop].kind \in {"entry", "odd"}
    BY <1>2, <1>5, <2>3 DEF IsStop, Readable, IsLog
  <2>5. \A i \in start + 1 .. stop - 1 : lines[i].kind = "more"
    BY <2>3 DEF IsStop
  <2> HIDE DEF item, entry
  <2>6. item.kind = "entry" /\ item.next = stop /\ item.entry = entry
    BY <2>1
  <2>7. QED  BY <2>2, <2>3, <2>4, <2>5, <2>6 DEF item, entry
<1>6. QED  BY <1>2, <1>3, <1>4, <1>5

\* Where an entry begins, given where the reader is.
LEMMA StartBegins ==
  ASSUME NEW lines, IsLog(lines), NEW entries, NEW pos, Upto(lines, entries, pos),
         NEW start, start = Start(lines, pos), start \in 1 .. Len(lines),
         lines[start].kind \in {"entry", "more"}
  PROVE  /\ Begins(lines, start)
         /\ \A i \in 1 .. start - 1 : IsFine(lines, i)
         /\ FirstLinesBefore(lines, start) = FirstLinesBefore(lines, pos)
<1>1. Len(lines) \in Nat /\ DOMAIN lines = 1 .. Len(lines) /\ pos \in 1 .. Len(lines) + 1
  BY LogLength DEF Upto
<1>2. CASE start = pos
  <2>1. Begins(lines, start)
    BY <1>1, <1>2 DEF Upto, Begins
  <2>2. QED  BY <1>2, <2>1 DEF Upto
<1>3. CASE start # pos
  <2>1. pos = 1 /\ start = 2 /\ lines[1].kind = "junk"
    BY <1>1, <1>3 DEF Start, Readable
  <2>2. Begins(lines, 2) /\ ~Begins(lines, 1)
    BY <2>1 DEF Begins
  <2>3. \A i \in 1 .. start - 1 : i = 1
    BY <2>1
  <2>4. \A i \in FirstLines(lines) : (i < 2) <=> (i < 1)
    <3>1. ASSUME NEW i \in FirstLines(lines)
          PROVE  (i < 2) <=> (i < 1)
      <4>1. i \in Nat \ {0} /\ i # 1
        BY <1>1, <2>2 DEF FirstLines
      <4>2. QED  BY <4>1
    <3>2. QED  BY <3>1
  <2>5. QED  BY <2>1, <2>2, <2>3, <2>4 DEF IsFine, FirstLinesBefore
<1>4. QED  BY <1>2, <1>3

\* A bijection on 1 .. n is extended to n + 1.
LEMMA BijectionGrows ==
  ASSUME NEW n \in Nat, NEW S, NEW f \in Bijection(1 .. n, S), NEW x, x \notin S
  PROVE  [i \in 1 .. n + 1 |-> IF i = n + 1 THEN x ELSE f[i]] \in Bijection(1 .. n + 1, S \cup {x})
<1> DEFINE g == [i \in 1 .. n + 1 |-> IF i = n + 1 THEN x ELSE f[i]]
<1>1. /\ \A i \in 1 .. n : f[i] \in S
      /\ \A i, j \in 1 .. n : f[i] = f[j] => i = j
      /\ \A y \in S : \E i \in 1 .. n : f[i] = y
  BY Fun_BijectionProperties
<1>2. \A i \in 1 .. n + 1 : i = n + 1 \/ (i \in 1 .. n /\ i # n + 1)
  OBVIOUS
<1>3. /\ g[n + 1] = x /\ n + 1 \in 1 .. n + 1
      /\ \A i \in 1 .. n : g[i] = f[i] /\ i \in 1 .. n + 1
  OBVIOUS
<1>4. DOMAIN g = 1 .. n + 1 /\ g \in [1 .. n + 1 -> S \cup {x}]
  BY <1>1, <1>2
<1> HIDE DEF g
<1>5. ASSUME NEW i \in 1 .. n + 1, NEW j \in 1 .. n + 1, g[i] = g[j]
      PROVE  i = j
  BY <1>1, <1>2, <1>3, <1>5
<1>6. \A y \in S \cup {x} : \E i \in 1 .. n + 1 : g[i] = y
  BY <1>1, <1>3
<1>7. g \in Injection(1 .. n + 1, S \cup {x}) /\ g \in Surjection(1 .. n + 1, S \cup {x})
  BY <1>4, <1>5, <1>6 DEF Injection, Surjection, IsInjective
<1>8. QED  BY <1>7 DEF Bijection, g

\* What the decoder reads is the next entry of the log,
LEMMA ReadsOn ==
  ASSUME NEW lines, IsLog(lines), NEW entries, NEW pos, Upto(lines, entries, pos),
         ReadLogEntry(lines, pos).kind = "entry"
  PROVE  Upto(lines, Append(entries, ReadLogEntry(lines, pos).entry), ReadLogEntry(lines, pos).next)
<1> DEFINE start == Start(lines, pos)
           stop == Stop(lines, start)
           n == Len(entries)
           entry == ReadLogEntry(lines, pos).entry
           of == {j \in start .. Len(lines) : \A k \in start + 1 .. j : ~Begins(lines, k)}
<1>1. Len(lines) \in Nat /\ DOMAIN lines = 1 .. Len(lines) /\ pos \in 1 .. Len(lines) + 1
  BY LogLength DEF Upto
<1>2. /\ start \in 1 .. Len(lines)
      /\ lines[start].kind \in {"entry", "more"}
      /\ stop \in start + 1 .. Len(lines) + 1
      /\ \A i \in start + 1 .. stop - 1 : lines[i].kind = "more"
      /\ stop <= Len(lines) => lines[stop].kind \in {"entry", "odd"}
      /\ ReadLogEntry(lines, pos).next = stop
      /\ entry = [time |-> lines[start].time, level |-> lines[start].level,
                  file |-> lines[start].file, line |-> lines[start].line,
                  words |-> {lines[i].word : i \in start .. stop - 1}]
  BY <1>1, EntryRead
<1> HIDE DEF start, stop, entry
<1>3. /\ Begins(lines, start)
      /\ \A i \in 1 .. start - 1 : IsFine(lines, i)
      /\ FirstLinesBefore(lines, start) = FirstLinesBefore(lines, pos)
  BY <1>2, StartBegins DEF start
<1>4. ASSUME NEW i \in start + 1 .. stop - 1
      PROVE  ~Begins(lines, i) /\ IsFine(lines, i)
  <2>1. lines[i].kind = "more" /\ i # 1 /\ i - 1 \in start .. stop - 1
    BY <1>1, <1>2
  <2>2. lines[i - 1].kind \in {"entry", "more"}
    BY <1>1, <1>2, <2>1
  <2>3. QED  BY <2>1, <2>2 DEF Begins, IsFine
<1>5. stop = Len(lines) + 1 \/ Begins(lines, stop)
  BY <1>1, <1>2 DEF Begins
<1>6. \A i \in 1 .. stop - 1 : IsFine(lines, i)
  <2>1. \A i \in 1 .. stop - 1 : i \in 1 .. start - 1 \/ i = start \/ i \in start + 1 .. stop - 1
    BY <1>1, <1>2
  <2>2. IsFine(lines, start)
    BY <1>2 DEF IsFine
  <2>3. QED  BY <1>3, <1>4, <2>1, <2>2
<1>7. FirstLinesBefore(lines, stop) = FirstLinesBefore(lines, pos) \cup {start}
  <2>1. ASSUME NEW i \in FirstLines(lines)
        PROVE  i < stop <=> i < start \/ i = start
    <3>1. i \in 1 .. Len(lines) /\ Begins(lines, i)
      BY <1>1 DEF FirstLines
    <3>2. ~ (i \in start + 1 .. stop - 1)
      BY <1>4, <3>1
    <3>3. QED  BY <1>1, <1>2, <3>1, <3>2
  <2>2. start \in FirstLines(lines)
    BY <1>1, <1>2, <1>3 DEF FirstLines
  <2>3. FirstLinesBefore(lines, stop) = FirstLinesBefore(lines, start) \cup {start}
    BY <2>1, <2>2 DEF FirstLinesBefore
  <2>4. QED  BY <1>3, <2>3
<1>8. start \notin FirstLinesBefore(lines, pos)
  <2>1. ~ (start < start)
    BY <1>2
  <2>2. QED  BY <1>3, <2>1 DEF FirstLinesBefore
<1>9. of = start .. stop - 1
  <2>1. ASSUME NEW j \in start .. Len(lines)
        PROVE  (\A k \in start + 1 .. j : ~Begins(lines, k)) <=> j \in start .. stop - 1
    <3>1. CASE j \in start .. stop - 1
      <4>1. \A k \in start + 1 .. j : k \in start + 1 .. stop - 1
        BY <1>1, <1>2, <3>1
      <4>2. QED  BY <1>4, <3>1, <4>1
    <3>2. CASE j \notin start .. stop - 1
      <4>1. stop <= Len(lines) /\ stop \in start + 1 .. j
        BY <1>1, <1>2, <3>2
      <4>2. stop # Len(lines) + 1
        BY <1>1, <1>2, <4>1
      <4>3. Begins(lines, stop)
        BY <1>5, <4>2
      <4>4. QED  BY <3>2, <4>1, <4>3
    <3>3. QED  BY <3>1, <3>2
  <2>2. \A j \in start .. stop - 1 : j \in start .. Len(lines)
    BY <1>1, <1>2
  <2>3. QED  BY <2>1, <2>2
<1>10. entry = EntryAt(lines, start)
  <2>1. EntryAt(lines, start) = [time |-> lines[start].time, level |-> lines[start].level,
                                file |-> lines[start].file, line |-> lines[start].line,
                                words |-> {lines[j].word : j \in of}]
    BY DEF EntryAt
  <2> HIDE DEF of
  <2>2. QED  BY <1>2, <1>9, <2>1
<1>11. PICK order \in Bijection(1 .. n, FirstLinesBefore(lines, pos)) :
         \A i \in 1 .. n : entries[i] = EntryAt(lines, order[i])
  BY DEF Upto
<1>12. n \in Nat /\ entries \in Seq(ToSet(entries))
  BY DEF Upto
<1> DEFINE more == Append(entries, entry)
           further == [i \in 1 .. n + 1 |-> IF i = n + 1 THEN start ELSE order[i]]
<1>13. /\ more \in Seq(ToSet(entries) \cup {entry}) /\ Len(more) = n + 1
       /\ more[n + 1] = entry /\ \A i \in 1 .. n : more[i] = entries[i]
  BY <1>12
<1>14. more \in Seq(ToSet(more))
  BY <1>13 DEF ToSet
<1>15. further \in Bijection(1 .. n + 1, FirstLinesBefore(lines, stop))
  <2> HIDE DEF n
  <2>1. QED  BY <1>7, <1>8, <1>11, <1>12, BijectionGrows
<1>16. ASSUME NEW i \in 1 .. n + 1
       PROVE  more[i] = EntryAt(lines, further[i])
  <2> HIDE DEF more, n
  <2>1. CASE i = n + 1
    BY <1>10, <1>13, <2>1
  <2>2. CASE i # n + 1
    <3>1. i \in 1 .. n
      BY <1>12, <2>2
    <3>2. QED  BY <1>11, <1>13, <2>2, <3>1
  <2>3. QED  BY <2>1, <2>2
<1>17. Upto(lines, more, stop)
  <2> HIDE DEF more, further
  <2>1. stop \in 1 .. Len(lines) + 1
    BY <1>1, <1>2
  <2>2. QED  BY <1>5, <1>6, <1>13, <1>14, <1>15, <1>16, <2>1 DEF Upto
<1>18. QED  BY <1>2, <1>17 DEF entry

\* and at the end it has read all of them.
LEMMA ReadsOut ==
  ASSUME NEW lines, IsLog(lines), NEW entries, NEW pos, Upto(lines, entries, pos),
         ReadLogEntry(lines, pos).kind = "eof"
  PROVE  WellFormed(lines) /\ FirstLinesBefore(lines, pos) = FirstLines(lines)
<1>1. Len(lines) \in Nat /\ DOMAIN lines = 1 .. Len(lines) /\ pos \in 1 .. Len(lines) + 1
  BY LogLength DEF Upto
<1>2. Start(lines, pos) > Len(lines)
  BY <1>1, EntryRead
<1>3. CASE Start(lines, pos) = pos
  <2>1. pos = Len(lines) + 1 /\ pos - 1 = Len(lines) /\ \A i \in DOMAIN lines : i < pos
    BY <1>1, <1>2, <1>3
  <2>2. \A i \in 1 .. Len(lines) : IsFine(lines, i)
    BY <2>1 DEF Upto
  <2>3. QED  BY <1>1, <2>1, <2>2 DEF FirstLinesBefore, FirstLines, WellFormed, IsFine
<1>4. CASE Start(lines, pos) # pos
  <2>1. pos = 1 /\ lines # <<>> /\ ~Readable(lines, 1) /\ Start(lines, pos) = 2
    BY <1>4 DEF Start
  <2>2. Len(lines) = 1
    BY <1>1, <1>2, <2>1 DEF IsLog
  <2>3. lines[1].kind = "junk" /\ \A i \in DOMAIN lines : i = 1
    BY <1>1, <2>1, <2>2 DEF Readable
  <2>4. FirstLines(lines) = {}
    BY <2>3 DEF FirstLines, Begins
  <2>5. QED  BY <2>3, <2>4 DEF FirstLinesBefore, WellFormed
<1>5. QED  BY <1>3, <1>4

\* What NewLogTrace() makes of all the entries is the whole log.
LEMMA SortedIsWhole ==
  ASSUME NEW name \in DOMAIN Collections, IsLog(Collections[name]),
         NEW entries, NEW pos, Upto(Collections[name], entries, pos),
         ReadLogEntry(Collections[name], pos).kind = "eof",
         entries # <<>>, NEW log \in LogTraces(entries)
  PROVE  Whole(name, log)
<1> DEFINE lines == Collections[name]
           n == Len(entries)
<1>1. WellFormed(lines) /\ FirstLinesBefore(lines, pos) = FirstLines(lines)
  BY ReadsOut
<1>2. n \in Nat /\ DOMAIN entries = 1 .. n
  BY DEF Upto
<1>3. PICK found \in Bijection(1 .. n, FirstLines(lines)) :
        \A i \in 1 .. n : entries[i] = EntryAt(lines, found[i])
  BY <1>1 DEF Upto
<1>4. PICK order \in Injection(DOMAIN entries, DOMAIN entries) : log = [i \in DOMAIN entries |-> entries[order[i]]]
  BY DEF LogTraces
<1>5. order \in Bijection(1 .. n, 1 .. n)
  <2>1. IsFiniteSet(1 .. n) /\ Cardinality(1 .. n) = n
    BY <1>2, FS_Interval
  <2>2. order \in Injection(1 .. n, 1 .. n)
    BY <1>2, <1>4
  <2>3. order \in Surjection(1 .. n, 1 .. n)
    <3> DEFINE D == 1 .. n
    <3>1. IsFiniteSet(D) /\ Cardinality(D) = Cardinality(D) /\ order \in Injection(D, D)
      BY <2>1, <2>2
    <3> HIDE DEF D
    <3>2. order \in Surjection(D, D)
      BY <3>1, FS_Injection, Zenon
    <3>3. QED  BY <3>2 DEF D
  <2>4. QED  BY <2>2, <2>3 DEF Bijection
<1> DEFINE whence == [i \in 1 .. n |-> found[order[i]]]
<1>6. whence \in Bijection(1 .. n, FirstLines(lines))
  BY <1>3, <1>5, Fun_BijTransitive
<1>7. DOMAIN log = 1 .. n /\ \A i \in 1 .. n : log[i] = EntryAt(lines, whence[i])
  <2>1. order \in [1 .. n -> 1 .. n]
    <3> HIDE DEF n
    <3>1. QED  BY <1>5, Fun_BijectionProperties
  <2>2. QED  BY <1>2, <1>3, <1>4, <2>1
<1>8. TimeOrdered(log)
  BY DEF LogTraces
<1>9. QED
  <2>1. log # <<>>
    BY <1>2, <1>7 DEF Upto
  <2>2. log \in Seq(ToSet(log))
    <3>1. n \in Nat /\ DOMAIN log = 1 .. n /\ log = [i \in 1 .. n |-> log[i]]
      BY <1>2, <1>4
    <3> HIDE DEF n
    <3>2. log \in [1 .. n -> ToSet(log)]
      BY <3>1 DEF ToSet
    <3>3. QED  BY <3>1, <3>2
  <2> HIDE DEF whence, n
  <2>3. QED  BY <1>1, <1>6, <1>7, <1>8, <2>1, <2>2 DEF Whole

-----------------------------------------------------------------------------
(* The caches *)

IsList(items) == items \in Seq(ToSet(items))
AllWhole(items) == \A item \in ToSet(items) : Whole(item.name, item.log)

\* What the handler of a request has received, and where the reader is.
ReadSoFar(id) ==
  LET lines == Collections[NameOf(id)]
  IN  /\ NameOf(id) \in DOMAIN Collections
      /\ \E pos : /\ Upto(lines, read[id], pos)
                  /\ \/ reader[id] = Reading(pos)
                     \/ reader[id] = Sending(ReadLogEntry(lines, pos))
                     \/ reader[id] = Closed /\ ReadLogEntry(lines, pos).kind = "eof"

\* A handler that goes on with a log trace has a whole one.
HasLog(id) == pc[id] \in {"inner add", "outer add", "answer"} => Whole(NameOf(id), trace[id])
Receiving(id) == pc[id] = "build" => ReadSoFar(id)

CacheInv ==
  /\ pc \in [Ids -> Places]
  /\ asked = [id \in Ids |-> asked[id]] /\ trace = [id \in Ids |-> trace[id]]
  /\ read = [id \in Ids |-> read[id]] /\ reader = [id \in Ids |-> reader[id]]
  /\ cache = [c \in Caches |-> cache[c]]
  /\ \A c \in Caches : IsList(cache[c]) /\ AllWhole(cache[c])
  /\ \A id \in Ids : HasLog(id) /\ Receiving(id)

LEMMA LogsAreLogs ==
  ASSUME NEW name \in DOMAIN Collections
  PROVE  IsLog(Collections[name])
BY CollectionsAssumption DEF IsLog, ToSet

LEMMA ToSetFinite ==
  ASSUME NEW items, IsList(items)
  PROVE  IsFiniteSet(ToSet(items))
<1>1. Len(items) \in Nat /\ DOMAIN items = 1 .. Len(items)
  BY DEF IsList
<1>2. IsFiniteSet(1 .. Len(items))
  BY <1>1, FS_Interval
<1>3. items \in Surjection(1 .. Len(items), ToSet(items))
  BY <1>1 DEF Surjection, ToSet, IsList
<1> DEFINE D == 1 .. Len(items)
           S == ToSet(items)
<1> HIDE DEF D, S
<1>4. IsFiniteSet(D) /\ items \in Surjection(D, S)
  BY <1>2, <1>3 DEF D, S
<1>5. IsFiniteSet(S)
  BY <1>4, FS_Surjection, Zenon
<1>6. QED  BY <1>5 DEF S

LEMMA ListOf ==
  ASSUME NEW S, NEW items \in Seq(S)
  PROVE  IsList(items)
BY DEF IsList, ToSet

\* What a race leaves is a list of what was there.
LEMMA GarbledLists ==
  ASSUME NEW items, IsFiniteSet(items), NEW left \in Garbled(items)
  PROVE  IsList(left) /\ ToSet(left) \subseteq items
<1>1. PICK some \in SUBSET items : left \in SetToSeqs(some)
  BY DEF Garbled
<1>2. IsFiniteSet(some)
  BY FS_Subset
<1>3. Cardinality(some) \in Nat
  BY <1>2, FS_CardinalityType
<1>4. left \in [1 .. Cardinality(some) -> some]
  BY <1>1 DEF SetToSeqs
<1>5. left \in Seq(some)
  BY <1>3, <1>4
<1>6. QED  BY <1>4, <1>5, ListOf DEF ToSet

\* An item put before some of those of a list.
LEMMA PutBefore ==
  ASSUME NEW item, NEW items, IsList(items), NEW k \in Nat, k <= Len(items)
  PROVE  /\ IsList(<<item>> \o SubSeq(items, 1, k))
         /\ ToSet(<<item>> \o SubSeq(items, 1, k)) \subseteq {item} \cup ToSet(items)
<1> DEFINE S == {item} \cup ToSet(items)
<1>1. items \in Seq(S)
  BY DEF IsList
<1> HIDE DEF S
<1>2. SubSeq(items, 1, k) \in Seq(S)
  BY <1>1
<1>3. <<item>> \in Seq(S)
  BY DEF S
<1>4. <<item>> \o SubSeq(items, 1, k) \in Seq(S)
  BY <1>2, <1>3
<1> DEFINE new == <<item>> \o SubSeq(items, 1, k)
<1> HIDE DEF new
<1>5. new \in Seq(S)
  BY <1>4 DEF new
<1>6. IsList(new) /\ ToSet(new) \subseteq S
  BY <1>5, ListOf DEF ToSet
<1>7. QED  BY <1>6 DEF new, S

LEMMA PutInPlaceOf ==
  ASSUME NEW item, NEW items, IsList(items), NEW i \in DOMAIN items
  PROVE  /\ IsList(<<item>> \o RemoveAt(items, i))
         /\ ToSet(<<item>> \o RemoveAt(items, i)) \subseteq {item} \cup ToSet(items)
<1> DEFINE S == {item} \cup ToSet(items)
<1>1. items \in Seq(S) /\ i \in 1 .. Len(items) /\ Len(items) \in Nat
  BY DEF IsList
<1> HIDE DEF S
<1>2. SubSeq(items, 1, i - 1) \in Seq(S) /\ SubSeq(items, i + 1, Len(items)) \in Seq(S)
  BY <1>1
<1>3. RemoveAt(items, i) \in Seq(S)
  BY <1>2 DEF RemoveAt
<1>4. <<item>> \in Seq(S)
  BY DEF S
<1>5. <<item>> \o RemoveAt(items, i) \in Seq(S)
  BY <1>3, <1>4
<1> DEFINE new == <<item>> \o RemoveAt(items, i)
<1> HIDE DEF new
<1>6. new \in Seq(S)
  BY <1>5 DEF new
<1>7. IsList(new) /\ ToSet(new) \subseteq S
  BY <1>6, ListOf DEF ToSet
<1>8. QED  BY <1>7 DEF new, S

LEMMA ListLength ==
  ASSUME NEW items, IsList(items)
  PROVE  Len(items) \in Nat
BY DEF IsList

LEMMA RoomLeft ==
  ASSUME NEW n \in Nat
  PROVE  Smaller(Capacity - 1, n) \in Nat /\ Smaller(Capacity - 1, n) <= n
BY CapacityAssumption DEF Smaller

LEMMA ReadingStays ==
  ASSUME NEW id \in Ids, asked'[id] = asked[id], read'[id] = read[id], reader'[id] = reader[id]
  PROVE  ReadSoFar(id)' = ReadSoFar(id)
<1>1. NameOf(id)' = NameOf(id)
  BY DEF NameOf
<1>2. QED  BY <1>1 DEF ReadSoFar

\* A handler that moves on, and what it needs to go on with.
LEMMA PlaceKeeps ==
  ASSUME CacheInv, NEW id \in Ids, NEW place \in Places \ {"build"}, pc' = [pc EXCEPT ![id] = place],
         UNCHANGED <<asked, cache, read, reader, trace>>,
         place \in {"inner add", "outer add", "answer"} => Whole(NameOf(id), trace[id])
  PROVE  CacheInv'
<1>1. pc' \in [Ids -> Places] /\ pc'[id] = place /\ \A j \in Ids \ {id} : pc'[j] = pc[j]
  BY DEF CacheInv
<1>2. \A j \in Ids : NameOf(j)' = NameOf(j)
  BY DEF NameOf
<1>3. \A j \in Ids : HasLog(j)'
  BY <1>1, <1>2 DEF CacheInv, HasLog
<1>4. \A j \in Ids : Receiving(j)'
  BY <1>1, ReadingStays DEF CacheInv, Receiving
<1>5. QED  BY <1>1, <1>3, <1>4 DEF CacheInv

\* Whatever else happens to a process.
LEMMA StillnessKeeps ==
  ASSUME CacheInv, UNCHANGED <<pc, asked, cache, read, reader, trace>>
  PROVE  CacheInv'
BY DEF CacheInv, HasLog, Receiving, ReadSoFar, NameOf

\* Only whole logs come into a cache, and a race leaves some of them.
LEMMA LeaveKeeps ==
  ASSUME CacheInv, NEW id \in Ids, NEW after, IsList(after), AllWhole(after), Leave(id, after)
  PROVE  cache' = [c \in Caches |-> cache'[c]] /\ \A c \in Caches : IsList(cache'[c]) /\ AllWhole(cache'[c])
<1> DEFINE c == CacheUsed(pc[id])
<1>1. c \in Caches
  BY DEF CacheUsed, Caches
<1>2. IsList(cache[c]) /\ AllWhole(cache[c])
  BY <1>1 DEF CacheInv
<1> HIDE DEF c
<1>3. PICK left : cache' = [cache EXCEPT ![c] = left] /\ IsList(left) /\ AllWhole(left)
  <2>1. CASE cache' = [cache EXCEPT ![c] = after]
    BY <2>1
  <2>2. ASSUME NEW left \in Garbled(ToSet(cache[c]) \cup ToSet(after)), cache' = [cache EXCEPT ![c] = left]
        PROVE  IsList(left) /\ AllWhole(left)
    <3>1. IsFiniteSet(ToSet(cache[c])) /\ IsFiniteSet(ToSet(after))
      BY <1>2, ToSetFinite
    <3>2. IsFiniteSet(ToSet(cache[c]) \cup ToSet(after))
      BY <3>1, FS_Union
    <3>3. IsList(left) /\ ToSet(left) \subseteq ToSet(cache[c]) \cup ToSet(after)
      BY <3>2, GarbledLists
    <3>4. QED  BY <1>2, <3>3 DEF AllWhole
  <2>3. QED  BY <2>1, <2>2 DEF Leave, c
<1>4. cache' = [d \in Caches |-> cache'[d]] /\ cache'[c] = left /\ \A d \in Caches \ {c} : cache'[d] = cache[d]
  BY <1>1, <1>3 DEF CacheInv
<1>5. QED  BY <1>3, <1>4 DEF CacheInv

\* LRU.Get() finds a whole log, and a miss changes nothing.
LEMMA GetKeeps ==
  ASSUME CacheInv, NEW id \in Ids, NEW found \in Places \ {"build"}, NEW missed \in {"inner get", "open"},
         Get(id, found, missed)
  PROVE  CacheInv'
<1> DEFINE c == CacheUsed(pc[id])
           name == NameOf(id)
<1>1. c \in Caches
  BY DEF CacheUsed, Caches
<1>2. IsList(cache[c]) /\ AllWhole(cache[c])
  BY <1>1 DEF CacheInv
<1>3. CASE Held(c, name) = {} /\ Goto(id, missed) /\ UNCHANGED <<cache, trace>>
  <2>1. pc' = [pc EXCEPT ![id] = missed] /\ UNCHANGED <<asked, cache, read, reader, trace>>
    BY <1>3 DEF Get, Goto
  <2>2. QED  BY <2>1, PlaceKeeps DEF Places
<1>4. ASSUME NEW i \in Held(c, name), trace' = [trace EXCEPT ![id] = cache[c][i].log],
             Leave(id, <<cache[c][i]>> \o Without(c, i)), Goto(id, found)
      PROVE  CacheInv'
  <2> DEFINE item == cache[c][i]
             after == <<item>> \o Without(c, i)
  <2>1. i \in DOMAIN cache[c] /\ item.name = name /\ item \in ToSet(cache[c])
    BY DEF Held, ToSet
  <2>2. Whole(name, item.log)
    BY <1>2, <2>1 DEF AllWhole
  <2>3. IsList(after) /\ ToSet(after) \subseteq {item} \cup ToSet(cache[c])
    <3> DEFINE items == cache[c]
    <3>1. IsList(items) /\ i \in DOMAIN items
      BY <1>2, <2>1
    <3> HIDE DEF items, item
    <3>2. /\ IsList(<<item>> \o RemoveAt(items, i))
          /\ ToSet(<<item>> \o RemoveAt(items, i)) \subseteq {item} \cup ToSet(items)
      BY <3>1, PutInPlaceOf
    <3>3. QED  BY <3>2 DEF Without, items
  <2>4. AllWhole(after)
    BY <1>2, <2>1, <2>3 DEF AllWhole
  <2>5. cache' = [d \in Caches |-> cache'[d]] /\ \A d \in Caches : IsList(cache'[d]) /\ AllWhole(cache'[d])
    <3> HIDE DEF after
    <3>1. Leave(id, after)
      BY <1>4 DEF after
    <3>2. QED  BY <2>3, <2>4, <3>1, LeaveKeeps
  <2>6. pc' = [pc EXCEPT ![id] = found] /\ UNCHANGED <<asked, read, reader>>
    BY <1>4 DEF Get, Goto
  <2>7. trace' = [j \in Ids |-> trace'[j]] /\ trace'[id] = item.log /\ \A j \in Ids \ {id} : trace'[j] = trace[j]
    BY <1>4 DEF CacheInv
  <2>8. pc' \in [Ids -> Places] /\ pc'[id] = found /\ \A j \in Ids \ {id} : pc'[j] = pc[j]
    BY <2>6 DEF CacheInv
  <2>9. \A j \in Ids : NameOf(j)' = NameOf(j)
    BY <2>6 DEF NameOf
  <2> HIDE DEF item, c
  <2>10. \A j \in Ids : HasLog(j)'
    BY <2>2, <2>7, <2>8, <2>9 DEF CacheInv, HasLog
  <2>11. \A j \in Ids : Receiving(j)'
    BY <2>6, <2>8, ReadingStays DEF CacheInv, Receiving
  <2>12. QED  BY <2>5, <2>6, <2>7, <2>8, <2>10, <2>11 DEF CacheInv
<1>5. QED  BY <1>3, <1>4 DEF Get

\* LRU.Add() is of a whole log.
LEMMA AddKeeps ==
  ASSUME CacheInv, NEW id \in Ids, pc[id] \in {"inner add", "outer add"},
         NEW next \in {"outer add", "answer"}, Add(id, next)
  PROVE  CacheInv'
<1> DEFINE c == CacheUsed(pc[id])
           name == NameOf(id)
           item == [name |-> name, log |-> trace[id]]
<1>1. c \in Caches
  BY DEF CacheUsed, Caches
<1>2. IsList(cache[c]) /\ AllWhole(cache[c])
  BY <1>1 DEF CacheInv
<1>3. Whole(item.name, item.log) /\ Whole(name, trace[id])
  BY DEF CacheInv, HasLog
<1>4. PICK after : IsList(after) /\ ToSet(after) \subseteq {item} \cup ToSet(cache[c]) /\ Leave(id, after)
  <2> DEFINE items == cache[c]
  <2>1. ASSUME NEW i \in Held(c, name)
        PROVE  /\ IsList(<<item>> \o Without(c, i))
               /\ ToSet(<<item>> \o Without(c, i)) \subseteq {item} \cup ToSet(items)
    <3>1. IsList(items) /\ i \in DOMAIN items
      BY <1>2 DEF Held
    <3>2. Without(c, i) = RemoveAt(items, i)
      BY DEF Without
    <3> HIDE DEF items, item
    <3>3. QED  BY <3>1, <3>2, PutInPlaceOf
  <2> DEFINE k == Smaller(Capacity - 1, Len(items))
  <2>2. IsList(<<item>> \o SubSeq(items, 1, k)) /\ ToSet(<<item>> \o SubSeq(items, 1, k)) \subseteq {item} \cup ToSet(items)
    <3> HIDE DEF items, item
    <3>1. IsList(items)
      BY <1>2 DEF items
    <3>2. k \in Nat /\ k <= Len(items)
      BY <3>1, ListLength, RoomLeft
    <3> HIDE DEF k
    <3>3. QED  BY <3>1, <3>2, PutBefore
  <2>3. \/ \E i \in Held(c, name) : Leave(id, <<item>> \o Without(c, i))
        \/ Leave(id, <<item>> \o SubSeq(items, 1, k))
    BY DEF Add
  <2> HIDE DEF item, items, k, c, name
  <2>4. QED  BY <2>1, <2>2, <2>3 DEF items
<1> HIDE DEF item, c
<1>5. AllWhole(after)
  BY <1>2, <1>3, <1>4 DEF AllWhole
<1>6. cache' = [d \in Caches |-> cache'[d]] /\ \A d \in Caches : IsList(cache'[d]) /\ AllWhole(cache'[d])
  BY <1>4, <1>5, LeaveKeeps
<1>7. pc' = [pc EXCEPT ![id] = next] /\ UNCHANGED <<asked, read, reader, trace>>
  BY DEF Add, Goto
<1>8. pc' \in [Ids -> Places] /\ pc'[id] = next /\ \A j \in Ids \ {id} : pc'[j] = pc[j]
  BY <1>7 DEF CacheInv, Places
<1>9. \A j \in Ids : NameOf(j)' = NameOf(j)
  BY <1>7 DEF NameOf
<1>10. \A j \in Ids : HasLog(j)'
  BY <1>3, <1>7, <1>8, <1>9 DEF CacheInv, HasLog
<1>11. \A j \in Ids : Receiving(j)'
  BY <1>7, <1>8, ReadingStays DEF CacheInv, Receiving
<1>12. QED  BY <1>6, <1>7, <1>8, <1>10, <1>11 DEF CacheInv

(***************************************************************************)
(* A step of one request, after which its handler has what it needs.       *)
(***************************************************************************)
LEMMA OneKeeps ==
  ASSUME CacheInv, NEW id \in Ids, NEW place \in Places, pc' = [pc EXCEPT ![id] = place],
         asked' = [asked EXCEPT ![id] = asked'[id]], trace' = [trace EXCEPT ![id] = trace'[id]],
         read' = [read EXCEPT ![id] = read'[id]], reader' = [reader EXCEPT ![id] = reader'[id]],
         UNCHANGED cache, HasLog(id)', Receiving(id)'
  PROVE  CacheInv'
<1>1. pc' \in [Ids -> Places] /\ \A j \in Ids \ {id} : pc'[j] = pc[j]
  BY DEF CacheInv
<1>2. /\ asked' = [j \in Ids |-> asked'[j]] /\ \A j \in Ids \ {id} : asked'[j] = asked[j]
      /\ trace' = [j \in Ids |-> trace'[j]] /\ \A j \in Ids \ {id} : trace'[j] = trace[j]
  BY DEF CacheInv
<1>3. /\ read' = [j \in Ids |-> read'[j]] /\ \A j \in Ids \ {id} : read'[j] = read[j]
      /\ reader' = [j \in Ids |-> reader'[j]] /\ \A j \in Ids \ {id} : reader'[j] = reader[j]
  BY DEF CacheInv
<1>4. \A j \in Ids \ {id} : NameOf(j)' = NameOf(j)
  BY <1>2 DEF NameOf
<1>5. ASSUME NEW j \in Ids \ {id}
      PROVE  HasLog(j)'
  <2>1. pc'[j] = pc[j] /\ trace'[j] = trace[j] /\ NameOf(j)' = NameOf(j)
    BY <1>1, <1>2, <1>4
  <2>2. HasLog(j)
    BY DEF CacheInv
  <2>3. QED  BY <2>1, <2>2 DEF HasLog
<1>6. \A j \in Ids \ {id} : Receiving(j)'
  BY <1>1, <1>2, <1>3, ReadingStays DEF CacheInv, Receiving
<1>7. \A j \in Ids : HasLog(j)' /\ Receiving(j)'
  BY <1>5, <1>6
<1>8. QED  BY <1>1, <1>2, <1>3, <1>7 DEF CacheInv

\* A reader begins with the first line.
LEMMA NothingYet ==
  ASSUME NEW lines, IsLog(lines)
  PROVE  Upto(lines, <<>>, 1)
<1>1. 1 \in 1 .. Len(lines) + 1
  BY LogLength
<1>2. FirstLinesBefore(lines, 1) = {}
  <2>1. \A i \in FirstLines(lines) : ~ (i < 1)
    BY LogLength DEF FirstLines
  <2>2. QED  BY <2>1 DEF FirstLinesBefore
<1> DEFINE none == << >>
<1>3. none \in Seq(ToSet(none)) /\ Len(none) = 0
  OBVIOUS
<1>4. none \in Bijection(1 .. Len(none), FirstLinesBefore(lines, 1))
  BY <1>2, <1>3 DEF Bijection, Injection, Surjection, IsInjective
<1> HIDE DEF none
<1>5. /\ \A i \in 1 .. 1 - 1 : IsFine(lines, i)
      /\ \A i \in 1 .. Len(none) : none[i] = EntryAt(lines, none[i])
  BY <1>3
<1>6. \E order \in Bijection(1 .. Len(none), FirstLinesBefore(lines, 1)) :
        \A i \in 1 .. Len(none) : none[i] = EntryAt(lines, order[i])
  BY <1>4, <1>5
<1>7. Upto(lines, none, 1)
  BY <1>1, <1>3, <1>5, <1>6 DEF Upto
<1>8. QED  BY <1>7 DEF none

LEMMA OpensFresh ==
  ASSUME CacheInv, NEW id \in Ids, Open(id)
  PROVE  CacheInv'
<1>1. CASE NameOf(id) \notin DOMAIN Collections
  <2>1. pc' = [pc EXCEPT ![id] = "replied"] /\ UNCHANGED <<asked, cache, read, reader, trace>>
    BY <1>1 DEF Open, Return
  <2>2. QED  BY <2>1, PlaceKeeps DEF Places
<1>2. CASE NameOf(id) \in DOMAIN Collections
  <2>1. /\ pc' = [pc EXCEPT ![id] = "build"]
        /\ read' = [read EXCEPT ![id] = <<>>] /\ reader' = [reader EXCEPT ![id] = Reading(1)]
        /\ UNCHANGED <<asked, cache, trace>>
    BY <1>2 DEF Open, Goto
  <2>2. pc'[id] = "build" /\ read'[id] = <<>> /\ reader'[id] = Reading(1) /\ NameOf(id)' = NameOf(id)
    BY <2>1 DEF CacheInv, NameOf
  <2>3. Upto(Collections[NameOf(id)], <<>>, 1)
    BY <1>2, LogsAreLogs, NothingYet
  <2>4. ReadSoFar(id)'
    BY <1>2, <2>2, <2>3 DEF ReadSoFar
  <2>5. HasLog(id)' /\ Receiving(id)'
    BY <2>2, <2>4 DEF HasLog, Receiving
  <2>6. QED
    <3>1. /\ asked' = [asked EXCEPT ![id] = asked'[id]] /\ trace' = [trace EXCEPT ![id] = trace'[id]]
          /\ read' = [read EXCEPT ![id] = read'[id]] /\ reader' = [reader EXCEPT ![id] = reader'[id]]
      BY <2>1, <2>2 DEF CacheInv
    <3>2. "build" \in Places
      BY DEF Places
    <3>3. QED  BY <2>1, <2>5, <3>1, <3>2, OneKeeps
<1>3. QED  BY <1>1, <1>2

\* The reader hands over what it has read of the file next, or is done with it.
LEMMA ReadsNext ==
  ASSUME CacheInv, NEW id \in Ids, Read(id)
  PROVE  CacheInv'
<1> DEFINE lines == Collections[NameOf(id)]
<1>1. UNCHANGED <<pc, asked, cache, read, trace>> /\ reader[id].at = "reading"
  BY DEF Read
<1>2. reader' = [reader EXCEPT ![id] = reader'[id]]
  BY DEF Read, CacheInv
<1>3. NameOf(id)' = NameOf(id)
  BY <1>1 DEF NameOf
<1>4. ASSUME pc[id] = "build"
      PROVE  ReadSoFar(id)'
  <2>1. PICK pos : /\ Upto(lines, read[id], pos)
                   /\ \/ reader[id] = Reading(pos)
                      \/ reader[id] = Sending(ReadLogEntry(lines, pos))
                      \/ reader[id] = Closed /\ ReadLogEntry(lines, pos).kind = "eof"
    BY <1>4 DEF CacheInv, Receiving, ReadSoFar
  <2>2. NameOf(id) \in DOMAIN Collections
    BY <1>4 DEF CacheInv, Receiving, ReadSoFar
  <2> HIDE DEF lines
  <2>3. reader[id].pos = pos
    BY <1>1, <2>1 DEF Reading, Sending, Closed
  <2> DEFINE item == ReadLogEntry(lines, pos)
  <2>4. reader' = [reader EXCEPT ![id] = IF item.kind = "eof" THEN Closed ELSE Sending(item)]
    BY <2>3 DEF Read, lines
  <2> HIDE DEF item
  <2>5. reader'[id] = Sending(item) \/ (reader'[id] = Closed /\ item.kind = "eof")
    BY <2>4 DEF CacheInv
  <2>6. read'[id] = read[id]
    BY <1>1
  <2>7. QED  BY <1>3, <2>1, <2>2, <2>5, <2>6 DEF ReadSoFar, item, lines
<1>5. HasLog(id)' /\ Receiving(id)'
  BY <1>1, <1>3, <1>4 DEF CacheInv, HasLog, Receiving
<1>6. /\ pc' = [pc EXCEPT ![id] = pc[id]] /\ pc[id] \in Places /\ read' = [read EXCEPT ![id] = read'[id]]
      /\ asked' = [asked EXCEPT ![id] = asked'[id]] /\ trace' = [trace EXCEPT ![id] = trace'[id]]
  BY <1>1 DEF CacheInv
<1>7. QED  BY <1>1, <1>2, <1>5, <1>6, OneKeeps

\* The handler has received what the reader has read.
LEMMA ReceivesNext ==
  ASSUME CacheInv, NEW id \in Ids, Receive(id)
  PROVE  CacheInv'
<1> DEFINE lines == Collections[NameOf(id)]
           item == reader[id].item
<1>1. /\ pc[id] = "build" /\ reader[id].at = "sending" /\ NameOf(id)' = NameOf(id)
      /\ UNCHANGED <<asked, cache, trace>>
      /\ asked' = [asked EXCEPT ![id] = asked'[id]] /\ trace' = [trace EXCEPT ![id] = trace'[id]]
  BY DEF Receive, NameOf, CacheInv
<1>2. ASSUME reader' = [reader EXCEPT ![id] = Closed], pc' = [pc EXCEPT ![id] = "replied"], UNCHANGED read
      PROVE  CacheInv'
  <2>1. /\ pc'[id] = "replied" /\ read' = [read EXCEPT ![id] = read'[id]]
        /\ reader' = [reader EXCEPT ![id] = reader'[id]] /\ "replied" \in Places
    BY <1>2 DEF CacheInv, Places
  <2>2. HasLog(id)' /\ Receiving(id)'
    BY <2>1 DEF HasLog, Receiving
  <2>3. QED  BY <1>1, <1>2, <2>1, <2>2, OneKeeps
<1>3. ASSUME item.kind = "entry", reader' = [reader EXCEPT ![id] = Reading(item.next)],
             read' = [read EXCEPT ![id] = Append(@, item.entry)], pc' = [pc EXCEPT ![id] = "build"]
      PROVE  CacheInv'
  <2>1. PICK pos : /\ Upto(lines, read[id], pos)
                   /\ \/ reader[id] = Reading(pos)
                      \/ reader[id] = Sending(ReadLogEntry(lines, pos))
                      \/ reader[id] = Closed /\ ReadLogEntry(lines, pos).kind = "eof"
    BY <1>1 DEF CacheInv, Receiving, ReadSoFar
  <2>2. NameOf(id) \in DOMAIN Collections
    BY <1>1 DEF CacheInv, Receiving, ReadSoFar
  <2> HIDE DEF lines
  <2>3. item = ReadLogEntry(lines, pos)
    BY <1>1, <2>1 DEF Reading, Sending, Closed
  <2>4. IsLog(lines)
    BY <2>2, LogsAreLogs DEF lines
  <2> HIDE DEF item
  <2>5. Upto(lines, Append(read[id], item.entry), item.next)
    BY <1>3, <2>1, <2>3, <2>4, ReadsOn
  <2>6. /\ reader'[id] = Reading(item.next) /\ read'[id] = Append(read[id], item.entry)
        /\ pc'[id] = "build" /\ "build" \in Places
        /\ read' = [read EXCEPT ![id] = read'[id]] /\ reader' = [reader EXCEPT ![id] = reader'[id]]
    BY <1>3 DEF CacheInv, Places
  <2>7. ReadSoFar(id)'
    BY <1>1, <2>2, <2>5, <2>6 DEF ReadSoFar, lines
  <2>8. HasLog(id)' /\ Receiving(id)'
    BY <2>6, <2>7 DEF HasLog, Receiving
  <2>9. QED  BY <1>1, <1>3, <2>6, <2>8, OneKeeps
<1>4. QED  BY <1>2, <1>3 DEF Receive, Return, Goto

\* From the closed channel of a reader that is done the handler has the whole log.
LEMMA BuildsWhole ==
  ASSUME CacheInv, NEW id \in Ids, Build(id)
  PROVE  CacheInv'
<1> DEFINE lines == Collections[NameOf(id)]
<1>1. /\ pc[id] = "build" /\ reader[id].at = "closed" /\ NameOf(id)' = NameOf(id)
      /\ UNCHANGED <<asked, cache, read, reader>>
  BY DEF Build, NameOf
<1>2. ASSUME pc' = [pc EXCEPT ![id] = "replied"], UNCHANGED trace
      PROVE  CacheInv'
  BY <1>1, <1>2, PlaceKeeps DEF Places
<1>3. ASSUME NEW log \in LogTraces(read[id]), read[id] # <<>>, trace' = [trace EXCEPT ![id] = log],
             pc' = [pc EXCEPT ![id] = "inner add"]
      PROVE  CacheInv'
  <2>1. PICK pos : /\ Upto(lines, read[id], pos)
                   /\ \/ reader[id] = Reading(pos)
                      \/ reader[id] = Sending(ReadLogEntry(lines, pos))
                      \/ reader[id] = Closed /\ ReadLogEntry(lines, pos).kind = "eof"
    BY <1>1 DEF CacheInv, Receiving, ReadSoFar
  <2>2. NameOf(id) \in DOMAIN Collections
    BY <1>1 DEF CacheInv, Receiving, ReadSoFar
  <2>3. ReadLogEntry(lines, pos).kind = "eof"
    <3> HIDE DEF lines
    <3>1. QED  BY <1>1, <2>1 DEF Reading, Sending
  <2>4. Whole(NameOf(id), log)
    BY <1>3, <2>1, <2>2, <2>3, LogsAreLogs, SortedIsWhole
  <2>5. /\ trace'[id] = log /\ pc'[id] = "inner add" /\ "inner add" \in Places
        /\ trace' = [trace EXCEPT ![id] = trace'[id]] /\ asked' = [asked EXCEPT ![id] = asked'[id]]
        /\ read' = [read EXCEPT ![id] = read'[id]] /\ reader' = [reader EXCEPT ![id] = reader'[id]]
    BY <1>1, <1>3 DEF CacheInv, Places
  <2>6. HasLog(id)' /\ Receiving(id)'
    BY <1>1, <2>4, <2>5 DEF HasLog, Receiving
  <2>7. QED  BY <1>1, <1>3, <2>5, <2>6, OneKeeps
<1>4. QED  BY <1>2, <1>3 DEF Build, Return, Goto

LEMMA ServesWhole ==
  ASSUME CacheInv, NEW id \in Ids, Serve(id) \/ Read(id)
  PROVE  CacheInv'
<1>1. CASE Accept(id)
  <2>1. PICK place \in {"replied", "outer get"} : pc' = [pc EXCEPT ![id] = place]
    BY <1>1 DEF Accept, Return, Goto
  <2>2. UNCHANGED <<asked, cache, read, reader, trace>>
    BY <1>1 DEF Accept
  <2>3. QED  BY <2>1, <2>2, PlaceKeeps DEF Places
<1>2. CASE Enter(id)
  BY <1>2, StillnessKeeps DEF Enter
<1>3. CASE LookOuter(id)
  BY <1>3, GetKeeps DEF LookOuter, Places
<1>4. CASE LookInner(id)
  BY <1>4, GetKeeps DEF LookInner, Places
<1>5. CASE AddInner(id) \/ AddOuter(id)
  BY <1>5, AddKeeps DEF AddInner, AddOuter
<1>6. CASE Handle(id)
  <2>1. UNCHANGED <<asked, cache, read, reader, trace>>
    BY <1>6 DEF Handle
  <2>2. CASE UNCHANGED pc
    BY <2>1, <2>2, StillnessKeeps
  <2>3. CASE pc' = [pc EXCEPT ![id] = "replied"]
    BY <2>1, <2>3, PlaceKeeps DEF Places
  <2>4. QED  BY <1>6, <2>2, <2>3 DEF Handle, Return
<1>7. CASE Disconnect(id)
  <2>1. pc' = [pc EXCEPT ![id] = "replied"] /\ UNCHANGED <<asked, cache, read, reader, trace>>
    BY <1>7 DEF Disconnect, Return
  <2>2. QED  BY <2>1, PlaceKeeps DEF Places
<1>8. QED
  BY <1>1, <1>2, <1>3, <1>4, <1>5, <1>6, <1>7, OpensFresh, ReadsNext, ReceivesNext, BuildsWhole DEF Serve

\* A new request, and one that is done with, need nothing.
LEMMA PostsNothing ==
  ASSUME CacheInv, NEW id \in Ids, NEW request, Post(id, request)
  PROVE  CacheInv'
<1>1. /\ pc' = [pc EXCEPT ![id] = "sent"] /\ UNCHANGED <<cache, read, reader, trace>>
      /\ "sent" \in Places /\ asked' = [asked EXCEPT ![id] = asked'[id]]
  BY DEF Post, CacheInv, Places
<1>2. /\ pc'[id] = "sent" /\ trace' = [trace EXCEPT ![id] = trace'[id]]
      /\ read' = [read EXCEPT ![id] = read'[id]] /\ reader' = [reader EXCEPT ![id] = reader'[id]]
  BY <1>1 DEF CacheInv
<1>3. HasLog(id)' /\ Receiving(id)'
  BY <1>2 DEF HasLog, Receiving
<1>4. QED  BY <1>1, <1>2, <1>3, OneKeeps

LEMMA ReleasesIt ==
  ASSUME CacheInv, NEW id \in Ids, Release(id)
  PROVE  CacheInv'
<1>1. /\ pc' = [pc EXCEPT ![id] = "free"] /\ UNCHANGED cache
      /\ "free" \in Places
  BY DEF Release, Places
<1>2. /\ pc'[id] = "free" /\ asked' = [asked EXCEPT ![id] = asked'[id]]
      /\ trace' = [trace EXCEPT ![id] = trace'[id]]
      /\ read' = [read EXCEPT ![id] = read'[id]] /\ reader' = [reader EXCEPT ![id] = reader'[id]]
  BY DEF Release, CacheInv
<1>3. HasLog(id)' /\ Receiving(id)'
  BY <1>2 DEF HasLog, Receiving
<1>4. QED  BY <1>1, <1>2, <1>3, OneKeeps

LEMMA NextKeepsWhole ==
  ASSUME CacheInv, [Next]_vars
  PROVE  CacheInv'
<1>1. CASE UserActs \/ Renders \/ Accidents \/ UNCHANGED vars
  <2>1. UNCHANGED <<pc, asked, cache, read, reader, trace>>
    BY <1>1 DEF UserActs, Renders, Accidents, Abort, Interrupt, Exit, vars, serviceVars
  <2>2. QED  BY <2>1, StillnessKeeps
<1>2. ASSUME NEW id \in Ids, SendRequest(id) \/ PostOther(id)
      PROVE  CacheInv'
  BY <1>2, PostsNothing DEF SendRequest, PostOther
<1>3. ASSUME NEW id \in Ids, ServerStep(id)
      PROVE  CacheInv'
  BY <1>3, ServesWhole DEF ServerStep
<1>4. ASSUME NEW id \in Ids, Receives(id)
      PROVE  CacheInv'
  BY <1>4, ReleasesIt DEF Receives, DeliverReply, CollectOther
<1>5. QED  BY <1>1, <1>2, <1>3, <1>4 DEF Next

LEMMA InitiallyEmpty ==
  ASSUME Init
  PROVE  CacheInv
<1>1. /\ pc = [id \in Ids |-> "free"] /\ asked = [id \in Ids |-> NoRequest]
      /\ trace = [id \in Ids |-> <<>>] /\ read = [id \in Ids |-> <<>>]
      /\ reader = [id \in Ids |-> NoReader] /\ cache = [c \in Caches |-> <<>>]
  BY DEF Init, InitService
<1>2. IsList(<<>>) /\ AllWhole(<<>>)
  BY DEF IsList, AllWhole, ToSet
<1>3. \A id \in Ids : HasLog(id) /\ Receiving(id)
  BY <1>1 DEF HasLog, Receiving
<1>4. pc \in [Ids -> Places] /\ \A c \in Caches : cache[c] = <<>>
  BY <1>1 DEF Places
<1>5. QED  BY <1>1, <1>2, <1>3, <1>4 DEF CacheInv

(***************************************************************************)
(* fetchCollection() and Fetch(): however requests and their readers race, *)
(* fail, are dropped or find the caches garbled by a race, what a cache    *)
(* holds is all of a file that reads well, in time order: for any files,   *)
(* requests and capacity.                                                  *)
(***************************************************************************)
THEOREM CachesHoldWholeLogs == Spec => []CachedIsWhole
<1>1. CacheInv => CachedIsWhole
  BY DEF CacheInv, CachedIsWhole, AllWhole, ToSet
<1>2. Init => CacheInv
  BY InitiallyEmpty
<1>3. CacheInv /\ [Next]_vars => CacheInv'
  BY NextKeepsWhole
<1>4. QED  BY <1>1, <1>2, <1>3, PTL DEF Spec

-----------------------------------------------------------------------------
(* Places and their order *)

\* What a bijection is.
LEMMA BijectionIs ==
  ASSUME NEW S, NEW T, NEW f \in Bijection(S, T)
  PROVE  /\ f \in [S -> T]
         /\ \A a, b \in S : f[a] = f[b] => a = b
         /\ \A t \in T : \E s \in S : f[s] = t
BY DEF Bijection, Injection, Surjection, IsInjective

\* As many on both sides of a bijection, and of what it makes of some.
LEMMA AsMany ==
  ASSUME NEW S, NEW T, NEW f \in Bijection(S, T), IsFiniteSet(S) \/ IsFiniteSet(T)
  PROVE  IsFiniteSet(S) /\ IsFiniteSet(T) /\ Cardinality(S) = Cardinality(T)
<1>1. f \in Surjection(S, T) /\ f \in Injection(S, T)
  BY Fun_BijectionProperties
<1>2. IsFiniteSet(S)
  BY <1>1, FS_Injection, Zenon
<1>3. QED  BY <1>1, <1>2, FS_Surjection, Zenon

LEMMA PartsMatch ==
  ASSUME NEW S, NEW T, NEW f \in Bijection(S, T), NEW A \in SUBSET S, NEW B \in SUBSET T,
         \A s \in S : s \in A <=> f[s] \in B
  PROVE  [s \in A |-> f[s]] \in Bijection(A, B)
<1> DEFINE g == [s \in A |-> f[s]]
<1>1. /\ f \in [S -> T] /\ \A a, b \in S : f[a] = f[b] => a = b
      /\ \A t \in T : \E s \in S : f[s] = t
  BY BijectionIs, Zenon
<1>2. g \in [A -> B] /\ \A s \in A : g[s] = f[s]
  BY <1>1
<1>3. \A a, b \in A : g[a] = g[b] => a = b
  BY <1>1, <1>2
<1>4. \A t \in B : \E s \in A : g[s] = t
  BY <1>1, <1>2
<1> HIDE DEF g
<1>5. g \in Bijection(A, B)
  BY <1>2, <1>3, <1>4, Fun_IsBij, Zenon
<1>6. QED  BY <1>5 DEF g

\* There is an order of any places,
LEMMA PlacesHaveOrder ==
  ASSUME NEW S \in SUBSET Nat, IsFiniteSet(S)
  PROVE  InOrder(S) # {}
<1> DEFINE T == {A \in SUBSET S : InOrder(A) # {}}
<1>1. ASSUME NEW A \in SUBSET S, \A B \in SUBSET A : B # A => B \in T
      PROVE  A \in T
  <2>1. IsFiniteSet(A) /\ A \subseteq Nat
    BY FS_Subset
  <2>2. CASE A = {}
    <3>1. Cardinality(A) = 0
      BY <2>2, FS_EmptySet
    <3>2. <<>> \in [1 .. Cardinality(A) -> A] /\ DOMAIN <<>> = {}
      BY <3>1
    <3>3. <<>> \in InOrder(A)
      BY <3>2 DEF InOrder
    <3>4. QED  BY <3>3
  <2>3. CASE A # {}
    <3>1. PICK x \in A : \A y \in A : x <= y
      BY <2>1, <2>3, LeastNatural
    <3> DEFINE B == A \ {x}
               n == Cardinality(B)
    <3>2. B \in SUBSET A /\ B # A
      OBVIOUS
    <3>3. PICK order : order \in InOrder(B)
      BY <1>1, <3>2
    <3>4. IsFiniteSet(B) /\ n \in Nat /\ Cardinality(A) = n + 1
      <4>1. IsFiniteSet(B) /\ Cardinality(B) = Cardinality(A) - 1
        BY <2>1, FS_RemoveElement
      <4>2. n \in Nat /\ Cardinality(A) \in Nat
        BY <2>1, <4>1, FS_CardinalityType
      <4>3. QED  BY <4>1, <4>2
    <3> HIDE DEF n
    <3>5. order \in [1 .. n -> B] /\ \A i, j \in 1 .. n : i < j => order[i] < order[j]
      BY <3>3 DEF InOrder, n
    <3> DEFINE more == [k \in 1 .. n + 1 |-> IF k = 1 THEN x ELSE order[k - 1]]
    <3>6. \A k \in 1 .. n + 1 : k # 1 => k - 1 \in 1 .. n
      BY <3>4
    <3>7. \A k \in 1 .. n + 1 : more[k] = IF k = 1 THEN x ELSE order[k - 1]
      OBVIOUS
    <3>8. more \in [1 .. n + 1 -> A]
      BY <3>5, <3>6
    <3> HIDE DEF more
    <3>9. ASSUME NEW i \in 1 .. n + 1, NEW j \in 1 .. n + 1, i < j
          PROVE  more[i] < more[j]
      <4>1. j # 1 /\ j - 1 \in 1 .. n /\ more[j] = order[j - 1] /\ order[j - 1] \in B
        BY <3>4, <3>5, <3>6, <3>7, <3>9
      <4>2. CASE i = 1
        <5>1. x # order[j - 1] /\ x <= order[j - 1] /\ x \in Nat /\ order[j - 1] \in Nat
          BY <2>1, <3>1, <4>1
        <5>2. QED  BY <3>7, <4>1, <4>2, <5>1
      <4>3. CASE i # 1
        <5>1. i - 1 \in 1 .. n /\ more[i] = order[i - 1] /\ i - 1 < j - 1
          BY <3>4, <3>6, <3>7, <3>9, <4>3
        <5>2. QED  BY <3>5, <4>1, <5>1
      <4>4. QED  BY <4>2, <4>3
    <3>10. more \in InOrder(A)
      BY <3>4, <3>8, <3>9 DEF InOrder
    <3>11. QED  BY <3>10
  <2>4. QED  BY <2>2, <2>3
<1>2. \A A \in SUBSET S : A \in T
  <2> HIDE DEF T
  <2>1. QED  BY <1>1, BySubsets
<1>3. QED  BY <1>2

\* in which each comes once.
LEMMA OrderIsBijection ==
  ASSUME NEW S \in SUBSET Nat, IsFiniteSet(S), NEW order \in InOrder(S)
  PROVE  /\ Cardinality(S) \in Nat /\ order \in Bijection(1 .. Cardinality(S), S)
         /\ \A i, j \in 1 .. Cardinality(S) : i < j => order[i] < order[j]
<1> DEFINE n == Cardinality(S)
           D == 1 .. n
<1>1. n \in Nat
  BY FS_CardinalityType
<1> HIDE DEF n
<1>2. order \in [D -> S] /\ \A i, j \in D : i < j => order[i] < order[j]
  BY DEF InOrder, n
<1>3. \A i, j \in D : order[i] = order[j] => i = j
  <2>1. ASSUME NEW i \in D, NEW j \in D, order[i] = order[j]
        PROVE  ~ (i < j)
    <3>1. order[i] \in Nat /\ order[j] \in Nat
      BY <1>2
    <3>2. QED  BY <1>2, <2>1, <3>1
  <2>2. \A i, j \in D : i < j \/ j < i \/ i = j
    BY <1>1
  <2>3. QED  BY <2>1, <2>2
<1>4. IsFiniteSet(D) /\ Cardinality(D) = n
  BY <1>1, FS_Interval
<1> HIDE DEF D
<1>5. order \in Injection(D, S)
  BY <1>2, <1>3, Fun_IsInj, Zenon
<1>6. order \in Surjection(D, S)
  BY <1>4, <1>5, FS_Injection, Zenon DEF n
<1>7. order \in Bijection(D, S)
  BY <1>5, <1>6 DEF Bijection
<1>8. QED  BY <1>1, <1>2, <1>7 DEF D, n

\* The members of a list at some places.
LEMMA AtPlaces ==
  ASSUME NEW list, NEW S \in SUBSET Nat, IsFiniteSet(S)
  PROVE  \E order \in Bijection(1 .. Cardinality(S), S) :
           /\ \A i, j \in 1 .. Cardinality(S) : i < j => order[i] < order[j]
           /\ At(list, S) = [k \in 1 .. Cardinality(S) |-> list[order[k]]]
<1> DEFINE parts == {[k \in DOMAIN order |-> from[order[k]]] : order \in InOrder(S), from \in {list}}
<1>1. PICK some : some \in InOrder(S)
  BY PlacesHaveOrder
<1>2. [k \in DOMAIN some |-> list[some[k]]] \in parts
  BY <1>1
<1>3. At(list, S) \in parts
  <2> HIDE DEF parts
  <2>1. (CHOOSE x \in parts : TRUE) \in parts
    BY <1>2
  <2>2. QED  BY <2>1 DEF At, Only, parts
<1>4. PICK order \in InOrder(S) : At(list, S) = [k \in DOMAIN order |-> list[order[k]]]
  BY <1>3
<1>5. DOMAIN order = 1 .. Cardinality(S)
  BY DEF InOrder
<1>6. /\ order \in Bijection(1 .. Cardinality(S), S)
      /\ \A i, j \in 1 .. Cardinality(S) : i < j => order[i] < order[j]
  BY OrderIsBijection, Zenon
<1>7. At(list, S) = [k \in 1 .. Cardinality(S) |-> list[order[k]]]
  BY <1>4, <1>5
<1>8. QED  BY <1>6, <1>7, Zenon

LEMMA AtLength ==
  ASSUME NEW list, NEW S \in SUBSET Nat, IsFiniteSet(S)
  PROVE  /\ IsList(At(list, S)) /\ Len(At(list, S)) = Cardinality(S) /\ Cardinality(S) \in Nat
         /\ ToSet(At(list, S)) = {list[i] : i \in S}
<1> DEFINE n == Cardinality(S)
<1>1. n \in Nat
  BY FS_CardinalityType
<1>2. PICK order \in Bijection(1 .. n, S) : At(list, S) = [k \in 1 .. n |-> list[order[k]]]
  <2>1. \E order \in Bijection(1 .. Cardinality(S), S) :
           At(list, S) = [k \in 1 .. Cardinality(S) |-> list[order[k]]]
    BY AtPlaces, Zenon
  <2>2. QED  BY <2>1, Zenon
<1> HIDE DEF n
<1>3. /\ order \in [1 .. n -> S]
      /\ \A t \in S : \E s \in 1 .. n : order[s] = t
  <2> DEFINE D == 1 .. n
  <2>1. order \in Bijection(D, S)
    BY <1>2
  <2> HIDE DEF D
  <2>2. order \in [D -> S] /\ \A t \in S : \E s \in D : order[s] = t
    BY <2>1, BijectionIs
  <2>3. QED  BY <2>2 DEF D
<1> DEFINE at == At(list, S)
<1>4. at = [k \in 1 .. n |-> list[order[k]]]
  BY <1>2
<1> HIDE DEF at
<1>5. DOMAIN at = 1 .. n /\ \A k \in 1 .. n : at[k] = list[order[k]]
  BY <1>4
<1>6. ToSet(at) = {list[i] : i \in S}
  <2>1. ASSUME NEW x \in ToSet(at)
        PROVE  x \in {list[i] : i \in S}
    <3>1. PICK k \in 1 .. n : x = list[order[k]]
      BY <1>5, <2>1 DEF ToSet
    <3>2. order[k] \in S
      BY <1>3
    <3>3. QED  BY <3>1, <3>2
  <2>2. ASSUME NEW i \in S
        PROVE  list[i] \in ToSet(at)
    BY <1>3, <1>5 DEF ToSet
  <2>3. QED  BY <2>1, <2>2
<1>7. at = [k \in 1 .. n |-> at[k]] /\ \A k \in 1 .. n : at[k] \in ToSet(at)
  BY <1>4, <1>5 DEF ToSet
<1>8. at \in Seq(ToSet(at)) /\ Len(at) = n
  BY <1>1, <1>7
<1>9. QED  BY <1>1, <1>6, <1>8 DEF IsList, at, n

\* The first places of a list, up to some, are as many as that.
LEMMA FirstOnes ==
  ASSUME NEW n \in Nat, NEW S \in SUBSET (1 .. n), \A i \in S : \A j \in 1 .. i : j \in S
  PROVE  S = 1 .. Cardinality(S) /\ Cardinality(S) \in 0 .. n
<1> DEFINE out == {i \in 1 .. n + 1 : i \notin S}
<1>1. n + 1 \in out
  OBVIOUS
<1>2. PICK x \in out : \A y \in out : x <= y
  <2>1. out \subseteq Nat /\ out # {}
    BY <1>1
  <2> HIDE DEF out
  <2>2. QED  BY <2>1, LeastNatural
<1>3. x \in 1 .. n + 1 /\ x \notin S
  OBVIOUS
<1>4. \A i \in 1 .. x - 1 : i \in S
  BY <1>2, <1>3
<1>5. \A i \in S : i \in 1 .. x - 1
  <2>1. ASSUME NEW i \in S, ~ (i < x)
        PROVE  FALSE
    <3>1. x \in 1 .. i
      BY <1>3, <2>1
    <3>2. QED  BY <1>3, <3>1
  <2>2. QED  BY <1>3, <2>1
<1>6. S = 1 .. x - 1
  BY <1>4, <1>5
<1>7. Cardinality(1 .. x - 1) = x - 1
  BY <1>3, FS_Interval
<1>8. QED  BY <1>3, <1>6, <1>7

-----------------------------------------------------------------------------
(* Lists of the entries at some places *)

\* These are the entries at `places', each once, in the order of time.
Lists(log, entries, places) ==
  /\ IsList(log) /\ TimeOrdered(log)
  /\ \E order \in Bijection(DOMAIN log, places) : \A i \in DOMAIN log : log[i] = entries[order[i]]

\* What is looked for on both sides.
SameOnes(log, entries, places, A, B) ==
  \A i \in DOMAIN log : \A p \in places : log[i] = entries[p] => (i \in A <=> p \in B)

LEMMA ListsThem ==
  ASSUME NEW log, NEW entries, NEW places, Lists(log, entries, places)
  PROVE  /\ Len(log) \in Nat /\ DOMAIN log = 1 .. Len(log)
         /\ \A i \in DOMAIN log : \E p \in places : log[i] = entries[p]
         /\ \A p \in places : \E i \in DOMAIN log : log[i] = entries[p]
         /\ IsFiniteSet(places)
<1>1. Len(log) \in Nat /\ DOMAIN log = 1 .. Len(log)
  BY DEF Lists, IsList
<1>2. PICK order \in Bijection(DOMAIN log, places) : \A i \in DOMAIN log : log[i] = entries[order[i]]
  BY DEF Lists
<1>3. /\ order \in [DOMAIN log -> places]
      /\ \A p \in places : \E i \in DOMAIN log : order[i] = p
  BY <1>2, BijectionIs
<1>4. IsFiniteSet(DOMAIN log)
  BY <1>1, FS_Interval
<1>5. IsFiniteSet(places)
  BY <1>2, <1>4, AsMany
<1>6. QED  BY <1>1, <1>2, <1>3, <1>5

LEMMA BijectionsCompose ==
  ASSUME NEW R, NEW S, NEW T, NEW f \in Bijection(R, S), NEW g \in Bijection(S, T)
  PROVE  [r \in R |-> g[f[r]]] \in Bijection(R, T)
<1> DEFINE h == [r \in R |-> g[f[r]]]
<1>1. f \in [R -> S] /\ (\A a, b \in R : f[a] = f[b] => a = b) /\ (\A t \in S : \E s \in R : f[s] = t)
  BY BijectionIs
<1>2. g \in [S -> T] /\ (\A a, b \in S : g[a] = g[b] => a = b) /\ (\A t \in T : \E s \in S : g[s] = t)
  BY BijectionIs
<1>3. h \in [R -> T] /\ \A r \in R : h[r] = g[f[r]]
  BY <1>1, <1>2
<1> HIDE DEF h
<1>4. \A a, b \in R : h[a] = h[b] => a = b
  BY <1>1, <1>2, <1>3
<1>5. \A t \in T : \E r \in R : h[r] = t
  BY <1>1, <1>2, <1>3
<1>6. h \in Bijection(R, T)
  BY <1>3, <1>4, <1>5, Fun_IsBij, Zenon
<1>7. QED  BY <1>6 DEF h

LEMMA SameMatch ==
  ASSUME NEW log, NEW entries, NEW places, Lists(log, entries, places),
         NEW A \in SUBSET DOMAIN log, NEW B \in SUBSET places, SameOnes(log, entries, places, A, B)
  PROVE  \E order \in Bijection(A, B) : \A i \in A : log[i] = entries[order[i]]
<1>1. PICK order \in Bijection(DOMAIN log, places) : \A i \in DOMAIN log : log[i] = entries[order[i]]
  BY DEF Lists
<1>2. order \in [DOMAIN log -> places]
  BY <1>1, BijectionIs
<1>3. \A i \in DOMAIN log : i \in A <=> order[i] \in B
  BY <1>1, <1>2 DEF SameOnes
<1> DEFINE part == [s \in A |-> order[s]]
<1>4. part \in Bijection(A, B) /\ \A i \in A : log[i] = entries[part[i]]
  <2>1. part \in Bijection(A, B)
    BY <1>1, <1>3, PartsMatch
  <2>2. \A i \in A : part[i] = order[i]
    OBVIOUS
  <2> HIDE DEF part
  <2>3. QED  BY <1>1, <2>1, <2>2
<1> HIDE DEF part
<1>5. QED  BY <1>4

LEMMA SameAreAsMany ==
  ASSUME NEW log, NEW entries, NEW places, Lists(log, entries, places),
         NEW A \in SUBSET DOMAIN log, NEW B \in SUBSET places, SameOnes(log, entries, places, A, B)
  PROVE  /\ IsFiniteSet(A) /\ IsFiniteSet(B) /\ Cardinality(A) = Cardinality(B)
<1>1. PICK order \in Bijection(A, B) : \A i \in A : log[i] = entries[order[i]]
  BY SameMatch
<1>2. IsFiniteSet(A)
  BY ListsThem, FS_Interval, FS_Subset
<1>3. IsFiniteSet(B) /\ Cardinality(A) = Cardinality(B)
  BY <1>1, <1>2, AsMany
<1>4. QED  BY <1>2, <1>3

\* What is selected from a list lists what is selected from the places.
LEMMA SelectedAreListed ==
  ASSUME NEW log, NEW entries, NEW places, Lists(log, entries, places),
         NEW A \in SUBSET DOMAIN log, NEW B \in SUBSET places, SameOnes(log, entries, places, A, B)
  PROVE  Lists(At(log, A), entries, B)
<1> DEFINE n == Cardinality(A)
           D == 1 .. n
           at == At(log, A)
<1>1. /\ IsFiniteSet(A) /\ A \in SUBSET Nat
      /\ Len(log) \in Nat /\ DOMAIN log = 1 .. Len(log)
  <2>1. Len(log) \in Nat /\ DOMAIN log = 1 .. Len(log)
    BY ListsThem
  <2>2. QED  BY <2>1, SameAreAsMany
<1>2. /\ \E place \in Bijection(D, A) :
           /\ \A i, j \in D : i < j => place[i] < place[j]
           /\ at = [k \in D |-> log[place[k]]]
      /\ IsList(at) /\ Len(at) = n /\ n \in Nat
  <2>1. IsList(at) /\ Len(at) = n /\ n \in Nat
    BY <1>1, AtLength
  <2>2. \E place \in Bijection(D, A) :
           /\ \A i, j \in D : i < j => place[i] < place[j]
           /\ at = [k \in D |-> log[place[k]]]
    BY <1>1, AtPlaces, Zenon
  <2>3. QED  BY <2>1, <2>2
<1> HIDE DEF n, at, D
<1>3. PICK place \in Bijection(D, A) :
        /\ \A i, j \in D : i < j => place[i] < place[j]
        /\ at = [k \in D |-> log[place[k]]]
  BY <1>2
<1>4. PICK order \in Bijection(A, B) : \A i \in A : log[i] = entries[order[i]]
  <2>1. \E order \in Bijection(A, B) : \A i \in A : log[i] = entries[order[i]]
    BY SameMatch
  <2>2. QED  BY <2>1
<1> DEFINE both == [k \in D |-> order[place[k]]]
<1>5. both \in Bijection(D, B)
  BY BijectionsCompose
<1>6. place \in [D -> A]
  BY BijectionIs
<1>7. \A k \in D : at[k] = log[place[k]] /\ both[k] = order[place[k]] /\ place[k] \in A
  BY <1>3, <1>6
<1>8. DOMAIN at = D
  BY <1>3
<1> HIDE DEF both
<1>9. \A k \in DOMAIN at : at[k] = entries[both[k]]
  BY <1>4, <1>7, <1>8
<1>10. TimeOrdered(at)
  <2>1. ASSUME NEW i \in DOMAIN at, NEW j \in DOMAIN at, i < j
        PROVE  at[i].time <= at[j].time
    <3>1. place[i] < place[j] /\ place[i] \in DOMAIN log /\ place[j] \in DOMAIN log
      BY <1>3, <1>7, <1>8, <2>1
    <3>2. QED  BY <1>7, <1>8, <3>1 DEF Lists, TimeOrdered
  <2>2. QED  BY <2>1 DEF TimeOrdered
<1>11. QED  BY <1>2, <1>5, <1>8, <1>9, <1>10 DEF Lists, at

-----------------------------------------------------------------------------
(* The entries in a range (log_trace.go) *)

AreTimed(entries) == \A i \in DOMAIN entries : entries[i].time \in Int

InRange(entries, filter) ==
  {i \in DOMAIN entries :
     /\ filter.start <= entries[i].time /\ entries[i].time <= filter.end
     /\ filter.files = {} \/ entries[i].file \in filter.files}

\* Binary searches and the clamp to the log find the entries in range.
LEMMA EntriesFound ==
  ASSUME NEW log, IsList(log), TimeOrdered(log), AreTimed(log), log # <<>>,
         NEW filter, filter.start \in Int, filter.end \in Int
  PROVE  ForEachEntry(log, filter).entries = At(log, InRange(log, filter))
<1> DEFINE n == Len(log)
           first == log[1].time
           last == log[n].time
           start == IF filter.start < first THEN first ELSE filter.start
           end == IF filter.end > last THEN last ELSE filter.end
           before == {i \in DOMAIN log : log[i].time < start}
           upto == {i \in DOMAIN log : log[i].time <= end}
           slice == Cardinality(before) + 1 .. Cardinality(upto)
           wanted(i) == filter.files = {} \/ log[i].file \in filter.files
           filteredIn == {i \in slice : start <= log[i].time /\ log[i].time <= end /\ wanted(i)}
<1>1. n \in Nat \ {0} /\ DOMAIN log = 1 .. n
  BY DEF IsList
<1> HIDE DEF n
<1>2. \A i \in 1 .. n : log[i].time \in Int /\ first <= log[i].time /\ log[i].time <= last
  <2> HIDE DEF start, end, before, upto, slice, filteredIn
  <2>1. ASSUME NEW i \in 1 .. n
        PROVE  log[i].time \in Int /\ first <= log[i].time /\ log[i].time <= last
    <3>1. 1 \in DOMAIN log /\ n \in DOMAIN log /\ i \in DOMAIN log
      BY <1>1
    <3>2. log[i].time \in Int /\ first \in Int /\ last \in Int
      BY <3>1 DEF AreTimed
    <3>3. i = 1 \/ 1 < i
      BY <1>1
    <3>4. i = n \/ i < n
      BY <1>1
    <3>5. first <= log[i].time
      BY <3>1, <3>2, <3>3 DEF TimeOrdered
    <3>6. log[i].time <= last
      BY <3>1, <3>2, <3>4 DEF TimeOrdered
    <3>7. QED  BY <3>2, <3>5, <3>6
  <2>2. QED  BY <2>1
<1>3. first \in Int /\ last \in Int
  <2>1. 1 \in 1 .. n /\ n \in 1 .. n
    BY <1>1
  <2>2. QED  BY <1>2, <2>1
<1>4. start \in Int /\ end \in Int
  BY <1>3
<1>5. ASSUME NEW i \in 1 .. n
      PROVE  /\ start <= log[i].time <=> filter.start <= log[i].time
             /\ log[i].time <= end <=> log[i].time <= filter.end
  <2> DEFINE t == log[i].time
  <2>1. t \in Int /\ first <= t /\ t <= last
    BY <1>2
  <2> HIDE DEF t, first, last
  <2>2. /\ start <= t <=> filter.start <= t
        /\ t <= end <=> t <= filter.end
    BY <1>3, <2>1
  <2>3. QED  BY <2>2 DEF t
<1> HIDE DEF start, end, first, last
<1>6. \A i, j \in 1 .. n : i <= j => log[i].time <= log[j].time
  <2>1. ASSUME NEW i \in 1 .. n, NEW j \in 1 .. n, i <= j
        PROVE  log[i].time <= log[j].time
    <3>1. i = j \/ i < j
      BY <2>1
    <3>2. QED  BY <1>1, <1>2, <3>1 DEF TimeOrdered
  <2>2. QED  BY <2>1
<1>7. before = 1 .. Cardinality(before) /\ Cardinality(before) \in Nat
  <2>1. before \in SUBSET (1 .. n)
    BY <1>1
  <2>2. ASSUME NEW i \in before, NEW j \in 1 .. i
        PROVE  j \in before
    <3>1. i \in 1 .. n /\ j \in 1 .. n /\ j <= i /\ log[i].time < start
      BY <1>1
    <3>2. log[j].time <= log[i].time
      BY <1>6, <3>1
    <3>3. log[j].time < start
      BY <1>2, <1>4, <3>1, <3>2
    <3>4. QED  BY <1>1, <3>1, <3>3
  <2> HIDE DEF before
  <2>3. QED  BY <1>1, <2>1, <2>2, FirstOnes
<1>8. upto = 1 .. Cardinality(upto) /\ Cardinality(upto) \in Nat
  <2>1. upto \in SUBSET (1 .. n)
    BY <1>1
  <2>2. ASSUME NEW i \in upto, NEW j \in 1 .. i
        PROVE  j \in upto
    <3>1. i \in 1 .. n /\ j \in 1 .. n /\ j <= i /\ log[i].time <= end
      BY <1>1
    <3>2. log[j].time <= log[i].time
      BY <1>6, <3>1
    <3>3. log[j].time <= end
      BY <1>2, <1>4, <3>1, <3>2
    <3>4. QED  BY <1>1, <3>1, <3>3
  <2> HIDE DEF upto
  <2>3. QED  BY <1>1, <2>1, <2>2, FirstOnes
<1>9. \A i \in 1 .. n : i \in slice <=> start <= log[i].time /\ log[i].time <= end
  <2>1. ASSUME NEW i \in 1 .. n
        PROVE  i \in slice <=> start <= log[i].time /\ log[i].time <= end
    <3>1. i \in before <=> log[i].time < start
      BY <1>1
    <3>2. i \in upto <=> log[i].time <= end
      BY <1>1
    <3> DEFINE b == Cardinality(before)
               u == Cardinality(upto)
    <3>3. /\ b \in Nat /\ u \in Nat
          /\ i \in before <=> i \in 1 .. b
          /\ i \in upto <=> i \in 1 .. u
      <4> HIDE DEF before, upto
      <4>1. QED  BY <1>7, <1>8
    <3>4. i \in slice <=> i \in b + 1 .. u
      OBVIOUS
    <3> HIDE DEF before, upto, slice, b, u
    <3>5. i \in slice <=> i \notin before /\ i \in upto
      BY <1>1, <3>3, <3>4
    <3>6. QED  BY <1>2, <1>4, <3>1, <3>2, <3>5
  <2>2. QED  BY <2>1
<1>10. slice \subseteq 1 .. n
  <2>1. Cardinality(upto) <= n
    <3>1. \A i \in upto : i \in 1 .. n
      BY <1>1
    <3> DEFINE u == Cardinality(upto)
    <3>2. u \in Nat /\ \A i \in 1 .. u : i \in 1 .. n
      <4> HIDE DEF upto
      <4>1. QED  BY <1>8, <3>1
    <3> HIDE DEF u
    <3>3. u <= n
      <4>1. u = 0 \/ u \in 1 .. u
        BY <3>2
      <4>2. QED  BY <1>1, <3>2, <4>1
    <3>4. QED  BY <3>3 DEF u
  <2> HIDE DEF before, upto
  <2>2. QED  BY <1>1, <1>7, <1>8, <2>1
<1> HIDE DEF slice
<1>11. filteredIn = InRange(log, filter)
  BY <1>1, <1>5, <1>9, <1>10 DEF InRange
<1>12. ForEachEntry(log, filter).entries = At(log, filteredIn)
  BY DEF ForEachEntry, StartOf, EndOf, start, end, first, last, slice, n
<1> HIDE DEF filteredIn
<1>13. QED  BY <1>11, <1>12

-----------------------------------------------------------------------------
(* The range of the global filters (data_source.go) *)

LEMMA Division ==
  ASSUME NEW a \in Nat, NEW b \in Nat \ {0}
  PROVE  a \div b \in Nat /\ a \div b <= a /\ a < (a \div b + 1) * b /\ (a \div b) * b <= a
<1> DEFINE q == a \div b
           r == a % b
<1>1. q \in Int /\ r \in 0 .. b - 1 /\ a = b * q + r
  OBVIOUS
<1> HIDE DEF q, r
<1>2. q >= 0
  <2>1. ASSUME q < 0
        PROVE  FALSE
    <3>1. b * q <= -b
      BY <1>1, <2>1
    <3>2. QED  BY <1>1, <3>1
  <2>2. QED  BY <1>1, <2>1
<1>3. b * q >= q
  BY <1>1, <1>2
<1>4. b * q = q * b /\ (q + 1) * b = b * q + b
  BY <1>1
<1>5. QED  BY <1>1, <1>2, <1>3, <1>4 DEF q

LEMMA Halves ==
  ASSUME NEW a \in Nat
  PROVE  Quotient(a, 2) \in Nat /\ 2 * Quotient(a, 2) \in {a, a - 1}
<1>1. Quotient(a, 2) = a \div 2
  BY DEF Quotient
<1>2. a \div 2 \in Nat /\ 2 * (a \div 2) \in {a, a - 1}
  OBVIOUS
<1>3. QED  BY <1>1, <1>2

\* A range is not more than the log, and zooming leaves the part of it that it should.
LEMMA ZoomedHalf ==
  ASSUME NEW log, StartOf(log) \in Int, EndOf(log) \in Int,
         NEW half \in Nat, 2 * half <= EndOf(log) - StartOf(log),
         NEW zoom, NEW h, h = Zoomed(log, half, zoom)
  PROVE  /\ h \in Nat /\ h <= EndOf(log) - StartOf(log)
         /\ zoom \notin {"in", "out"} => h = half
         /\ zoom = "out" => h = 2 * half
         /\ zoom = "in" => 2 * h <= EndOf(log) - StartOf(log) /\ (h + 1) * 2 * MaxZoom > EndOf(log) - StartOf(log)
<1> DEFINE total == EndOf(log) - StartOf(log)
           narrow == Quotient(half, 2)
<1>1. total \in Nat /\ narrow \in Nat /\ 2 * narrow <= half /\ MaxZoom \in Nat \ {0} /\ 2 * half <= total
  BY Halves, MaxZoomAssumption
<1>2. h = CASE zoom = "in" -> IF narrow >= 0 /\ total > 2 * narrow * MaxZoom THEN total \div (2 * MaxZoom)
                             ELSE narrow
            [] zoom = "out" -> half * 2
            [] OTHER -> half
  BY DEF Zoomed
<1> HIDE DEF total, narrow
<1> DEFINE part == total \div (2 * MaxZoom)
<1>3. part \in Nat /\ (part + 1) * (2 * MaxZoom) > total /\ part * (2 * MaxZoom) <= total
  <2> DEFINE b == 2 * MaxZoom
  <2>1. b \in Nat \ {0}
    BY <1>1
  <2> HIDE DEF b
  <2>2. total \div b \in Nat /\ (total \div b + 1) * b > total /\ (total \div b) * b <= total
    BY <1>1, <2>1, Division
  <2>3. QED  BY <2>2 DEF b
<1>4. 2 * part <= part * (2 * MaxZoom)
  <2> HIDE DEF part
  <2>1. part * 1 <= part * MaxZoom
    BY <1>1, <1>3
  <2>2. QED  BY <1>1, <1>3, <2>1
<1>5. (part + 1) * 2 * MaxZoom > total /\ 2 * part <= total
  <2> HIDE DEF part
  <2>1. (part + 1) * 2 * MaxZoom = (part + 1) * (2 * MaxZoom)
    BY <1>1, <1>3
  <2>2. QED  BY <1>1, <1>3, <1>4, <2>1
<1> HIDE DEF part
<1>6. CASE zoom = "in" /\ total > 2 * narrow * MaxZoom
  <2>1. h = part
    BY <1>1, <1>2, <1>6 DEF part
  <2>2. QED  BY <1>1, <1>3, <1>5, <1>6, <2>1 DEF total
<1>7. CASE zoom = "in" /\ ~(total > 2 * narrow * MaxZoom)
  <2>1. h = narrow
    BY <1>1, <1>2, <1>7
  <2>2. 2 * narrow * MaxZoom < (narrow + 1) * 2 * MaxZoom
    <3>1. (narrow + 1) * 2 * MaxZoom = 2 * narrow * MaxZoom + 2 * MaxZoom
      BY <1>1
    <3>2. 2 * narrow * MaxZoom \in Int
      BY <1>1
    <3>3. QED  BY <1>1, <3>1, <3>2
  <2> DEFINE a == 2 * narrow * MaxZoom
             b == (narrow + 1) * 2 * MaxZoom
  <2>3. a \in Int /\ b \in Int
    BY <1>1
  <2> HIDE DEF a, b
  <2>4. b > total
    BY <1>1, <1>7, <2>2, <2>3 DEF a, b
  <2>5. 2 * narrow <= total
    BY <1>1
  <2>6. QED  BY <1>1, <1>7, <2>1, <2>4, <2>5 DEF total, b
<1>8. CASE zoom = "out"
  BY <1>1, <1>2, <1>8 DEF total
<1>9. CASE zoom \notin {"in", "out"}
  BY <1>1, <1>2, <1>9 DEF total
<1>10. QED  BY <1>6, <1>7, <1>8, <1>9

\* The middle stays in the log, even half a range away from an end when panning.
LEMMA PannedMiddle ==
  ASSUME NEW log, StartOf(log) \in Int, EndOf(log) \in Int,
         NEW midpoint \in Int, StartOf(log) <= midpoint, midpoint <= EndOf(log),
         NEW h \in Nat, h <= EndOf(log) - StartOf(log),
         NEW pan, NEW m, m = Panned(log, midpoint, h, pan)
  PROVE  /\ m \in Int /\ StartOf(log) <= m /\ m <= EndOf(log)
         /\ pan \notin {"left", "right"} => m = midpoint
         /\ pan = "left" => m \in {midpoint - h, StartOf(log) + h} /\ m >= midpoint - h /\ m >= StartOf(log) + h
         /\ pan = "right" => m \in {midpoint + h, EndOf(log) - h} /\ m <= midpoint + h /\ m <= EndOf(log) - h
<1> DEFINE first == StartOf(log)
           last == EndOf(log)
<1>1. m = CASE pan = "left" -> Larger(midpoint - h, first + h)
            [] pan = "right" -> Smaller(midpoint + h, last - h)
            [] OTHER -> midpoint
  BY DEF Panned
<1>2. first \in Int /\ last \in Int /\ first <= midpoint /\ midpoint <= last /\ h <= last - first
  OBVIOUS
<1> HIDE DEF first, last
<1>3. CASE pan = "left"
  <2>1. m = Larger(midpoint - h, first + h)
    BY <1>1, <1>3
  <2>2. QED  BY <1>2, <1>3, <2>1 DEF Larger, first, last
<1>4. CASE pan = "right"
  <2>1. m = Smaller(midpoint + h, last - h)
    BY <1>1, <1>4
  <2>2. QED  BY <1>2, <1>4, <2>1 DEF Smaller, first, last
<1>5. CASE pan \notin {"left", "right"}
  <2>1. m = midpoint
    BY <1>1, <1>5
  <2>2. QED  BY <1>2, <1>5, <2>1 DEF first, last
<1>6. QED  BY <1>3, <1>4, <1>5

\* The range that is asked for lies in the log, if it is not backwards.
LEMMA AskedRange ==
  ASSUME NEW log, StartOf(log) \in Int, EndOf(log) \in Int, StartOf(log) <= EndOf(log),
         NEW start \in Int, NEW end \in Int
  PROVE  LET within == ClampTimerange(log, start, end)
         IN  /\ within.start = Larger(start, StartOf(log))
             /\ within.end = IF end < StartOf(log) THEN EndOf(log) ELSE Smaller(end, EndOf(log))
             /\ within.start \in Int /\ within.end \in Int
             /\ StartOf(log) <= within.start /\ StartOf(log) <= within.end /\ within.end <= EndOf(log)
<1> DEFINE first == StartOf(log)
           last == EndOf(log)
           s == IF start < first THEN first ELSE start
           e == IF last < end \/ end < first THEN last ELSE end
           within == ClampTimerange(log, start, end)
<1>1. within.start = s /\ within.end = e
  BY DEF ClampTimerange
<1>2. first \in Int /\ last \in Int /\ first <= last
  OBVIOUS
<1> HIDE DEF first, last, within
<1>3. /\ s = Larger(start, first)
      /\ e = IF end < first THEN last ELSE Smaller(end, last)
      /\ s \in Int /\ e \in Int /\ first <= s /\ first <= e /\ e <= last
  BY <1>2 DEF Larger, Smaller
<1>4. QED  BY <1>1, <1>3 DEF first, last, within

\* Zooming in leaves a part of the log.
Wide(total, h) == (h + 1) * 2 * MaxZoom > total

\* The arithmetic of panning and zooming: a range of twice `h' around `m', in the log.
Around(first, last, m, h) ==
  [start |-> IF m - h < first THEN first ELSE m - h,
   end |-> IF last < m + h \/ m + h < first THEN last ELSE m + h]

LEMMA Products ==
  ASSUME NEW x \in Nat, NEW y \in Nat, x <= y, NEW k \in Nat
  PROVE  x * k \in Nat /\ y * k \in Nat /\ x * k <= y * k
<1> DEFINE d == y - x
<1>1. d \in Nat /\ y = x + d
  OBVIOUS
<1> HIDE DEF d
<1>2. x * k \in Nat /\ d * k \in Nat
  BY <1>1
<1>3. y * k = x * k + d * k
  BY <1>1
<1>4. QED  BY <1>2, <1>3

\* A longer one than a wide range is wide, and so is the whole.
LEMMA StillWide ==
  ASSUME NEW total \in Nat, NEW long \in Nat, NEW h \in Nat, Wide(total, h), long >= h \/ long = total
  PROVE  Wide(total, long)
<1>1. MaxZoom \in Nat /\ 1 <= MaxZoom
  BY MaxZoomAssumption
<1> DEFINE x == (h + 1) * 2
           y == (long + 1) * 2
           xm == x * MaxZoom
           ym == y * MaxZoom
<1>2. x \in Nat /\ y \in Nat /\ xm > total
  BY DEF Wide
<1>3. long >= h => x <= y
  OBVIOUS
<1>4. long = total => y > total
  OBVIOUS
<1> HIDE DEF x, y
<1>5. CASE long >= h
  <2>1. xm \in Nat /\ ym \in Nat /\ xm <= ym
    BY <1>1, <1>2, <1>3, <1>5, Products
  <2> HIDE DEF xm, ym
  <2>2. ym > total
    BY <1>2, <2>1
  <2>3. QED  BY <2>2 DEF ym, y, Wide
<1>6. CASE long = total
  <2> DEFINE one == 1
             my == MaxZoom * y
  <2>1. one * y \in Nat /\ my \in Nat /\ one * y <= my
    BY <1>1, <1>2, Products
  <2>2. one * y = y /\ my = ym
    BY <1>1, <1>2
  <2> HIDE DEF my, ym, one
  <2>3. ym > total
    BY <1>2, <1>4, <1>6, <2>1, <2>2
  <2>4. QED  BY <2>3 DEF ym, y, Wide
<1>7. QED  BY <1>5, <1>6

\* The range of the filter, step by step.
LEMMA RangeIsFit ==
  ASSUME NEW ends, StartOf(ends) \in Int, EndOf(ends) \in Int, StartOf(ends) <= EndOf(ends),
         NEW globals, globals.start \in Int, globals.end \in Int,
         NEW within, within.start = FilterFromGlobalFilters(ends, globals).start,
         within.end = FilterFromGlobalFilters(ends, globals).end
  PROVE  RangeFits(ends, globals, within)
<1> DEFINE first == StartOf(ends)
           last == EndOf(ends)
           s == Larger(globals.start, first)
           e == IF globals.end < first THEN last ELSE Smaller(globals.end, last)
           given == ClampTimerange(ends, globals.start, globals.end)
           w == Quotient(e - s, 2)
           h == Zoomed(ends, w, globals.zoom)
           m == Panned(ends, s + w, h, globals.pan)
           still == globals.zoom \notin {"in", "out"}
           zin == globals.zoom = "in"
           out == globals.zoom = "out"
           left == globals.pan = "left"
           right == globals.pan = "right"
           rs == within.start
           re == within.end
<1>1. SUFFICES ASSUME s <= e
               PROVE  /\ first <= rs /\ rs <= re /\ re <= last
                      /\ still => re - rs \in {e - s, e - s - 1}
                      /\ still /\ left => rs <= s
                      /\ still /\ right => re >= e - 1
                      /\ zin => Wide(last - first, re - rs)
                      /\ out /\ ~left /\ ~right => rs <= s /\ re >= e - 1
  BY DEF RangeFits, Wide
<1>2. /\ given.start = s /\ given.end = e /\ s \in Int /\ e \in Int
      /\ first <= s /\ s <= e /\ e <= last /\ first \in Int /\ last \in Int
  BY <1>1, AskedRange
<1>3. /\ rs = Around(first, last, m, h).start
      /\ re = Around(first, last, m, h).end
  <2> DEFINE width == Quotient(given.end - given.start, 2)
             half == Zoomed(ends, width, globals.zoom)
             midpoint == Panned(ends, given.start + width, half, globals.pan)
             fit == ClampTimerange(ends, midpoint - half, midpoint + half)
  <2>1. rs = fit.start /\ re = fit.end
    BY DEF FilterFromGlobalFilters
  <2>2. width = w /\ half = h /\ midpoint = m
    <3> HIDE DEF given, s, e
    <3>1. QED  BY <1>2
  <2>3. fit = Around(first, last, midpoint, half)
    BY DEF ClampTimerange, Around
  <2> HIDE DEF fit, width, half, midpoint, m, h, w
  <2>4. QED  BY <2>1, <2>2, <2>3
<1> HIDE DEF s, e, given
<1>4. w \in Nat /\ 2 * w \in {e - s, e - s - 1}
  <2> DEFINE a == e - s
  <2>1. a \in Nat
    BY <1>2
  <2> HIDE DEF a
  <2>2. Quotient(a, 2) \in Nat /\ 2 * Quotient(a, 2) \in {a, a - 1}
    BY <2>1, Halves
  <2>3. QED  BY <2>2 DEF a
<1> HIDE DEF w
<1>5. /\ h \in Nat /\ h <= last - first
      /\ still => h = w
      /\ out => h = 2 * w
      /\ zin => 2 * h <= last - first /\ Wide(last - first, h)
  <2>1. 2 * w <= last - first
    BY <1>2, <1>4
  <2>2. QED  BY <1>2, <1>4, <2>1, ZoomedHalf DEF Wide
<1> HIDE DEF h
<1>6. /\ m \in Int /\ first <= m /\ m <= last
      /\ ~left /\ ~right => m = s + w
      /\ left => m \in {s + w - h, first + h} /\ m >= s + w - h /\ m >= first + h
      /\ right => m \in {s + w + h, last - h} /\ m <= s + w + h /\ m <= last - h
  <2> DEFINE middle == s + w
  <2>1. middle \in Int /\ first <= middle /\ middle <= last
    BY <1>2, <1>4
  <2>2. m = Panned(ends, middle, h, globals.pan)
    OBVIOUS
  <2> HIDE DEF middle, m
  <2>3. /\ m \in Int /\ first <= m /\ m <= last
        /\ ~left /\ ~right => m = middle
        /\ left => m \in {middle - h, first + h} /\ m >= middle - h /\ m >= first + h
        /\ right => m \in {middle + h, last - h} /\ m <= middle + h /\ m <= last - h
    <3>1. /\ StartOf(ends) \in Int /\ EndOf(ends) \in Int /\ middle \in Int
          /\ StartOf(ends) <= middle /\ middle <= EndOf(ends)
          /\ h \in Nat /\ h <= EndOf(ends) - StartOf(ends)
      BY <1>5, <2>1
    <3>2. /\ m \in Int /\ StartOf(ends) <= m /\ m <= EndOf(ends)
          /\ globals.pan \notin {"left", "right"} => m = middle
          /\ globals.pan = "left" =>
               m \in {middle - h, StartOf(ends) + h} /\ m >= middle - h /\ m >= StartOf(ends) + h
          /\ globals.pan = "right" =>
               m \in {middle + h, EndOf(ends) - h} /\ m <= middle + h /\ m <= EndOf(ends) - h
      BY <2>2, <3>1, PannedMiddle
    <3>3. ~left /\ ~right => globals.pan \notin {"left", "right"}
      OBVIOUS
    <3>4. /\ m \in Int /\ first <= m /\ m <= last
          /\ ~left /\ ~right => m = middle
      BY <3>2, <3>3
    <3>5. left => m \in {middle - h, first + h} /\ m >= middle - h /\ m >= first + h
      BY <3>2
    <3>6. right => m \in {middle + h, last - h} /\ m <= middle + h /\ m <= last - h
      BY <3>2
    <3> HIDE DEF first, last, left, right
    <3>7. QED  BY <3>4, <3>5, <3>6
  <2>4. middle = s + w
    BY DEF middle
  <2> HIDE DEF first, last, left, right
  <2>5. QED  BY <1>2, <1>4, <1>5, <2>3, <2>4
<1> HIDE DEF m, first, last
<1>7. /\ rs = IF m - h < first THEN first ELSE m - h
      /\ re = IF last < m + h THEN last ELSE m + h
  BY <1>2, <1>3, <1>5, <1>6 DEF Around
<1> HIDE DEF rs, re
<1>8. rs \in Int /\ re \in Int /\ first <= rs /\ rs <= re /\ re <= last
  BY <1>2, <1>5, <1>6, <1>7
<1>9. re - rs >= h \/ re - rs = last - first
  BY <1>2, <1>5, <1>6, <1>7
<1>10. ASSUME still
       PROVE  /\ re - rs \in {e - s, e - s - 1}
              /\ left => rs <= s
              /\ right => re >= e - 1
  <2>1. h = w
    BY <1>5, <1>10
  <2>2. CASE left
    <3>1. m \in {s, first + w} /\ m >= s /\ m >= first + w
      BY <1>2, <1>4, <1>6, <2>1, <2>2
    <3>2. rs = m - w /\ re = m + w
      BY <1>2, <1>4, <1>7, <2>1, <3>1
    <3>3. ~right
      BY <2>2
    <3>4. QED  BY <1>2, <1>4, <3>1, <3>2, <3>3
  <2>3. CASE right
    <3>1. m \in {s + 2 * w, last - w} /\ m <= s + 2 * w /\ m <= last - w
      BY <1>2, <1>4, <1>6, <2>1, <2>3
    <3>2. rs = m - w /\ re = m + w
      BY <1>2, <1>4, <1>7, <2>1, <3>1
    <3>3. ~left
      BY <2>3
    <3>4. QED  BY <1>2, <1>4, <3>1, <3>2, <3>3
  <2>4. CASE ~left /\ ~right
    <3>1. m = s + w
      BY <1>6, <2>4
    <3>2. rs = m - w /\ re = m + w
      BY <1>2, <1>4, <1>7, <2>1, <3>1
    <3>3. QED  BY <1>2, <1>4, <2>4, <3>1, <3>2
  <2>5. QED  BY <2>2, <2>3, <2>4
<1>11. ASSUME zin
       PROVE  Wide(last - first, re - rs)
  <2> DEFINE total == last - first
             long == re - rs
  <2>1. /\ total \in Nat /\ long \in Nat /\ MaxZoom \in Nat \ {0}
        /\ long >= h \/ long = total
        /\ Wide(total, h) /\ h \in Nat
    BY <1>2, <1>5, <1>8, <1>9, <1>11, MaxZoomAssumption
  <2> HIDE DEF total, long
  <2>2. Wide(total, long)
    BY <2>1, StillWide
  <2>3. QED  BY <2>2 DEF long, total
<1>12. ASSUME out, ~left, ~right
       PROVE  rs <= s /\ re >= e - 1
  BY <1>2, <1>4, <1>5, <1>6, <1>7, <1>12
<1> HIDE DEF still, zin, out, left, right
<1>13. QED  BY <1>8, <1>10, <1>11, <1>12 DEF rs, re

-----------------------------------------------------------------------------
(* The same range for the log as it is cached and for the entries of its file *)

LEMMA TimedList ==
  ASSUME NEW log, NEW entries, Lists(log, entries, DOMAIN entries), AreTimed(entries)
  PROVE  AreTimed(log)
BY ListsThem DEF AreTimed

LEMMA EndsAgree ==
  ASSUME NEW log, NEW entries, Lists(log, entries, DOMAIN entries), AreTimed(entries), log # <<>>
  PROVE  /\ StartOf(log) = StartOf(Ends(entries)) /\ EndOf(log) = EndOf(Ends(entries))
         /\ StartOf(log) \in Int /\ EndOf(log) \in Int /\ StartOf(log) <= EndOf(log)
<1> DEFINE n == Len(log)
           places == DOMAIN entries
           early(i) == \A j \in places : entries[i].time <= entries[j].time
           late(i) == \A j \in places : entries[i].time >= entries[j].time
           first == CHOOSE i \in places : early(i)
           last == CHOOSE i \in places : late(i)
<1>1. /\ n \in Nat /\ DOMAIN log = 1 .. n
      /\ \A i \in 1 .. n : \E p \in places : log[i] = entries[p]
      /\ \A p \in places : \E i \in 1 .. n : log[i] = entries[p]
  BY ListsThem
<1>2. n # 0
  BY DEF Lists, IsList
<1> HIDE DEF n
<1>3. 1 \in 1 .. n /\ n \in 1 .. n
  BY <1>1, <1>2
<1>4. \A i \in 1 .. n : log[i].time \in Int
  BY <1>1, TimedList DEF AreTimed
<1>5. \A i, j \in 1 .. n : i < j => log[i].time <= log[j].time
  BY <1>1 DEF Lists, TimeOrdered
<1>6. \A i \in 1 .. n : log[1].time <= log[i].time /\ log[i].time <= log[n].time
  <2>1. ASSUME NEW i \in 1 .. n
        PROVE  log[1].time <= log[i].time /\ log[i].time <= log[n].time
    <3>1. i = 1 \/ 1 < i
      BY <1>1
    <3>2. i = n \/ i < n
      BY <1>1
    <3>3. log[1].time <= log[i].time
      BY <1>3, <1>4, <1>5, <3>1
    <3>4. log[i].time <= log[n].time
      BY <1>3, <1>4, <1>5, <3>2
    <3>5. QED  BY <3>3, <3>4
  <2>2. QED  BY <2>1
<1>7. PICK a \in places : log[1] = entries[a]
  BY <1>1, <1>3
<1>8. PICK b \in places : log[n] = entries[b]
  BY <1>1, <1>3
<1>9. early(a) /\ late(b)
  BY <1>1, <1>3, <1>4, <1>6, <1>7, <1>8
<1>10. first \in places /\ early(first) /\ last \in places /\ late(last)
  <2> HIDE DEF early, late
  <2>1. QED  BY <1>9
<1>11. \A p \in places : entries[p].time \in Int
  BY DEF AreTimed
<1>12. entries[first].time = log[1].time
  <2> HIDE DEF first
  <2>1. entries[first].time <= entries[a].time /\ entries[a].time <= entries[first].time
    BY <1>9, <1>10
  <2>2. QED  BY <1>7, <1>10, <1>11, <2>1
<1>13. entries[last].time = log[n].time
  <2> HIDE DEF last
  <2>1. entries[last].time <= entries[b].time /\ entries[b].time <= entries[last].time
    BY <1>9, <1>10
  <2>2. QED  BY <1>8, <1>10, <1>11, <2>1
<1>14. Ends(entries) = <<entries[first], entries[last]>>
  BY DEF Ends
<1> HIDE DEF first, last
<1>15. StartOf(Ends(entries)) = entries[first].time /\ EndOf(Ends(entries)) = entries[last].time
  BY <1>14 DEF StartOf, EndOf
<1>16. StartOf(log) = log[1].time /\ EndOf(log) = log[n].time
  BY DEF StartOf, EndOf, n
<1>17. QED  BY <1>3, <1>4, <1>6, <1>12, <1>13, <1>15, <1>16

LEMMA SameFilter ==
  ASSUME NEW log, NEW ends, StartOf(log) = StartOf(ends), EndOf(log) = EndOf(ends), NEW globals
  PROVE  /\ FilterFromGlobalFilters(log, globals).start = FilterFromGlobalFilters(ends, globals).start
         /\ FilterFromGlobalFilters(log, globals).end = FilterFromGlobalFilters(ends, globals).end
<1>1. \A a, b : ClampTimerange(log, a, b) = ClampTimerange(ends, a, b)
  BY DEF ClampTimerange
<1>2. \A a, b : Zoomed(log, a, b) = Zoomed(ends, a, b)
  BY DEF Zoomed
<1>3. \A a, b, c : Panned(log, a, b, c) = Panned(ends, a, b, c)
  BY DEF Panned
<1>4. QED  BY <1>1, <1>2, <1>3 DEF FilterFromGlobalFilters

LEMMA QuotientIsInt ==
  ASSUME NEW a \in Int, NEW b \in Nat \ {0}
  PROVE  Quotient(a, b) \in Int
BY DEF Quotient

\* Even a range that is backwards is one of numbers.
LEMMA FilterIsTyped ==
  ASSUME NEW log, StartOf(log) \in Int, EndOf(log) \in Int, StartOf(log) <= EndOf(log),
         NEW globals, globals.start \in Int, globals.end \in Int
  PROVE  /\ FilterFromGlobalFilters(log, globals).start \in Int
         /\ FilterFromGlobalFilters(log, globals).end \in Int
         /\ FilterFromGlobalFilters(log, globals).files = globals.files
<1> DEFINE given == ClampTimerange(log, globals.start, globals.end)
           width == Quotient(given.end - given.start, 2)
           half == Zoomed(log, width, globals.zoom)
           midpoint == Panned(log, given.start + width, half, globals.pan)
           fit == ClampTimerange(log, midpoint - half, midpoint + half)
<1>1. /\ FilterFromGlobalFilters(log, globals).start = fit.start
      /\ FilterFromGlobalFilters(log, globals).end = fit.end
      /\ FilterFromGlobalFilters(log, globals).files = globals.files
  BY DEF FilterFromGlobalFilters
<1>2. given.start \in Int /\ given.end \in Int
  BY AskedRange
<1> HIDE DEF given
<1>3. width \in Int
  BY <1>2, QuotientIsInt
<1> HIDE DEF width
<1>4. half \in Int
  <2>1. Quotient(width, 2) \in Int
    BY <1>3, QuotientIsInt
  <2>2. 2 * MaxZoom \in Nat \ {0}
    BY MaxZoomAssumption
  <2>3. (EndOf(log) - StartOf(log)) \div (2 * MaxZoom) \in Int
    <3> DEFINE total == EndOf(log) - StartOf(log)
               b == 2 * MaxZoom
    <3>1. total \in Nat /\ b \in Nat \ {0}
      BY <2>2
    <3> HIDE DEF total, b
    <3>2. total \div b \in Int
      BY <3>1
    <3>3. QED  BY <3>2 DEF total, b
  <2>4. /\ half \in {(EndOf(log) - StartOf(log)) \div (2 * MaxZoom), Quotient(width, 2), width * 2, width}
    BY DEF Zoomed
  <2>5. QED  BY <1>3, <2>1, <2>3, <2>4
<1> HIDE DEF half
<1>5. midpoint \in Int
  <2> DEFINE middle == given.start + width
  <2>1. middle \in Int
    BY <1>2, <1>3
  <2> HIDE DEF middle
  <2>2. \A a, b \in Int : Larger(a, b) \in Int /\ Smaller(a, b) \in Int
    BY DEF Larger, Smaller
  <2> DEFINE l == Larger(middle - half, StartOf(log) + half)
             r == Smaller(middle + half, EndOf(log) - half)
  <2>3. l \in Int /\ r \in Int
    <3>1. /\ middle - half \in Int /\ middle + half \in Int
          /\ StartOf(log) + half \in Int /\ EndOf(log) - half \in Int
      BY <1>4, <2>1
    <3>2. QED  BY <2>2, <3>1, Zenon
  <2>4. Panned(log, middle, half, globals.pan) \in {l, r, middle}
    <3>1. Panned(log, middle, half, globals.pan) =
            CASE globals.pan = "left" -> l [] globals.pan = "right" -> r [] OTHER -> middle
      BY DEF Panned
    <3> HIDE DEF l, r
    <3>2. QED  BY <3>1
  <2> HIDE DEF l, r
  <2>5. Panned(log, middle, half, globals.pan) \in Int
    BY <2>1, <2>3, <2>4
  <2>6. QED  BY <2>5 DEF middle
<1> HIDE DEF midpoint
<1>6. fit.start \in Int /\ fit.end \in Int
  <2>1. midpoint - half \in Int /\ midpoint + half \in Int
    BY <1>4, <1>5
  <2>2. QED  BY <2>1, AskedRange
<1> HIDE DEF fit
<1>7. QED  BY <1>1, <1>6

\* What the queries go through: the entries of the file in the range and source files.
LEMMA FoundAreListed ==
  ASSUME NEW log, NEW entries, Lists(log, entries, DOMAIN entries), AreTimed(entries), log # <<>>,
         NEW filter, filter.start \in Int, filter.end \in Int
  PROVE  Lists(ForEachEntry(log, filter).entries, entries, InRange(entries, filter))
<1>1. ForEachEntry(log, filter).entries = At(log, InRange(log, filter))
  BY TimedList, EntriesFound DEF Lists
<1> DEFINE A == InRange(log, filter)
           B == InRange(entries, filter)
<1>2. A \in SUBSET DOMAIN log /\ B \in SUBSET DOMAIN entries
  BY DEF InRange
<1>3. SameOnes(log, entries, DOMAIN entries, A, B)
  BY DEF SameOnes, InRange
<1> HIDE DEF A, B
<1>4. Lists(At(log, A), entries, B)
  BY <1>2, <1>3, SelectedAreListed
<1>5. QED  BY <1>1, <1>4 DEF A, B

-----------------------------------------------------------------------------
(* Nodes and tables *)

LEMMA OnlyOne ==
  ASSUME NEW x
  PROVE  Only({x}) = x
BY DEF Only

LEMMA WithIs ==
  ASSUME NEW properties, NEW update
  PROVE  /\ DOMAIN With(properties, update) = DOMAIN properties \union DOMAIN update
         /\ \A k \in DOMAIN properties \union DOMAIN update :
              With(properties, update)[k] = IF k \in DOMAIN update THEN update[k] ELSE properties[k]
<1> DEFINE both == [k \in DOMAIN properties \union DOMAIN update |->
                      IF k \in DOMAIN update THEN update[k] ELSE properties[k]]
<1>1. {[k \in DOMAIN old \union DOMAIN new |-> IF k \in DOMAIN new THEN new[k] ELSE old[k]] :
         old \in {properties}, new \in {update}} = {both}
  OBVIOUS
<1>2. With(properties, update) = Only({both})
  BY <1>1 DEF With
<1> HIDE DEF both
<1>3. Only({both}) = both
  BY OnlyOne
<1>4. QED  BY <1>2, <1>3 DEF both

\* A property that is added is there, and so are the others.
LEMMA AddedProperty ==
  ASSUME NEW properties, NEW key, NEW value
  PROVE  /\ \A k : k \in DOMAIN With(properties, Property(key, value)) <=> k \in DOMAIN properties \/ k = key
         /\ With(properties, Property(key, value))[key] = value
         /\ \A k \in DOMAIN properties : k # key => With(properties, Property(key, value))[k] = properties[k]
<1> DEFINE update == Property(key, value)
           after == With(properties, update)
<1>1. DOMAIN update = {key} /\ update[key] = value
  BY DEF Property
<1> HIDE DEF update
<1>2. /\ DOMAIN after = DOMAIN properties \union DOMAIN update
      /\ \A k \in DOMAIN properties \union DOMAIN update :
           after[k] = IF k \in DOMAIN update THEN update[k] ELSE properties[k]
  BY WithIs
<1> HIDE DEF after
<1>3. \A k : k \in DOMAIN after <=> k \in DOMAIN properties \/ k = key
  BY <1>1, <1>2
<1>4. \A k \in DOMAIN properties \union {key} : after[k] = IF k = key THEN value ELSE properties[k]
  BY <1>1, <1>2
<1>5. QED  BY <1>3, <1>4 DEF after, update

\* A cell belongs to its column.
LEMMA TaggedIs ==
  ASSUME NEW properties, "category_ids" \notin DOMAIN properties, NEW id
  PROVE  /\ \A k : k \in DOMAIN Tag(properties, id) <=> k \in DOMAIN properties \/ k = "category_ids"
         /\ TagsOf(Tag(properties, id)) = <<id>>
         /\ \A k \in DOMAIN properties : Tag(properties, id)[k] = properties[k]
<1> DEFINE tags == <<id>>
           after == With(properties, Property("category_ids", tags))
<1>1. Tag(properties, id) = after
  BY DEF Tag, TagsOf
<1> HIDE DEF tags
<1>2. /\ \A k : k \in DOMAIN after <=> k \in DOMAIN properties \/ k = "category_ids"
      /\ after["category_ids"] = tags
      /\ \A k \in DOMAIN properties : k # "category_ids" => after[k] = properties[k]
  BY AddedProperty
<1> HIDE DEF after
<1>3. QED  BY <1>1, <1>2 DEF TagsOf, tags

LEMMA CellIs ==
  ASSUME NEW column, NEW value
  PROVE  /\ TagsOf(Cell(column, value).properties) = <<column>> /\ Cell(column, value).children = <<>>
         /\ ~Has(Cell(column, value), "table_formatted_cell") /\ CellValue(Cell(column, value)) = <<value>>
<1> DEFINE bare == Property("table_cell", value)
           cell == Cell(column, value)
           tags == <<column>>
<1>1. (\A k : k \in DOMAIN bare <=> k = "table_cell") /\ bare["table_cell"] = value
  BY DEF Property
<1>2. cell.properties = Tag(bare, column) /\ cell.children = <<>>
  BY DEF Cell, Node
<1> HIDE DEF bare, cell
<1>3. /\ \A k : k \in DOMAIN cell.properties <=> k \in {"table_cell", "category_ids"}
      /\ TagsOf(cell.properties) = tags
      /\ cell.properties["table_cell"] = value
  BY <1>1, <1>2, TaggedIs
<1>4. ~Has(cell, "table_formatted_cell") /\ Has(cell, "table_cell")
  BY <1>3 DEF Has
<1>5. QED  BY <1>2, <1>3, <1>4 DEF CellValue, cell

LEMMA FormattedCellIs ==
  ASSUME NEW column, NEW fields, NEW properties,
         "category_ids" \notin DOMAIN properties, "table_formatted_cell" \notin DOMAIN properties,
         \A i \in DOMAIN fields : fields[i] \in DOMAIN properties,
         NEW cell, cell = FormattedCell(column, fields, properties),
         NEW what, what = [i \in DOMAIN fields |-> properties[fields[i]]]
  PROVE  /\ TagsOf(cell.properties) = <<column>> /\ cell.children = <<>>
         /\ Has(cell, "table_formatted_cell") /\ cell.properties["table_formatted_cell"] = fields
         /\ \A i \in DOMAIN fields : Has(cell, fields[i])
         /\ CellValue(cell) = <<what>>
<1> DEFINE more == With(properties, Property("table_formatted_cell", fields))
<1>1. /\ \A k : k \in DOMAIN more <=> k \in DOMAIN properties \/ k = "table_formatted_cell"
      /\ more["table_formatted_cell"] = fields
      /\ \A k \in DOMAIN properties : more[k] = properties[k]
  BY AddedProperty
<1>2. cell.properties = Tag(more, column) /\ cell.children = <<>>
  BY DEF FormattedCell, Node
<1> HIDE DEF more
<1>3. /\ \A k : k \in DOMAIN cell.properties <=> k \in DOMAIN properties \/ k \in {"table_formatted_cell", "category_ids"}
      /\ TagsOf(cell.properties) = <<column>>
      /\ cell.properties["table_formatted_cell"] = fields
      /\ \A k \in DOMAIN properties : cell.properties[k] = properties[k]
  BY <1>1, <1>2, TaggedIs
<1>4. Has(cell, "table_formatted_cell")
  BY <1>3 DEF Has
<1>5. CellValue(cell) = <<[i \in DOMAIN fields |-> cell.properties[fields[i]]]>>
  BY <1>3, <1>4 DEF CellValue
<1>6. [i \in DOMAIN fields |-> cell.properties[fields[i]]] = [i \in DOMAIN fields |-> properties[fields[i]]]
  BY <1>3
<1>7. \A i \in DOMAIN fields : Has(cell, fields[i])
  BY <1>3 DEF Has
<1>8. QED  BY <1>2, <1>3, <1>4, <1>5, <1>6, <1>7

\* The header and the rows of a table are where the client looks for them.
LEMMA TailOf ==
  ASSUME NEW x, NEW items, IsList(items)
  PROVE  /\ Tail(<<x>> \o items) = items /\ (<<x>> \o items) # <<>> /\ (<<x>> \o items)[1] = x
<1> DEFINE S == ToSet(items) \union {x}
           all == <<x>> \o items
<1>1. <<x>> \in Seq(S) /\ items \in Seq(S) /\ Len(<<x>>) = 1 /\ Len(items) \in Nat
  BY DEF IsList
<1>2. /\ all \in Seq(S) /\ Len(all) = 1 + Len(items)
      /\ all[1] = x /\ \A i \in 1 .. Len(items) : all[i + 1] = items[i]
  BY <1>1, ConcatProperties
<1> HIDE DEF all, S
<1>3. all # <<>>
  BY <1>1, <1>2
<1>4. /\ Tail(all) \in Seq(S) /\ Len(Tail(all)) = Len(items)
      /\ \A i \in 1 .. Len(items) : Tail(all)[i] = items[i]
  BY <1>1, <1>2, <1>3, HeadTailProperties
<1>5. Tail(all) = items
  <2> DEFINE t == Tail(all)
  <2>1. t \in Seq(S) /\ Len(t) = Len(items) /\ \A i \in 1 .. Len(items) : t[i] = items[i]
    BY <1>4
  <2> HIDE DEF t
  <2>2. t = items
    BY <1>1, <2>1, SeqEqual
  <2>3. QED  BY <2>2 DEF t
<1>6. QED  BY <1>2, <1>3, <1>5 DEF all

LEMMA TableIs ==
  ASSUME NEW columns, NEW rows, IsList(rows), NEW table, table = NewTable(columns, rows)
  PROVE  /\ table.children # <<>> /\ table.children[1].children = columns
         /\ Columns(table) = [i \in DOMAIN columns |-> DefinedCategory(columns[i])]
         /\ RowNodes(table) = rows /\ RowCount(table) = Len(rows)
         /\ RowSlice(table, 0, RowCount(table)) = rows /\ AllRows(table) = ToSet(rows)
<1> DEFINE header == Node(NoProperties, columns)
<1>1. table.children = <<header>> \o rows
  BY DEF NewTable, Node
<1>2. header.children = columns
  BY DEF Node
<1> HIDE DEF header
<1>3. table.children # <<>> /\ table.children[1] = header /\ Tail(table.children) = rows
  BY <1>1, TailOf
<1>4. RowNodes(table) = rows /\ RowCount(table) = Len(rows)
  BY <1>3 DEF RowNodes, RowCount
<1>5. Columns(table) = [i \in DOMAIN columns |-> DefinedCategory(columns[i])]
  BY <1>2, <1>3 DEF Columns
<1>6. RowSlice(table, 0, RowCount(table)) = rows
  <2>1. RowSlice(table, 0, RowCount(table)) = SubSeq(rows, 1, Len(rows))
    BY <1>4 DEF RowSlice, IsList
  <2>2. SubSeq(rows, 1, Len(rows)) = rows
    BY SubSeqFull DEF IsList
  <2>3. QED  BY <2>1, <2>2
<1>7. QED  BY <1>2, <1>3, <1>4, <1>5, <1>6 DEF AllRows

\* A column's header names it.
LEMMA ColumnIs ==
  ASSUME NEW id
  PROVE  DefinesCategory(Column(id)) /\ DefinedCategory(Column(id)) = id
<1> DEFINE bare == Property("category_defined_id", id)
<1>1. "category_defined_id" \in DOMAIN bare /\ bare["category_defined_id"] = id
  BY DEF Property
<1>2. Column(id).properties = bare
  BY DEF Column, Node, Define
<1> HIDE DEF bare
<1>3. QED  BY <1>1, <1>2 DEF DefinesCategory, DefinedCategory, Has

\* A row of one cell.
LEMMA OneCellOf ==
  ASSUME NEW cell, NEW column, TagsOf(cell.properties) = <<column>>,
         NEW row, row.children = <<cell>>
  PROVE  CellOf(row, column) = CellValue(cell)
<1> DEFINE tagged == {i \in DOMAIN row.children : TagsOf(row.children[i].properties) = <<column>>}
           latest(i) == \A j \in tagged : j <= i
<1>1. DOMAIN row.children = {1} /\ row.children[1] = cell
  OBVIOUS
<1>2. tagged = {1}
  BY <1>1
<1> HIDE DEF tagged
<1>3. (CHOOSE i \in tagged : latest(i)) = 1
  BY <1>2
<1>4. CellOf(row, column) = IF tagged = {} THEN <<>> ELSE CellValue(row.children[CHOOSE i \in tagged : latest(i)])
  BY DEF CellOf, tagged
<1> HIDE DEF latest
<1>5. QED  BY <1>1, <1>2, <1>3, <1>4

-----------------------------------------------------------------------------
(* The table of events *)

LEMMA EventRowIs ==
  ASSUME NEW e, NEW row, row = EventRow(e)
  PROVE  /\ row.properties["timestamp"] = e.time
         /\ CellOf(row, "event_format") = <<Event(e)>>
         /\ \A cell \in ToSet(row.children) :
              /\ TagsOf(cell.properties) = <<"event_format">> /\ cell.children = <<>>
              /\ Has(cell, "table_formatted_cell") /\ cell.properties["table_formatted_cell"] = EventFormat
              /\ \A i \in DOMAIN EventFormat : Has(cell, EventFormat[i])
<1> DEFINE source == <<e.file, e.line>>
           properties == [timestamp |-> e.time, level_name |-> e.level, source_loc_name |-> source,
                          message |-> e.words]
           cell == FormattedCell("event_format", EventFormat, properties)
           spelled == [i \in DOMAIN EventFormat |-> properties[EventFormat[i]]]
<1>1. row.children = <<cell>> /\ row.properties["timestamp"] = e.time
  BY DEF EventRow, Row, Node
<1>2. DOMAIN EventFormat = 1 .. 4
  BY DEF EventFormat
<1>3. \A i \in DOMAIN EventFormat : EventFormat[i] \in DOMAIN properties
  BY DEF EventFormat
<1>4. "category_ids" \notin DOMAIN properties /\ "table_formatted_cell" \notin DOMAIN properties
  OBVIOUS
<1>5. spelled = Event(e)
  <2>1. spelled[1] = e.level /\ spelled[2] = e.time /\ spelled[3] = source /\ spelled[4] = e.words
    BY <1>2 DEF EventFormat
  <2>2. spelled = [i \in 1 .. 4 |-> spelled[i]]
    BY <1>2
  <2> HIDE DEF spelled, source
  <2>3. spelled = <<e.level, e.time, source, e.words>>
    BY <2>1, <2>2
  <2>4. QED  BY <2>3 DEF Event, source
<1> HIDE DEF properties
<1>6. /\ TagsOf(cell.properties) = <<"event_format">> /\ cell.children = <<>>
      /\ Has(cell, "table_formatted_cell") /\ cell.properties["table_formatted_cell"] = EventFormat
      /\ \A i \in DOMAIN EventFormat : Has(cell, EventFormat[i])
      /\ CellValue(cell) = <<spelled>>
  <2> DEFINE column == "event_format"
             keysOf == EventFormat
  <2>1. /\ \A i \in DOMAIN keysOf : keysOf[i] \in DOMAIN properties
        /\ cell = FormattedCell(column, keysOf, properties)
        /\ spelled = [i \in DOMAIN keysOf |-> properties[keysOf[i]]]
    BY <1>3
  <2> HIDE DEF column, keysOf, cell, spelled
  <2>2. /\ TagsOf(cell.properties) = <<column>> /\ cell.children = <<>>
        /\ Has(cell, "table_formatted_cell") /\ cell.properties["table_formatted_cell"] = keysOf
        /\ \A i \in DOMAIN keysOf : Has(cell, keysOf[i])
        /\ CellValue(cell) = <<spelled>>
    BY <1>4, <2>1, FormattedCellIs
  <2>3. QED  BY <2>2 DEF column, keysOf
<1> HIDE DEF cell, spelled
<1>7. CellOf(row, "event_format") = <<Event(e)>>
  BY <1>1, <1>5, <1>6, OneCellOf
<1>8. ToSet(row.children) = {cell}
  BY <1>1 DEF ToSet
<1>9. QED  BY <1>1, <1>6, <1>7, <1>8

LEMMA EventsAreShown ==
  ASSUME NEW found, NEW entries, NEW selected, Lists(found.entries, entries, selected),
         NEW query, NEW wanted, wanted = {i \in selected : Found(query.search, entries[i].words)},
         EventsOf(found, query).kind = "ok"
  PROVE  ShowsEvents(EventsOf(found, query).what, entries, wanted)
<1> DEFINE A == {i \in DOMAIN found.entries : Found(query.search, found.entries[i].words)}
           matching == At(found.entries, A)
           rows == [i \in DOMAIN matching |-> EventRow(matching[i])]
           columns == <<Column("event_format")>>
           table == NewTable(columns, rows)
<1>1. Lists(matching, entries, wanted)
  <2>1. A \in SUBSET DOMAIN found.entries /\ wanted \in SUBSET selected
    OBVIOUS
  <2>2. SameOnes(found.entries, entries, selected, A, wanted)
    BY DEF SameOnes
  <2> HIDE DEF A
  <2>3. QED  BY <2>1, <2>2, SelectedAreListed
<1>2. EventsOf(found, query).what = table
  <2>1. EventsOf(found, query) =
          CASE query.search = BadRegex -> Failure("error")
            [] query.search # BadRegex /\ found.crash -> Failure("panic")
            [] OTHER -> Answered(table)
    BY DEF EventsOf
  <2> HIDE DEF table
  <2>2. Failure("error").kind = "error" /\ Failure("panic").kind = "panic" /\ Answered(table).what = table
    BY DEF Failure, Answered
  <2>3. QED  BY <2>1, <2>2
<1> HIDE DEF A, matching
<1>3. Len(matching) \in Nat /\ DOMAIN matching = 1 .. Len(matching)
  BY <1>1, ListsThem
<1>4. DOMAIN rows = DOMAIN matching /\ \A i \in DOMAIN rows : rows[i] = EventRow(matching[i])
  OBVIOUS
<1>5. IsList(rows)
  <2> DEFINE n == Len(matching)
  <2>1. n \in Nat /\ rows = [i \in 1 .. n |-> rows[i]]
    BY <1>3
  <2>2. \A i \in 1 .. n : rows[i] \in ToSet(rows)
    BY <1>3 DEF ToSet
  <2> HIDE DEF n, rows
  <2>3. rows \in Seq(ToSet(rows))
    BY <2>1, <2>2
  <2>4. QED  BY <2>3 DEF IsList
<1> HIDE DEF rows, table
<1>6. /\ table.children # <<>> /\ table.children[1].children = columns
      /\ Columns(table) = [i \in DOMAIN columns |-> DefinedCategory(columns[i])]
      /\ RowNodes(table) = rows /\ RowCount(table) = Len(rows)
      /\ RowSlice(table, 0, RowCount(table)) = rows
  BY <1>5, TableIs DEF table
<1>7. \A i \in DOMAIN rows : /\ rows[i].properties["timestamp"] = matching[i].time
                             /\ CellOf(rows[i], "event_format") = <<Event(matching[i])>>
  BY <1>4, EventRowIs
<1>8. ToSet(Columns(table)) = {"event_format"} /\ \A h \in ToSet(columns) : DefinesCategory(h)
  <2>1. DOMAIN columns = {1} /\ columns[1] = Column("event_format")
    OBVIOUS
  <2>2. DefinesCategory(Column("event_format")) /\ DefinedCategory(Column("event_format")) = "event_format"
    BY ColumnIs
  <2> HIDE DEF columns
  <2>3. QED  BY <1>6, <2>1, <2>2 DEF ToSet
<1>9. IsTable(table)
  <2>1. ASSUME NEW row \in ToSet(rows), NEW cell \in ToSet(row.children)
        PROVE  /\ TagsAreKnown(ToSet(Columns(table)), cell)
               /\ Len(TagsOf(cell.properties)) <= 1
               /\ cell.children = <<>>
               /\ Has(cell, "table_formatted_cell") =>
                    \A key \in ToSet(cell.properties["table_formatted_cell"]) : Has(cell, key)
    <3>1. PICK e : row = EventRow(e)
      BY <1>4 DEF ToSet
    <3>2. /\ TagsOf(cell.properties) = <<"event_format">> /\ cell.children = <<>>
          /\ cell.properties["table_formatted_cell"] = EventFormat
          /\ \A i \in DOMAIN EventFormat : Has(cell, EventFormat[i])
      BY <3>1, EventRowIs
    <3>3. \A key \in ToSet(EventFormat) : Has(cell, key)
      BY <3>2 DEF ToSet
    <3>4. TagsAreKnown(ToSet(Columns(table)), cell)
      BY <1>8, <3>2 DEF TagsAreKnown
    <3>5. QED  BY <3>2, <3>3, <3>4
  <2>2. QED  BY <1>6, <1>8, <2>1 DEF IsTable
<1>10. TimeOrdered([i \in DOMAIN rows |-> [time |-> rows[i].properties["timestamp"]]])
  BY <1>1, <1>4, <1>7 DEF TimeOrdered, Lists
<1>11. \E spelled \in Bijection(DOMAIN rows, wanted) :
         \A i \in DOMAIN rows : CellOf(rows[i], "event_format") = <<Event(entries[spelled[i]])>>
  <2>1. PICK order \in Bijection(DOMAIN matching, wanted) : \A i \in DOMAIN matching : matching[i] = entries[order[i]]
    BY <1>1 DEF Lists
  <2>2. order \in Bijection(DOMAIN rows, wanted)
    BY <1>4, <2>1
  <2>3. \A i \in DOMAIN rows : CellOf(rows[i], "event_format") = <<Event(entries[order[i]])>>
    BY <1>4, <1>7, <2>1
  <2>4. QED  BY <2>2, <2>3
<1>12. ShowsEvents(table, entries, wanted)
  BY <1>6, <1>9, <1>10, <1>11 DEF ShowsEvents
<1>13. QED  BY <1>2, <1>12

-----------------------------------------------------------------------------
(* Axes, and the trace *)

LEMMA AxisIs ==
  ASSUME NEW type, NEW id, NEW extents, NEW node, node.properties = NewAxis(type, id, extents)
  PROVE  /\ type \in AxisTypes => IsAxis(node)
         /\ GetAxis(node).id = id /\ GetAxis(node).min = Min(extents) /\ GetAxis(node).max = Max(extents)
<1> DEFINE least == Min(extents)
           most == Max(extents)
           p == Define(id)
           p1 == With(p, Property("axis_type", type))
           p2 == With(p1, Property("axis_min", least))
           p3 == With(p2, Property("axis_max", most))
<1>1. node.properties = p3
  BY DEF NewAxis
<1>2. (\A k : k \in DOMAIN p <=> k = "category_defined_id") /\ p["category_defined_id"] = id
  BY DEF Define, Property
<1> HIDE DEF p, least, most
<1>3. /\ \A k : k \in DOMAIN p1 <=> k \in DOMAIN p \/ k = "axis_type"
      /\ p1["axis_type"] = type
      /\ \A k \in DOMAIN p : k # "axis_type" => p1[k] = p[k]
  BY AddedProperty
<1> HIDE DEF p1
<1>4. /\ \A k : k \in DOMAIN p2 <=> k \in DOMAIN p1 \/ k = "axis_min"
      /\ p2["axis_min"] = least
      /\ \A k \in DOMAIN p1 : k # "axis_min" => p2[k] = p1[k]
  BY AddedProperty
<1> HIDE DEF p2
<1>5. /\ \A k : k \in DOMAIN p3 <=> k \in DOMAIN p2 \/ k = "axis_max"
      /\ p3["axis_max"] = most
      /\ \A k \in DOMAIN p2 : k # "axis_max" => p3[k] = p2[k]
  BY AddedProperty
<1> HIDE DEF p3
<1>6. /\ {"category_defined_id", "axis_type", "axis_min", "axis_max"} \subseteq DOMAIN p3
      /\ p3["category_defined_id"] = id /\ p3["axis_type"] = type
      /\ p3["axis_min"] = least /\ p3["axis_max"] = most
  BY <1>2, <1>3, <1>4, <1>5
<1>7. type \in AxisTypes => IsAxis(node)
  BY <1>1, <1>6 DEF IsAxis, Has, DefinesCategory
<1>8. GetAxis(node) = [type |-> type, id |-> id, min |-> least, max |-> most]
  BY <1>1, <1>6 DEF GetAxis, DefinedCategory
<1>9. QED  BY <1>7, <1>8 DEF least, most

LEMMA MinMaxOfTwo ==
  ASSUME NEW a \in Int, NEW b \in Int
  PROVE  /\ Min({a, b}) \in {a, b} /\ Min({a, b}) <= a /\ Min({a, b}) <= b
         /\ Max({a, b}) \in {a, b} /\ Max({a, b}) >= a /\ Max({a, b}) >= b
<1> DEFINE S == {a, b}
           least(x) == \A y \in S : x <= y
           most(x) == \A y \in S : x >= y
<1>1. (\E x \in S : least(x)) /\ (\E x \in S : most(x))
  <2>1. a <= b \/ b <= a
    OBVIOUS
  <2>2. QED  BY <2>1
<1>2. least(Min(S)) /\ Min(S) \in S
  <2>1. Min(S) = CHOOSE x \in S : least(x)
    BY DEF Min
  <2> HIDE DEF S, least
  <2>2. QED  BY <1>1, <2>1
<1>3. most(Max(S)) /\ Max(S) \in S
  <2>1. Max(S) = CHOOSE x \in S : most(x)
    BY DEF Max
  <2> HIDE DEF S, most
  <2>2. QED  BY <1>1, <2>1
<1>4. QED  BY <1>2, <1>3

\* What a query for the trace adds to its root, one entry after another.
Tree(entries) == [entries |-> entries, children |-> {}]
Grown(items, n) == Tree(SubSeq(items, 1, n))

LEMMA TreeWith ==
  ASSUME NEW old, NEW items
  PROVE  [Tree(old) EXCEPT !.entries = items] = Tree(items)
<1> DEFINE r == [entries |-> old, children |-> {}]
<1>1. [r EXCEPT !.entries = items] = [entries |-> items, children |-> {}]
  OBVIOUS
<1>2. QED  BY <1>1 DEF Tree

LEMMA GrowsBy ==
  ASSUME NEW items, IsList(items), NEW n \in 0 .. Len(items) - 1
  PROVE  AddToTree(Grown(items, n), items[n + 1]) = Grown(items, n + 1)
<1> DEFINE s == SubSeq(items, 1, n)
           t == SubSeq(items, 1, n + 1)
           S == ToSet(items)
           x == items[n + 1]
<1>1. items \in Seq(S) /\ Len(items) \in Nat /\ DOMAIN items = 1 .. Len(items) /\ n \in Nat
  BY DEF IsList
<1>2. /\ s \in Seq(S) /\ Len(s) = n /\ \A i \in 1 .. n : s[i] = items[i]
  <2>1. \A i \in 1 .. n : items[i] \in S
    BY <1>1 DEF ToSet
  <2>2. QED  BY <1>1, <2>1, SubSeqProperties
<1>3. /\ t \in Seq(S) /\ Len(t) = n + 1 /\ \A i \in 1 .. n + 1 : t[i] = items[i]
  <2>1. \A i \in 1 .. n + 1 : items[i] \in S
    BY <1>1 DEF ToSet
  <2>2. QED  BY <1>1, <2>1, SubSeqProperties
<1>4. x \in S
  BY <1>1 DEF ToSet
<1>5. n + 1 \in 1 .. n + 1 /\ t[n + 1] = x
  BY <1>1, <1>3
<1> HIDE DEF s, t, S, x
<1>6. Append(s, x) = t
  <2> DEFINE u == Append(s, x)
  <2>1. /\ u \in Seq(S) /\ Len(u) = n + 1 /\ u[n + 1] = x
        /\ \A i \in 1 .. n : u[i] = s[i]
    BY <1>1, <1>2, <1>4, AppendProperties
  <2>2. \A i \in 1 .. n + 1 : i = n + 1 \/ (i \in 1 .. n /\ s[i] = t[i])
    BY <1>1, <1>2, <1>3
  <2> HIDE DEF u
  <2>3. u = t
    <3>1. \A i \in 1 .. n + 1 : u[i] = t[i]
      BY <1>5, <2>1, <2>2
    <3>2. QED  BY <1>3, <2>1, <3>1, SeqEqual
  <2>4. QED  BY <2>3 DEF u
<1>7. AddToTree(Tree(s), x) = [Tree(s) EXCEPT !.entries = t]
  <2>1. Tree(s).entries = s
    BY DEF Tree
  <2>2. QED  BY <1>6, <2>1 DEF AddToTree
<1>8. [Tree(s) EXCEPT !.entries = t] = Tree(t)
  BY TreeWith
<1>9. QED  BY <1>7, <1>8 DEF Grown, s, t, x

IsTreeOf(items, tree) ==
  tree = [n \in 0 .. Len(items) |-> IF n = 0 THEN [entries |-> <<>>, children |-> {}]
                                    ELSE AddToTree(tree[n - 1], items[n])]

LEMMA SomeTree ==
  ASSUME NEW items, IsList(items)
  PROVE  \E tree : IsTreeOf(items, tree)
<1> DEFINE tree == [n \in 0 .. Len(items) |-> Grown(items, n)]
           step(n) == IF n = 0 THEN [entries |-> <<>>, children |-> {}] ELSE AddToTree(tree[n - 1], items[n])
<1>1. Len(items) \in Nat
  BY DEF IsList
<1>2. ASSUME NEW n \in 0 .. Len(items)
      PROVE  Grown(items, n) = step(n)
  <2>1. CASE n = 0
    <3>1. SubSeq(items, 1, 0) = <<>>
      BY SubSeqEmpty
    <3>2. QED  BY <2>1, <3>1 DEF Grown, Tree
  <2>2. CASE n # 0
    <3> DEFINE m == n - 1
    <3>1. m \in 0 .. Len(items) - 1 /\ m \in 0 .. Len(items) /\ n = m + 1
      BY <1>1, <2>2
    <3>2. step(n) = AddToTree(Grown(items, m), items[n])
      BY <2>2, <3>1
    <3> HIDE DEF m, step
    <3>3. AddToTree(Grown(items, m), items[m + 1]) = Grown(items, m + 1)
      BY <3>1, GrowsBy
    <3>4. QED  BY <3>1, <3>2, <3>3
  <2>3. QED  BY <2>1, <2>2
<1>3. tree = [n \in 0 .. Len(items) |-> step(n)]
  <2> HIDE DEF step
  <2>1. QED  BY <1>2
<1>4. QED  BY <1>3 DEF IsTreeOf

LEMMA AnyTree ==
  ASSUME NEW items, IsList(items), NEW tree, IsTreeOf(items, tree)
  PROVE  tree[Len(items)] = Tree(items)
<1> DEFINE last == Len(items)
           T == {n \in 0 .. last : tree[n] = Grown(items, n)}
           step(n) == IF n = 0 THEN [entries |-> <<>>, children |-> {}] ELSE AddToTree(tree[n - 1], items[n])
<1>1. last \in Nat
  BY DEF IsList
<1>2. \A n \in 0 .. last : tree[n] = step(n)
  <2>1. tree = [n \in 0 .. last |-> step(n)]
    BY DEF IsTreeOf
  <2> HIDE DEF step, last
  <2>2. QED  BY <2>1
<1>3. 0 \in T
  <2>1. SubSeq(items, 1, 0) = <<>>
    BY SubSeqEmpty
  <2>2. 0 \in 0 .. last
    BY <1>1
  <2>3. tree[0] = Tree(<<>>)
    BY <1>2, <2>2 DEF Tree
  <2>4. QED  BY <2>1, <2>2, <2>3 DEF Grown
<1>4. ASSUME NEW n \in 0 .. last - 1, n \in T
      PROVE  n + 1 \in T
  <2> DEFINE m == n + 1
  <2>1. m \in 0 .. last /\ m # 0 /\ m - 1 = n
    BY <1>1
  <2> HIDE DEF m
  <2>2. tree[m] = AddToTree(tree[n], items[m])
    <3>1. tree[m] = AddToTree(tree[m - 1], items[m])
      BY <1>2, <2>1
    <3>2. QED  BY <2>1, <3>1
  <2>3. tree[n] = Grown(items, n)
    BY <1>4
  <2>4. AddToTree(Grown(items, n), items[m]) = Grown(items, m)
    BY GrowsBy DEF m
  <2>5. m \in T
    BY <2>1, <2>2, <2>3, <2>4
  <2>6. QED  BY <2>5 DEF m
<1>5. last \in T
  <2> HIDE DEF T, last
  <2>1. QED  BY <1>1, <1>3, <1>4, Induction
<1>6. SubSeq(items, 1, last) = items
  BY SubSeqFull DEF IsList
<1>7. QED  BY <1>5, <1>6 DEF Grown

LEMMA TreeAdded ==
  ASSUME NEW found, IsList(found.entries), TreeOf(found).kind = "ok"
  PROVE  /\ found.entries # <<>>
         /\ TreeOf(found).what.properties =
              NewAxis("timestamp", "x_axis",
                      {found.entries[1].time, found.entries[Len(found.entries)].time})
<1> DEFINE items == found.entries
           added == CHOOSE tree : IsTreeOf(items, tree)
           root == added[Len(items)]
           extents == {root.entries[1].time, root.entries[Len(root.entries)].time}
           node == Node(NewAxis("timestamp", "x_axis", extents), SetToSeq(root.children))
<1>1. TreeOf(found) = CASE found.crash -> Failure("panic")
                        [] ~found.crash /\ root.entries = <<>> -> Failure("error")
                        [] OTHER -> Answered(node)
  BY DEF TreeOf, IsTreeOf
<1>2. root = Tree(items)
  <2>1. IsTreeOf(items, added)
    BY SomeTree
  <2>2. QED  BY <2>1, AnyTree
<1>3. Failure("error").kind = "error" /\ Failure("panic").kind = "panic" /\ Answered(node).what = node
  BY DEF Failure, Answered
<1>4. node.properties = NewAxis("timestamp", "x_axis", extents)
  BY DEF Node
<1> HIDE DEF node, root
<1>5. root.entries # <<>> /\ TreeOf(found).what = node
  BY <1>1, <1>3
<1>6. root.entries = items
  BY <1>2 DEF Tree
<1>7. QED  BY <1>4, <1>5, <1>6

LEMMA TraceIsSpanned ==
  ASSUME NEW found, NEW entries, NEW selected, Lists(found.entries, entries, selected),
         \A i \in selected : entries[i].time \in Int,
         TreeOf(found).kind = "ok"
  PROVE  SpansTrace(GetAxis(TreeOf(found).what), entries, selected)
<1> DEFINE items == found.entries
           last == Len(items)
           axis == GetAxis(TreeOf(found).what)
           early == items[1].time
           late == items[last].time
           ends == {early, late}
<1>1. IsList(items)
  BY DEF Lists
<1>2. items # <<>> /\ axis.min = Min(ends) /\ axis.max = Max(ends)
  <2>1. items # <<>> /\ TreeOf(found).what.properties = NewAxis("timestamp", "x_axis", ends)
    BY <1>1, TreeAdded
  <2> HIDE DEF ends
  <2>2. QED  BY <2>1, AxisIs
<1>3. /\ last \in Nat \ {0} /\ DOMAIN items = 1 .. last
      /\ \A i \in 1 .. last : \E p \in selected : items[i] = entries[p]
      /\ \A p \in selected : \E i \in 1 .. last : items[i] = entries[p]
      /\ \A i, j \in 1 .. last : i < j => items[i].time <= items[j].time
  <2>1. last \in Nat \ {0}
    BY <1>1, <1>2 DEF IsList
  <2>2. DOMAIN items = 1 .. last
    BY <1>1 DEF IsList
  <2>3. \A i \in DOMAIN items : \E p \in selected : items[i] = entries[p]
    BY ListsThem
  <2>4. \A p \in selected : \E i \in DOMAIN items : items[i] = entries[p]
    BY ListsThem
  <2>5. \A i, j \in DOMAIN items : i < j => items[i].time <= items[j].time
    BY DEF Lists, TimeOrdered
  <2> HIDE DEF last, items
  <2>6. QED  BY <2>1, <2>2, <2>3, <2>4, <2>5
<1> HIDE DEF last, axis, items
<1>4. 1 \in 1 .. last /\ last \in 1 .. last
  BY <1>3
<1>5. \A i \in 1 .. last : items[i].time \in Int
  BY <1>3
<1>6. early \in Int /\ late \in Int
  BY <1>4, <1>5
<1>7. axis.min \in ends /\ axis.max \in ends /\ axis.min <= early /\ axis.max >= late
  BY <1>2, <1>6, MinMaxOfTwo
<1>8. ASSUME NEW i \in 1 .. last
      PROVE  early <= items[i].time /\ items[i].time <= late
  <2>1. i = 1 \/ 1 < i
    BY <1>3
  <2>2. i = last \/ i < last
    BY <1>3
  <2>3. early <= items[i].time
    BY <1>3, <1>4, <1>5, <2>1
  <2>4. items[i].time <= late
    BY <1>3, <1>4, <1>5, <2>2
  <2>5. QED  BY <2>3, <2>4
<1>9. axis.min \in Int /\ axis.max \in Int
  BY <1>6, <1>7
<1> HIDE DEF early, late
<1>10. ASSUME NEW p \in selected
       PROVE  AxisContains(axis, entries[p].time)
  <2>1. PICK i \in 1 .. last : items[i] = entries[p]
    BY <1>3
  <2> DEFINE time == items[i].time
  <2>2. time \in Int /\ early <= time /\ time <= late
    BY <1>5, <1>8, <2>1
  <2>3. entries[p].time = time
    BY <2>1
  <2> HIDE DEF time
  <2>4. axis.min <= time /\ time <= axis.max
    BY <1>6, <1>7, <1>9, <2>2
  <2>5. QED  BY <2>3, <2>4 DEF AxisContains
<1>11. {axis.min, axis.max} \subseteq {entries[p].time : p \in selected}
  <2>1. early \in {entries[p].time : p \in selected} /\ late \in {entries[p].time : p \in selected}
    BY <1>3, <1>4 DEF early, late
  <2>2. QED  BY <1>7, <2>1
<1>12. QED  BY <1>10, <1>11 DEF SpansTrace, axis

-----------------------------------------------------------------------------
(* Sets in some order, and extents *)

LEMMA SetListed ==
  ASSUME NEW S, IsFiniteSet(S)
  PROVE  /\ IsList(SetToSeq(S)) /\ Len(SetToSeq(S)) = Cardinality(S) /\ ToSet(SetToSeq(S)) = S
         /\ Cardinality(S) \in Nat
<1> DEFINE n == Cardinality(S)
           D == 1 .. n
           list == SetToSeq(S)
<1>1. n \in Nat /\ ExistsBijection(D, S)
  BY FS_CardinalityType
<1>2. PICK f : f \in Bijection(D, S)
  BY <1>1 DEF ExistsBijection
<1>3. f \in [D -> S] /\ IsInjective(f)
  <2> HIDE DEF D
  <2>1. QED  BY <1>2 DEF Bijection, Injection
<1>4. list \in [D -> S] /\ IsInjective(list)
  BY <1>3 DEF SetToSeq
<1>5. IsFiniteSet(D) /\ Cardinality(D) = n
  BY <1>1, FS_Interval
<1> HIDE DEF D, list
<1>6. list \in Injection(D, S)
  BY <1>4 DEF Injection
<1>7. list \in Surjection(D, S)
  BY <1>5, <1>6, FS_Injection, Zenon DEF n
<1>8. \A s \in S : \E i \in D : list[i] = s
  BY <1>7 DEF Surjection
<1>9. D = 1 .. n
  BY DEF D
<1> HIDE DEF n
<1>10. list \in Seq(S) /\ Len(list) = n /\ DOMAIN list = D
  BY <1>1, <1>4, <1>9
<1>11. ToSet(list) = S
  BY <1>4, <1>8, <1>10 DEF ToSet
<1>12. QED  BY <1>1, <1>10, <1>11 DEF n, list, IsList

\* The values of a function on a finite set.
LEMMA ValuesFinite ==
  ASSUME NEW S, IsFiniteSet(S), NEW f, NEW T, \A t : t \in T <=> \E s \in S : t = f[s]
  PROVE  /\ IsFiniteSet(T)
         /\ (\A a, b \in S : f[a] = f[b] => a = b) => Cardinality(T) = Cardinality(S)
<1> DEFINE g == [s \in S |-> f[s]]
<1>1. g \in [S -> T] /\ \A s \in S : g[s] = f[s]
  OBVIOUS
<1> HIDE DEF g
<1>2. g \in Surjection(S, T)
  BY <1>1 DEF Surjection
<1>3. IsFiniteSet(T)
  BY <1>2, FS_Surjection, Zenon
<1>4. ASSUME \A a, b \in S : f[a] = f[b] => a = b
      PROVE  Cardinality(T) = Cardinality(S)
  <2>1. \A a, b \in S : g[a] = g[b] => a = b
    BY <1>1, <1>4
  <2>2. g \in Injection(S, T)
    BY <1>1, <2>1 DEF Injection, IsInjective
  <2>3. g \in Bijection(S, T)
    BY <1>2, <2>2 DEF Bijection
  <2>4. QED  BY <2>3, AsMany
<1>5. QED  BY <1>3, <1>4

LEMMA BoundedExtents ==
  ASSUME NEW n \in Nat, NEW S \in SUBSET (0 .. n), S # {}
  PROVE  \A y \in S : Min(S) <= y /\ y <= Max(S)
<1> DEFINE least(x) == \A y \in S : x <= y
           most(x) == \A y \in S : x >= y
           upper == {x \in 0 .. n : \A y \in S : y <= x}
<1>1. \E x \in S : least(x)
  <2>1. S \subseteq Nat
    OBVIOUS
  <2>2. \E x \in S : \A y \in S : x <= y
    BY <2>1, LeastNatural
  <2>3. QED  BY <2>2
<1>2. \E x \in S : most(x)
  <2>1. n \in upper
    OBVIOUS
  <2>2. PICK top \in upper : \A y \in upper : top <= y
    <3>1. upper \subseteq Nat /\ upper # {}
      BY <2>1
    <3> HIDE DEF upper
    <3>2. QED  BY <3>1, LeastNatural
  <2>3. top \in S
    <3>1. SUFFICES ASSUME top \notin S
                   PROVE  FALSE
      OBVIOUS
    <3>2. PICK s \in S : TRUE
      OBVIOUS
    <3>3. s < top
      BY <2>2, <3>1
    <3>4. top - 1 \in 0 .. n
      BY <2>2, <3>3
    <3>5. \A y \in S : y <= top - 1
      BY <2>2, <3>1
    <3>6. top - 1 \in upper
      BY <3>4, <3>5
    <3>7. top <= top - 1
      BY <2>2, <3>6
    <3>8. QED  BY <2>2, <3>7
  <2>4. QED  BY <2>2, <2>3
<1>3. Min(S) = CHOOSE x \in S : least(x)
  BY DEF Min
<1>4. Max(S) = CHOOSE x \in S : most(x)
  BY DEF Max
<1> HIDE DEF least, most
<1>5. least(Min(S)) /\ most(Max(S))
  BY <1>1, <1>2, <1>3, <1>4
<1>6. Min(S) \in S /\ Max(S) \in S
  BY <1>1, <1>2, <1>3, <1>4
<1>7. QED  BY <1>5, <1>6 DEF least, most

LEMMA NextProduct ==
  ASSUME NEW a \in Int, NEW b \in Int
  PROVE  (a + 1) * b = a * b + b
OBVIOUS

\* A bin is as wide as its width, and the bins of a range are in it.
LEMMA BinHolds ==
  ASSUME NEW width \in Nat \ {0}, NEW since \in Nat, NEW b \in Nat
  PROVE  (Quotient(since, width) = b) <=> (b * width <= since /\ since < b * width + width)
<1> DEFINE q == since \div width
<1>1. Quotient(since, width) = q
  BY DEF Quotient
<1>2. q \in Nat /\ since < (q + 1) * width /\ q * width <= since
  BY Division
<1> HIDE DEF q
<1>3. (q + 1) * width = q * width + width /\ (b + 1) * width = b * width + width
  BY <1>2, NextProduct
<1>4. q <= b - 1 => (q + 1) * width <= b * width
  <2>1. ASSUME q <= b - 1
        PROVE  (q + 1) * width <= b * width
    <3> DEFINE x == q + 1
    <3>1. x \in Nat /\ x <= b
      BY <1>2, <2>1
    <3> HIDE DEF x
    <3>2. x * width <= b * width
      BY <3>1, Products
    <3>3. QED  BY <3>2 DEF x
  <2>2. QED  BY <2>1
<1>5. b <= q - 1 => (b + 1) * width <= q * width
  <2>1. ASSUME b <= q - 1
        PROVE  (b + 1) * width <= q * width
    <3> DEFINE x == b + 1
    <3>1. x \in Nat /\ x <= q
      BY <1>2, <2>1
    <3> HIDE DEF x
    <3>2. x * width <= q * width
      BY <1>2, <3>1, Products
    <3>3. QED  BY <3>2 DEF x
  <2>2. QED  BY <2>1
<1> DEFINE qw == q * width
           bw == b * width
<1>6. qw \in Nat /\ bw \in Nat
  BY <1>2
<1>7. /\ since < qw + width /\ qw <= since
      /\ q <= b - 1 => qw + width <= bw
      /\ b <= q - 1 => bw + width <= qw
      /\ q = b => qw = bw
  BY <1>2, <1>3, <1>4, <1>5
<1> HIDE DEF qw, bw
<1>8. q = b \/ q <= b - 1 \/ b <= q - 1
  BY <1>2
<1>9. (q = b) <=> (bw <= since /\ since < bw + width)
  BY <1>2, <1>6, <1>7, <1>8
<1>10. QED  BY <1>1, <1>9 DEF bw

LEMMA BinsFit ==
  ASSUME NEW total \in Nat, NEW bins \in Nat, bins > 1, NEW b \in 0 .. bins - 1
  PROVE  Quotient(total, bins - 1) \in Nat /\ b * Quotient(total, bins - 1) \in 0 .. total
<1> DEFINE m == bins - 1
           width == total \div m
<1>1. m \in Nat \ {0} /\ b \in Nat /\ b <= m
  OBVIOUS
<1>2. Quotient(total, m) = width
  BY DEF Quotient
<1> HIDE DEF m
<1>3. width \in Nat /\ width * m <= total
  BY <1>1, Division
<1> HIDE DEF width
<1>4. b * width \in Nat /\ m * width \in Nat /\ b * width <= m * width
  BY <1>1, <1>3, Products
<1>5. m * width = width * m
  BY <1>1, <1>3
<1> DEFINE bw == b * width
           mw == m * width
<1>6. bw \in Nat /\ mw \in Nat /\ bw <= mw /\ mw <= total
  BY <1>3, <1>4, <1>5
<1> HIDE DEF bw, mw
<1>7. bw \in 0 .. total
  BY <1>6
<1>8. QED  BY <1>2, <1>3, <1>7 DEF bw, m

-----------------------------------------------------------------------------
(* The chart *)

LEMMA PairSet ==
  ASSUME NEW x, NEW y
  PROVE  ToSet(<<x, y>>) = {x, y} /\ Len(<<x, y>>) = 2
<1>1. DOMAIN <<x, y>> = {1, 2} /\ <<x, y>>[1] = x /\ <<x, y>>[2] = y
  OBVIOUS
<1>2. QED  BY <1>1 DEF ToSet

LEMMA ChartIs ==
  ASSUME NEW xAxis, NEW x, x = Node(xAxis, <<>>), NEW yAxis, NEW y, y = Node(yAxis, <<>>),
         NEW series, IsList(series), NEW chart, chart = NewChart(xAxis, yAxis, series)
  PROVE  /\ chart.children # <<>> /\ Tail(chart.children) = series /\ SeriesOf(chart) = ToSet(series)
         /\ chart.children[1].children = <<x, y>>
         /\ XAxis(chart) = GetAxis(x) /\ YAxis(chart) = GetAxis(y)
<1> DEFINE axes == Node(NoProperties, <<x, y>>)
<1>1. chart.children = <<axes>> \o series
  BY DEF NewChart, Node
<1>2. axes.children = <<x, y>>
  BY DEF Node
<1> HIDE DEF axes
<1>3. Tail(chart.children) = series /\ chart.children # <<>> /\ chart.children[1] = axes
  BY <1>1, TailOf
<1>4. XAxis(chart) = GetAxis(x) /\ YAxis(chart) = GetAxis(y)
  <2>1. <<x, y>>[1] = x /\ <<x, y>>[2] = y
    OBVIOUS
  <2>2. QED  BY <1>2, <1>3, <2>1 DEF XAxis, YAxis, ChartAxis
<1>5. SeriesOf(chart) = ToSet(series)
  BY <1>3 DEF SeriesOf
<1>6. QED  BY <1>2, <1>3, <1>4, <1>5

LEMMA PointIs ==
  ASSUME NEW x, NEW y, NEW point, point = Point("x_axis", "y_axis", x, y)
  PROVE  point.properties["x_axis"] = x /\ point.properties["y_axis"] = y
<1> DEFINE p == Property("x_axis", x)
<1>1. point.properties = With(p, Property("y_axis", y))
  BY DEF Point, Node
<1>2. "x_axis" \in DOMAIN p /\ p["x_axis"] = x /\ "x_axis" # "y_axis"
  BY DEF Property
<1> HIDE DEF p
<1>3. QED  BY <1>1, <1>2, AddedProperty

LEMMA SeriesIs ==
  ASSUME NEW id, NEW points, NEW series, series = AddSeries(id, points)
  PROVE  DefinesCategory(series) /\ DefinedCategory(series) = id /\ series.children = points
<1> DEFINE bare == Property("category_defined_id", id)
<1>1. "category_defined_id" \in DOMAIN bare /\ bare["category_defined_id"] = id
  BY DEF Property
<1>2. series.properties = bare /\ series.children = points
  BY DEF AddSeries, Node, Define
<1> HIDE DEF bare
<1>3. QED  BY <1>1, <1>2 DEF DefinesCategory, DefinedCategory, Has

\* What SeriesFrom() counts: the entries of a level that are in a bin.
Binned(items, filter, query, level, b) ==
  {i \in DOMAIN items : items[i].level = level /\ WhichBin(filter, query, items[i]) = b}

LEMMA BinCounted ==
  ASSUME NEW items, NEW entries, NEW selected, Lists(items, entries, selected),
         NEW query, NEW filter, BinWidth(filter, query) \in Nat \ {0}, filter.start \in Int,
         \A i \in selected : entries[i].time \in Int /\ filter.start <= entries[i].time,
         NEW level, NEW b \in Nat, NEW x, x = filter.start + b * BinWidth(filter, query),
         NEW B, B = {i \in selected : /\ entries[i].level = level
                                      /\ x <= entries[i].time
                                      /\ entries[i].time < x + BinWidth(filter, query)}
  PROVE  /\ Cardinality(Binned(items, filter, query, level, b)) = Cardinality(B)
         /\ Cardinality(B) \in Nat
<1> DEFINE width == BinWidth(filter, query)
           A == Binned(items, filter, query, level, b)
<1>1. A \in SUBSET DOMAIN items /\ B \in SUBSET selected
  BY DEF Binned
<1>2. ASSUME NEW i \in DOMAIN items, NEW p \in selected, items[i] = entries[p]
      PROVE  i \in A <=> p \in B
  <2> DEFINE time == entries[p].time
             since == time - filter.start
             before == b * width
  <2>1. time \in Int /\ filter.start \in Int /\ since \in Nat /\ before \in Int
    OBVIOUS
  <2>2. WhichBin(filter, query, items[i]) = Quotient(since, width)
    BY <1>2 DEF WhichBin
  <2> HIDE DEF since, width
  <2>3. (Quotient(since, width) = b) <=> (b * width <= since /\ since < b * width + width)
    BY <2>1, BinHolds DEF width
  <2>4. width \in Nat
    BY DEF width
  <2> HIDE DEF before, time
  <2>5. (Quotient(since, width) = b) <=> (before <= since /\ since < before + width)
    BY <2>3 DEF before
  <2>6. (before <= since /\ since < before + width) <=> (x <= time /\ time < x + width)
    <3>1. x = filter.start + before
      BY DEF before, width
    <3>2. since = time - filter.start
      BY DEF since
    <3>3. QED  BY <2>1, <2>4, <3>1, <3>2
  <2>7. i \in A <=> (items[i].level = level /\ WhichBin(filter, query, items[i]) = b)
    BY DEF Binned
  <2>8. p \in B <=> (entries[p].level = level /\ x <= time /\ time < x + width)
    BY DEF time, width
  <2>9. QED  BY <1>2, <2>2, <2>5, <2>6, <2>7, <2>8
<1> HIDE DEF A
<1>3. SameOnes(items, entries, selected, A, B)
  BY <1>2 DEF SameOnes
<1>4. \A C, D : C \in SUBSET DOMAIN items /\ D \in SUBSET selected /\ SameOnes(items, entries, selected, C, D) =>
        IsFiniteSet(C) /\ IsFiniteSet(D) /\ Cardinality(C) = Cardinality(D)
  BY SameAreAsMany
<1>5. IsFiniteSet(A) /\ IsFiniteSet(B) /\ Cardinality(A) = Cardinality(B)
  BY <1>1, <1>3, <1>4
<1>6. Cardinality(B) \in Nat
  BY <1>5, FS_CardinalityType
<1>7. QED  BY <1>5, <1>6 DEF A

\* The points of a level, and the chart that they are in.
PointsFrom(items, filter, query, level) ==
  [i \in 1 .. query.bins |->
     Point("x_axis", "y_axis", filter.start + (i - 1) * BinWidth(filter, query),
           Cardinality(Binned(items, filter, query, level, i - 1)))]
AllCounts(items, filter, query) ==
  {0} \union {Cardinality(Binned(items, filter, query, l, b)) : l \in LevelsOf(items), b \in 0 .. query.bins - 1}
ChartFrom(items, filter, query) ==
  NewChart(NewAxis("timestamp", "x_axis", {filter.start, filter.end}),
           NewAxis("double", "y_axis", AllCounts(items, filter, query)),
           SetToSeq({AddSeries(l, PointsFrom(items, filter, query, l)) : l \in LevelsOf(items)}))

LEMMA SeriesFromIs ==
  ASSUME NEW found, NEW filter, NEW query, query.bins \in Int, SeriesFrom(found, filter, query).kind = "ok"
  PROVE  /\ query.bins > 1
         /\ \A i \in DOMAIN found.entries : HasBin(filter, query, found.entries[i])
         /\ SeriesFrom(found, filter, query).what = ChartFrom(found.entries, filter, query)
<1> DEFINE chart == ChartFrom(found.entries, filter, query)
           refused == query.bins <= 1 \/ query.by # "level_name"
           crash == /\ query.bins > 1 /\ query.by = "level_name"
                    /\ (found.crash \/ \E i \in DOMAIN found.entries : ~HasBin(filter, query, found.entries[i]))
<1>1. SeriesFrom(found, filter, query) =
        CASE refused -> Failure("error") [] crash -> Failure("panic") [] OTHER -> Answered(chart)
  BY DEF SeriesFrom, ChartFrom, AllCounts, PointsFrom, Binned
<1>2. Failure("error").kind = "error" /\ Failure("panic").kind = "panic" /\ Answered(chart).what = chart
  BY DEF Failure, Answered
<1> HIDE DEF chart, refused, crash
<1>3. ~refused /\ ~crash /\ SeriesFrom(found, filter, query).what = chart
  BY <1>1, <1>2
<1>4. QED  BY <1>3 DEF chart, refused, crash

LEMMA CountsBounded ==
  ASSUME NEW items, IsList(items), NEW filter, NEW query, NEW level, NEW b
  PROVE  Cardinality(Binned(items, filter, query, level, b)) \in 0 .. Len(items)
<1> DEFINE n == Len(items)
           A == Binned(items, filter, query, level, b)
           D == 1 .. n
<1>1. n \in Nat /\ DOMAIN items = D
  BY DEF IsList
<1>2. A \in SUBSET D
  BY <1>1 DEF Binned
<1> HIDE DEF A, n
<1>3. IsFiniteSet(D) /\ Cardinality(D) = n
  BY <1>1, FS_Interval
<1> HIDE DEF D
<1>4. IsFiniteSet(A) /\ Cardinality(A) <= n
  BY <1>2, <1>3, FS_Subset
<1>5. Cardinality(A) \in Nat
  BY <1>4, FS_CardinalityType
<1>6. Cardinality(A) \in 0 .. n
  BY <1>1, <1>4, <1>5
<1>7. QED  BY <1>6 DEF A, n

\* Each count is within the axis of counts.
LEMMA CountsFit ==
  ASSUME NEW items, IsList(items), NEW filter, NEW query, NEW level \in LevelsOf(items),
         NEW b \in 0 .. query.bins - 1, NEW node,
         node.properties = NewAxis("double", "y_axis", AllCounts(items, filter, query))
  PROVE  AxisContains(GetAxis(node), Cardinality(Binned(items, filter, query, level, b)))
<1> DEFINE counts == AllCounts(items, filter, query)
           count == Cardinality(Binned(items, filter, query, level, b))
           n == Len(items)
<1>1. n \in Nat
  BY DEF IsList
<1>2. counts \in SUBSET (0 .. n)
  BY <1>1, CountsBounded DEF AllCounts
<1>3. count \in counts
  BY DEF AllCounts
<1> HIDE DEF counts, count, n
<1>4. Min(counts) <= count /\ count <= Max(counts)
  BY <1>1, <1>2, <1>3, BoundedExtents
<1>5. GetAxis(node).min = Min(counts) /\ GetAxis(node).max = Max(counts)
  BY AxisIs DEF counts
<1>6. QED  BY <1>4, <1>5 DEF AxisContains, count

\* Where there is an entry in the range, the bins have a width and fit the range.
LEMMA WidthIs ==
  ASSUME NEW filter, filter.start \in Int, filter.end \in Int, NEW query, query.bins \in Int, query.bins > 1,
         NEW e, e.time \in Int, filter.start <= e.time, e.time <= filter.end, HasBin(filter, query, e)
  PROVE  /\ BinWidth(filter, query) \in Nat \ {0}
         /\ \A b \in 0 .. query.bins - 1 : /\ filter.start + b * BinWidth(filter, query) \in Int
                                           /\ filter.start <= filter.start + b * BinWidth(filter, query)
                                           /\ filter.start + b * BinWidth(filter, query) <= filter.end
<1> DEFINE total == filter.end - filter.start
           bins == query.bins
           width == BinWidth(filter, query)
<1>1. total \in Nat /\ bins \in Nat /\ bins > 1
  OBVIOUS
<1>2. width = Quotient(total, bins - 1) /\ width # 0
  BY DEF BinWidth, HasBin
<1>3. filter.end = filter.start + total
  OBVIOUS
<1> HIDE DEF total, bins, width
<1>4. width \in Nat \ {0}
  <2>1. 0 \in 0 .. bins - 1
    BY <1>1
  <2>2. Quotient(total, bins - 1) \in Nat
    BY <1>1, <2>1, BinsFit
  <2>3. QED  BY <1>2, <2>2
<1>5. ASSUME NEW b \in 0 .. bins - 1
      PROVE  /\ filter.start + b * width \in Int /\ filter.start <= filter.start + b * width
             /\ filter.start + b * width <= filter.end
  <2> DEFINE before == b * width
  <2>1. before \in 0 .. total
    BY <1>1, <1>2, BinsFit
  <2> HIDE DEF before
  <2>2. filter.start + before \in Int /\ filter.start <= filter.start + before /\ filter.start + before <= filter.end
    BY <1>1, <1>3, <2>1
  <2>3. QED  BY <2>2 DEF before
<1>6. QED  BY <1>4, <1>5 DEF width, bins

\* A series as it is drawn in the chart.
LEMMA PointsDrawn ==
  ASSUME NEW items, NEW filter, NEW query, query.bins \in Nat, NEW level,
         NEW series, series = AddSeries(level, PointsFrom(items, filter, query, level)),
         NEW chart, XAxis(chart).id = "x_axis", YAxis(chart).id = "y_axis"
  PROVE  /\ DefinedCategory(series) = level /\ DefinesCategory(series)
         /\ Len(PointsOf(chart, series)) = query.bins /\ DOMAIN PointsOf(chart, series) = 1 .. query.bins
         /\ \A i \in 1 .. query.bins :
              /\ PointsOf(chart, series)[i].x = filter.start + (i - 1) * BinWidth(filter, query)
              /\ PointsOf(chart, series)[i].y = Cardinality(Binned(items, filter, query, level, i - 1))
<1> DEFINE at(i) == filter.start + (i - 1) * BinWidth(filter, query)
           many(i) == Cardinality(Binned(items, filter, query, level, i - 1))
           bins == query.bins
           points == PointsOf(chart, series)
           nodes == series.children
<1>1. DefinedCategory(series) = level /\ DefinesCategory(series) /\ nodes = PointsFrom(items, filter, query, level)
  BY SeriesIs
<1>2. nodes = [i \in 1 .. bins |-> Point("x_axis", "y_axis", at(i), many(i))]
  BY <1>1 DEF PointsFrom
<1>3. points = [i \in DOMAIN nodes |-> [x |-> nodes[i].properties["x_axis"], y |-> nodes[i].properties["y_axis"]]]
  BY DEF PointsOf
<1> HIDE DEF at, many, nodes, points
<1>4. bins \in Nat /\ DOMAIN nodes = 1 .. bins
  BY <1>2
<1>5. ASSUME NEW i \in 1 .. bins
      PROVE  points[i].x = at(i) /\ points[i].y = many(i)
  <2>1. nodes[i] = Point("x_axis", "y_axis", at(i), many(i))
    BY <1>2
  <2>2. nodes[i].properties["x_axis"] = at(i) /\ nodes[i].properties["y_axis"] = many(i)
    BY <2>1, PointIs
  <2>3. points[i] = [x |-> nodes[i].properties["x_axis"], y |-> nodes[i].properties["y_axis"]]
    BY <1>3, <1>4
  <2>4. QED  BY <2>2, <2>3
<1>6. DOMAIN points = 1 .. bins /\ Len(points) = bins
  <2> DEFINE point(i) == [x |-> nodes[i].properties["x_axis"], y |-> nodes[i].properties["y_axis"]]
  <2>1. points = [i \in 1 .. bins |-> point(i)]
    BY <1>3, <1>4
  <2> HIDE DEF point, bins
  <2>2. QED  BY <1>4, <2>1
<1>7. QED  BY <1>1, <1>5, <1>6 DEF at, many, points

LEMMA LevelsAgree ==
  ASSUME NEW items, NEW entries, NEW selected, Lists(items, entries, selected)
  PROVE  LevelsOf(items) = {entries[i].level : i \in selected} /\ IsFiniteSet(LevelsOf(items))
<1>1. /\ Len(items) \in Nat /\ DOMAIN items = 1 .. Len(items)
      /\ \A i \in DOMAIN items : \E p \in selected : items[i] = entries[p]
      /\ \A p \in selected : \E i \in DOMAIN items : items[i] = entries[p]
  BY ListsThem
<1>2. LevelsOf(items) = {entries[i].level : i \in selected}
  BY <1>1 DEF LevelsOf
<1>3. IsFiniteSet(LevelsOf(items))
  <2> DEFINE D == DOMAIN items
             levelOf == [i \in D |-> items[i].level]
             S == LevelsOf(items)
  <2>1. IsFiniteSet(D)
    BY <1>1, FS_Interval
  <2>2. \A t : t \in S <=> \E s \in D : t = levelOf[s]
    BY DEF LevelsOf
  <2> HIDE DEF D, levelOf, S
  <2>3. IsFiniteSet(S)
    BY <2>1, <2>2, ValuesFinite
  <2>4. QED  BY <2>3 DEF S
<1>4. QED  BY <1>2, <1>3

\* The chart is one, with a series for each level.
LEMMA ChartFromIs ==
  ASSUME NEW items, IsFiniteSet(LevelsOf(items)), NEW filter, filter.start \in Int, filter.end \in Int, NEW query,
         NEW chart, chart = ChartFrom(items, filter, query)
  PROVE  /\ IsChart(chart)
         /\ \A s : s \in SeriesOf(chart) <=> \E l \in LevelsOf(items) : s = AddSeries(l, PointsFrom(items, filter, query, l))
         /\ XAxis(chart).id = "x_axis" /\ YAxis(chart).id = "y_axis"
         /\ XAxis(chart).min <= filter.start /\ filter.end <= XAxis(chart).max
         /\ XAxis(chart).min \in Int /\ XAxis(chart).max \in Int
         /\ \E node : /\ node.properties = NewAxis("double", "y_axis", AllCounts(items, filter, query))
                      /\ YAxis(chart) = GetAxis(node)
<1> DEFINE ends == {filter.start, filter.end}
           counts == AllCounts(items, filter, query)
           xAxis == NewAxis("timestamp", "x_axis", ends)
           yAxis == NewAxis("double", "y_axis", counts)
           x == Node(xAxis, <<>>)
           y == Node(yAxis, <<>>)
           L == LevelsOf(items)
           S == {AddSeries(l, PointsFrom(items, filter, query, l)) : l \in L}
           made == [l \in L |-> AddSeries(l, PointsFrom(items, filter, query, l))]
<1>1. IsFiniteSet(S)
  <2>1. \A t : t \in S <=> \E l \in L : t = made[l]
    OBVIOUS
  <2> HIDE DEF S, made, L
  <2>2. IsFiniteSet(L)
    BY DEF L
  <2>3. QED  BY <2>1, <2>2, ValuesFinite
<1>2. \A s \in S : DefinesCategory(s)
  BY SeriesIs
<1>3. chart = NewChart(xAxis, yAxis, SetToSeq(S))
  BY DEF ChartFrom
<1>4. x.properties = xAxis /\ y.properties = yAxis
  BY DEF Node
<1> HIDE DEF ends, counts, S, made, L
<1>5. IsAxis(x) /\ IsAxis(y)
  BY <1>4, AxisIs DEF AxisTypes
<1>6. GetAxis(x).id = "x_axis" /\ GetAxis(x).min = Min(ends) /\ GetAxis(x).max = Max(ends) /\ GetAxis(y).id = "y_axis"
  <2>1. x.properties = NewAxis("timestamp", "x_axis", ends) /\ y.properties = NewAxis("double", "y_axis", counts)
    BY <1>4
  <2> HIDE DEF x, y, xAxis, yAxis
  <2>2. GetAxis(x).id = "x_axis" /\ GetAxis(x).min = Min(ends) /\ GetAxis(x).max = Max(ends)
    BY <2>1, AxisIs
  <2>3. GetAxis(y).id = "y_axis"
    BY <2>1, AxisIs
  <2>4. QED  BY <2>2, <2>3
<1> HIDE DEF xAxis, yAxis, x, y
<1>7. IsList(SetToSeq(S)) /\ ToSet(SetToSeq(S)) = S
  BY <1>1, SetListed
<1>8. /\ chart.children # <<>> /\ Tail(chart.children) = SetToSeq(S) /\ SeriesOf(chart) = S
      /\ ToSet(chart.children[1].children) = {x, y} /\ Len(chart.children[1].children) = 2
      /\ XAxis(chart) = GetAxis(x) /\ YAxis(chart) = GetAxis(y)
  <2> DEFINE list == SetToSeq(S)
  <2>1. IsList(list) /\ chart = NewChart(xAxis, yAxis, list) /\ ToSet(list) = S
    BY <1>3, <1>7
  <2>2. x = Node(xAxis, <<>>) /\ y = Node(yAxis, <<>>)
    BY DEF x, y
  <2> HIDE DEF list
  <2>3. chart.children # <<>> /\ Tail(chart.children) = list /\ SeriesOf(chart) = ToSet(list)
    BY <2>1, <2>2, ChartIs
  <2>4. chart.children[1].children = <<x, y>>
    BY <2>1, <2>2, ChartIs
  <2>5. XAxis(chart) = GetAxis(x)
    BY <2>1, <2>2, ChartIs
  <2>6. YAxis(chart) = GetAxis(y)
    BY <2>1, <2>2, ChartIs
  <2>7. QED  BY <2>1, <2>3, <2>4, <2>5, <2>6, PairSet DEF list
<1>9. IsChart(chart)
  BY <1>2, <1>5, <1>7, <1>8 DEF IsChart
<1>10. /\ XAxis(chart).min <= filter.start /\ filter.end <= XAxis(chart).max
       /\ XAxis(chart).min \in Int /\ XAxis(chart).max \in Int
  <2>1. /\ Min(ends) \in ends /\ Min(ends) <= filter.start
        /\ Max(ends) \in ends /\ Max(ends) >= filter.end
    BY MinMaxOfTwo DEF ends
  <2>2. Min(ends) \in Int /\ Max(ends) \in Int
    BY <2>1 DEF ends
  <2>3. QED  BY <1>6, <1>8, <2>1, <2>2
<1>11. \A s : s \in S <=> \E l \in LevelsOf(items) : s = AddSeries(l, PointsFrom(items, filter, query, l))
  BY DEF S, L
<1>12. QED  BY <1>4, <1>6, <1>8, <1>9, <1>10, <1>11 DEF counts, yAxis

LEMMA SeriesAreShown ==
  ASSUME NEW found, NEW entries, NEW selected, Lists(found.entries, entries, selected),
         NEW query, query.bins \in Int, NEW filter, filter.start \in Int, filter.end \in Int,
         \A i \in selected : /\ entries[i].time \in Int
                             /\ filter.start <= entries[i].time /\ entries[i].time <= filter.end,
         SeriesFrom(found, filter, query).kind = "ok"
  PROVE  ShowsSeries(SeriesFrom(found, filter, query).what, filter, BinWidth(filter, query), query.bins,
                     entries, selected)
<1> DEFINE items == found.entries
           chart == ChartFrom(items, filter, query)
           width == BinWidth(filter, query)
           bins == query.bins
           at(i) == filter.start + (i - 1) * width
           L == LevelsOf(items)
           counted(point, level) == {i \in selected : /\ entries[i].level = level
                                                      /\ point.x <= entries[i].time
                                                      /\ entries[i].time < point.x + width}
           pointFits(level, i, point) ==
             /\ AxisContains(XAxis(chart), point.x) /\ AxisContains(YAxis(chart), point.y)
             /\ point.x = at(i)
             /\ point.y = Cardinality(counted(point, level))
<1>1. /\ query.bins > 1
      /\ \A i \in DOMAIN items : HasBin(filter, query, items[i])
      /\ SeriesFrom(found, filter, query).what = chart
  BY SeriesFromIs
<1>2. /\ IsList(items) /\ \A i \in DOMAIN items : \E p \in selected : items[i] = entries[p]
  <2>1. IsList(items)
    BY DEF Lists
  <2>2. Lists(items, entries, selected)
    OBVIOUS
  <2> HIDE DEF items
  <2>3. QED  BY <2>1, <2>2, ListsThem
<1>3. L = {entries[i].level : i \in selected} /\ IsFiniteSet(L)
  BY LevelsAgree
<1>4. /\ IsChart(chart)
      /\ \A s : s \in SeriesOf(chart) <=> \E l \in L : s = AddSeries(l, PointsFrom(items, filter, query, l))
      /\ XAxis(chart).id = "x_axis" /\ YAxis(chart).id = "y_axis"
      /\ XAxis(chart).min <= filter.start /\ filter.end <= XAxis(chart).max
      /\ XAxis(chart).min \in Int /\ XAxis(chart).max \in Int
      /\ \E node : /\ node.properties = NewAxis("double", "y_axis", AllCounts(items, filter, query))
                   /\ YAxis(chart) = GetAxis(node)
  <2>1. chart = ChartFrom(items, filter, query) /\ IsFiniteSet(LevelsOf(items))
    BY <1>3
  <2> HIDE DEF chart, items
  <2>2. QED  BY <2>1, ChartFromIs
<1>5. bins \in Nat
  BY <1>1
<1> HIDE DEF items, chart, L, width, bins
<1>6. ASSUME NEW level \in L, NEW i \in 1 .. bins, NEW point,
             point.x = at(i), point.y = Cardinality(Binned(items, filter, query, level, i - 1))
      PROVE  pointFits(level, i, point)
  <2> DEFINE b == i - 1
             B == counted(point, level)
  <2>1. b \in Nat /\ b \in 0 .. bins - 1
    BY <1>5
  <2>2. PICK k \in DOMAIN items : items[k].level = level
    BY DEF LevelsOf, L
  <2>3. PICK p \in selected : items[k] = entries[p]
    BY <1>2
  <2>4. /\ items[k].time \in Int /\ filter.start <= items[k].time /\ items[k].time <= filter.end
        /\ HasBin(filter, query, items[k])
    BY <1>1, <2>3
  <2>5. /\ width \in Nat \ {0}
        /\ \A c \in 0 .. bins - 1 : /\ filter.start + c * width \in Int
                                    /\ filter.start <= filter.start + c * width
                                    /\ filter.start + c * width <= filter.end
    BY <1>1, <2>4, WidthIs DEF width, bins
  <2>6. point.x = filter.start + b * width
    BY <1>6
  <2>7. AxisContains(XAxis(chart), point.x)
    <3> DEFINE x == filter.start + b * width
    <3>1. x \in Int /\ filter.start <= x /\ x <= filter.end
      BY <2>1, <2>5
    <3> HIDE DEF x
    <3>2. XAxis(chart).min <= x /\ x <= XAxis(chart).max
      BY <1>4, <3>1
    <3>3. QED  BY <2>6, <3>2 DEF AxisContains, x
  <2>8. AxisContains(YAxis(chart), point.y)
    <3>1. PICK node : /\ node.properties = NewAxis("double", "y_axis", AllCounts(items, filter, query))
                      /\ YAxis(chart) = GetAxis(node)
      BY <1>4
    <3> HIDE DEF b
    <3>2. AxisContains(GetAxis(node), Cardinality(Binned(items, filter, query, level, b)))
      BY <1>2, <2>1, <3>1, CountsFit DEF L, bins
    <3>3. QED  BY <1>6, <3>1, <3>2 DEF b
  <2>9. point.y = Cardinality(B)
    <3> DEFINE x == point.x
    <3>1. Lists(items, entries, selected) /\ BinWidth(filter, query) \in Nat \ {0}
      BY <2>5 DEF items, width
    <3>2. B = {j \in selected : /\ entries[j].level = level
                                /\ x <= entries[j].time
                                /\ entries[j].time < x + BinWidth(filter, query)}
      BY DEF width
    <3>3. x = filter.start + b * BinWidth(filter, query)
      BY <2>6 DEF width
    <3> HIDE DEF B, x, b
    <3>4. Cardinality(Binned(items, filter, query, level, b)) = Cardinality(B)
      BY <2>1, <3>1, <3>2, <3>3, BinCounted
    <3>5. QED  BY <1>6, <3>4 DEF b, B
  <2>10. QED  BY <1>6, <2>7, <2>8, <2>9
<1>7. ASSUME NEW s \in SeriesOf(chart)
      PROVE  /\ DefinedCategory(s) \in L /\ Len(PointsOf(chart, s)) = bins
             /\ \A i \in DOMAIN PointsOf(chart, s) : pointFits(DefinedCategory(s), i, PointsOf(chart, s)[i])
  <2>1. PICK l \in L : s = AddSeries(l, PointsFrom(items, filter, query, l))
    BY <1>4
  <2> DEFINE points == PointsOf(chart, s)
  <2>2. /\ DefinedCategory(s) = l /\ Len(points) = bins /\ DOMAIN points = 1 .. bins
        /\ \A i \in 1 .. bins :
             /\ points[i].x = at(i)
             /\ points[i].y = Cardinality(Binned(items, filter, query, l, i - 1))
    <3>1. XAxis(chart).id = "x_axis" /\ YAxis(chart).id = "y_axis" /\ query.bins \in Nat
      BY <1>4, <1>5 DEF bins
    <3> HIDE DEF points, at, pointFits
    <3>2. DefinedCategory(s) = l /\ Len(points) = query.bins /\ DOMAIN points = 1 .. query.bins
      BY <2>1, <3>1, PointsDrawn DEF points
    <3>3. \A i \in 1 .. query.bins :
            /\ points[i].x = filter.start + (i - 1) * BinWidth(filter, query)
            /\ points[i].y = Cardinality(Binned(items, filter, query, l, i - 1))
      BY <2>1, <3>1, PointsDrawn DEF points
    <3>4. QED  BY <3>2, <3>3 DEF at, width, bins
  <2> HIDE DEF points, at, pointFits
  <2>3. \A i \in 1 .. bins : pointFits(l, i, points[i])
    BY <1>6, <2>2
  <2>4. QED  BY <2>2, <2>3 DEF points
<1>8. {DefinedCategory(s) : s \in SeriesOf(chart)} = L
  <2>1. \A l \in L : DefinedCategory(AddSeries(l, PointsFrom(items, filter, query, l))) = l
    BY SeriesIs
  <2>2. QED  BY <1>4, <2>1
<1>9. ShowsSeries(chart, filter, width, bins, entries, selected)
  BY <1>3, <1>4, <1>7, <1>8 DEF ShowsSeries
<1>10. QED  BY <1>1, <1>9 DEF width, bins

-----------------------------------------------------------------------------
(* The table of source files *)

Follows(items, a, b, c, rest) == items = <<a, b, c>> \o rest

InTurn(items, a, b, c, rest) ==
  /\ IsList(items) /\ Len(rest) \in Nat /\ DOMAIN rest = 1 .. Len(rest)
  /\ DOMAIN items = 1 .. 3 + Len(rest)
  /\ items[1] = a /\ items[2] = b /\ items[3] = c
  /\ \A k \in 1 .. Len(rest) : items[3 + k] = rest[k]

LEMMA AfterThree ==
  ASSUME NEW a, NEW b, NEW c, NEW rest, IsList(rest), NEW items, Follows(items, a, b, c, rest)
  PROVE  InTurn(items, a, b, c, rest)
<1> DEFINE S == {a, b, c} \union ToSet(rest)
           n == Len(rest)
           t == <<a, b, c>>
<1>1. n \in Nat /\ DOMAIN rest = 1 .. n /\ rest \in Seq(S) /\ t \in Seq(S) /\ Len(t) = 3
  <2>1. rest \in Seq(ToSet(rest)) /\ ToSet(rest) \subseteq S
    BY DEF IsList
  <2>2. rest \in Seq(S) /\ n \in Nat /\ DOMAIN rest = 1 .. n
    <3> HIDE DEF S
    <3>1. QED  BY <2>1
  <2>3. a \in S /\ b \in S /\ c \in S
    OBVIOUS
  <2> HIDE DEF S
  <2>4. QED  BY <2>2, <2>3
<1>2. t[1] = a /\ t[2] = b /\ t[3] = c
  OBVIOUS
<1> HIDE DEF S, n, t
<1>3. items = t \o rest
  BY DEF t, Follows
<1>4. /\ items \in Seq(S) /\ Len(items) = 3 + n
      /\ \A i \in 1 .. 3 + n : items[i] = IF i <= 3 THEN t[i] ELSE rest[i - 3]
  <2>1. t \o rest \in Seq(S) /\ Len(t \o rest) = Len(t) + Len(rest)
    BY <1>1, ConcatProperties
  <2>2. \A i \in 1 .. Len(t) + Len(rest) : (t \o rest)[i] = IF i <= Len(t) THEN t[i] ELSE rest[i - Len(t)]
    BY <1>1, ConcatProperties
  <2>3. Len(rest) = n
    BY DEF n
  <2>4. QED  BY <1>1, <1>3, <2>1, <2>2, <2>3
<1>5. IsList(items)
  BY <1>4, ListOf
<1>6. items[1] = a /\ items[2] = b /\ items[3] = c
  <2>1. 1 \in 1 .. 3 + n /\ 2 \in 1 .. 3 + n /\ 3 \in 1 .. 3 + n
    BY <1>1
  <2>2. QED  BY <1>2, <1>4, <2>1
<1>7. ASSUME NEW k \in 1 .. n
      PROVE  items[3 + k] = rest[k]
  <2> DEFINE i == 3 + k
  <2>1. i \in 1 .. 3 + n /\ ~(i <= 3) /\ i - 3 = k
    BY <1>1
  <2> HIDE DEF i
  <2>2. items[i] = rest[i - 3]
    BY <1>4, <2>1
  <2>3. QED  BY <2>1, <2>2 DEF i
<1>8. DOMAIN items = 1 .. 3 + n
  BY <1>1, <1>4
<1>9. QED  BY <1>1, <1>5, <1>6, <1>7, <1>8 DEF n, InTurn

LEMMA OneTagged ==
  ASSUME NEW row, IsList(row.children), NEW column, NEW i \in DOMAIN row.children,
         \A j \in DOMAIN row.children : TagsOf(row.children[j].properties) = <<column>> <=> j = i
  PROVE  CellOf(row, column) = CellValue(row.children[i])
<1> DEFINE tagged == {j \in DOMAIN row.children : TagsOf(row.children[j].properties) = <<column>>}
           latest(j) == \A k \in tagged : k <= j
<1>1. i \in Nat
  BY DEF IsList
<1>2. tagged = {i}
  OBVIOUS
<1> HIDE DEF tagged
<1>3. (CHOOSE j \in tagged : latest(j)) = i
  BY <1>1, <1>2
<1>4. CellOf(row, column) = IF tagged = {} THEN <<>> ELSE CellValue(row.children[CHOOSE j \in tagged : latest(j)])
  BY DEF CellOf, tagged
<1> HIDE DEF latest
<1>5. QED  BY <1>2, <1>3, <1>4

LEMMA NoneTagged ==
  ASSUME NEW row, NEW column,
         \A j \in DOMAIN row.children : TagsOf(row.children[j].properties) # <<column>>
  PROVE  CellOf(row, column) = <<>>
BY DEF CellOf

OtherKeys == {"source_file", "source_loc_count", "entries"}

LEMMA KeysDiffer ==
  /\ DOMAIN LevelKeys = 0 .. 3
  /\ \A l \in 0 .. 3 : LevelKeys[l] \notin OtherKeys
  /\ \A l, m \in 0 .. 3 : LevelKeys[l] = LevelKeys[m] => l = m
<1>1. DOMAIN LevelKeys = 0 .. 3
  BY DEF LevelKeys
<1>2. LevelKeys[0] = "level_0" /\ LevelKeys[1] = "level_1" /\ LevelKeys[2] = "level_2" /\ LevelKeys[3] = "level_3"
  BY DEF LevelKeys
<1>3. \A l \in 0 .. 3 : l = 0 \/ l = 1 \/ l = 2 \/ l = 3
  OBVIOUS
<1>4. QED  BY <1>1, <1>2, <1>3 DEF OtherKeys

LEMMA TagsDiffer ==
  ASSUME NEW a, NEW b, <<a>> = <<b>>
  PROVE  a = b
<1>1. <<a>>[1] = a /\ <<b>>[1] = b
  OBVIOUS
<1>2. QED  BY <1>1

LEMMA AtMatches ==
  ASSUME NEW list, NEW S \in SUBSET Nat, IsFiniteSet(S), NEW items, items = At(list, S)
  PROVE  /\ IsList(items)
         /\ \E order \in Bijection(DOMAIN items, S) : \A k \in DOMAIN items : items[k] = list[order[k]]
<1> DEFINE n == Cardinality(S)
           D == 1 .. n
<1>1. \E order \in Bijection(1 .. n, S) :
        /\ \A i, j \in 1 .. n : i < j => order[i] < order[j]
        /\ At(list, S) = [k \in 1 .. n |-> list[order[k]]]
  BY AtPlaces, Zenon
<1>2. PICK order \in Bijection(D, S) : items = [k \in D |-> list[order[k]]]
  BY <1>1
<1>3. IsList(items)
  BY AtLength
<1> HIDE DEF D
<1>4. DOMAIN items = D /\ \A k \in D : items[k] = list[order[k]]
  BY <1>2
<1>5. QED  BY <1>2, <1>3, <1>4

\* The cells of the levels: one for each that is there.
CellFor(items, its, l) == Cell(LevelKeys[l], Cardinality({i \in its : items[i].level = l}))

LEMMA LevelCellsAre ==
  ASSUME NEW items, NEW its, NEW levels \in SUBSET (0 .. 3), \A i \in its : items[i].level \in levels,
         \A l \in levels : \E i \in its : items[i].level = l
  PROVE  /\ IsList(LevelCells(items, its))
         /\ \E order \in Bijection(DOMAIN LevelCells(items, its), levels) :
              \A k \in DOMAIN LevelCells(items, its) : LevelCells(items, its)[k] = CellFor(items, its, order[k])
<1> DEFINE list == [l \in DOMAIN LevelKeys |-> CellFor(items, its, l)]
           cells == At(list, levels)
<1>1. LevelCells(items, its) = cells
  <2>1. LevelCells(items, its) = At(list, {items[i].level : i \in its})
    BY DEF LevelCells, CellFor
  <2>2. {items[i].level : i \in its} = levels
    OBVIOUS
  <2> HIDE DEF list
  <2>3. QED  BY <2>1, <2>2
<1>2. levels \in SUBSET Nat /\ IsFiniteSet(levels)
  <2>1. IsFiniteSet(0 .. 3)
    <3>1. 0 \in Int /\ 3 \in Int
      OBVIOUS
    <3>2. QED  BY <3>1, FS_Interval, Zenon
  <2> DEFINE D == 0 .. 3
  <2>2. levels \in SUBSET Nat /\ levels \in SUBSET D
    OBVIOUS
  <2>3. IsFiniteSet(D)
    BY <2>1
  <2> HIDE DEF D
  <2>4. IsFiniteSet(levels)
    BY <2>2, <2>3, FS_Subset
  <2>5. QED  BY <2>2, <2>4
<1>3. \A l \in levels : list[l] = CellFor(items, its, l)
  BY KeysDiffer
<1>4. cells = At(list, levels)
  OBVIOUS
<1> HIDE DEF list, cells
<1>5. /\ IsList(cells)
      /\ \E order \in Bijection(DOMAIN cells, levels) : \A k \in DOMAIN cells : cells[k] = list[order[k]]
  BY <1>2, <1>4, AtMatches
<1>6. PICK order \in Bijection(DOMAIN cells, levels) : \A k \in DOMAIN cells : cells[k] = list[order[k]]
  BY <1>5
<1>7. order \in [DOMAIN cells -> levels]
  BY <1>6, BijectionIs
<1>8. \A k \in DOMAIN cells : cells[k] = CellFor(items, its, order[k])
  BY <1>3, <1>6, <1>7
<1>9. QED  BY <1>1, <1>5, <1>6, <1>8

\* A row that counts the entries at places `its', which have these levels.
HasLevels(items, its, levels) ==
  /\ levels \in SUBSET (0 .. 3) /\ \A i \in its : items[i].level \in levels
  /\ \A l \in levels : \E i \in its : items[i].level = l
HasCells(row, levels) ==
  \A cell \in ToSet(row.children) :
    /\ cell.children = <<>> /\ ~Has(cell, "table_formatted_cell")
    /\ \E column : /\ column \in OtherKeys \/ \E l \in levels : column = LevelKeys[l]
                   /\ TagsOf(cell.properties) = <<column>>
RowShows(row, file, items, its, levels) ==
  /\ row.properties["source_file"] = file
  /\ CellOf(row, "source_file") = <<file>>
  /\ CellOf(row, "source_loc_count") = <<Cardinality({items[i].line : i \in its})>>
  /\ CellOf(row, "entries") = <<Cardinality(its)>>
  /\ \A l \in levels : CellOf(row, LevelKeys[l]) = <<Cardinality({i \in its : items[i].level = l})>>
  /\ \A l \in (0 .. 3) \ levels : CellOf(row, LevelKeys[l]) = <<>>
  /\ HasCells(row, levels)

LEMMA FileRowIs ==
  ASSUME NEW file, NEW items, NEW its, NEW levels, HasLevels(items, its, levels),
         NEW row, row = FileRow(file, items, its)
  PROVE  RowShows(row, file, items, its, levels)
<1> DEFINE lineCount == Cardinality({items[i].line : i \in its})
           count == Cardinality(its)
           countOf(l) == Cardinality({i \in its : items[i].level = l})
           rest == LevelCells(items, its)
           a == Cell("source_file", file)
           b == Cell("source_loc_count", lineCount)
           c == Cell("entries", count)
           cells == <<a, b, c>> \o rest
           n == Len(rest)
           D == 1 .. 3 + n
<1>1. /\ levels \in SUBSET (0 .. 3) /\ \A i \in its : items[i].level \in levels
      /\ \A l \in levels : \E i \in its : items[i].level = l
  BY DEF HasLevels
<1>2. row.children = cells /\ row.properties = Property("source_file", file)
  BY DEF FileRow, Row, Node
<1>3. row.properties["source_file"] = file
  BY <1>2 DEF Property
<1>4. /\ IsList(rest)
      /\ \E order \in Bijection(DOMAIN rest, levels) : \A k \in DOMAIN rest : rest[k] = CellFor(items, its, order[k])
  <2> HIDE DEF lineCount, count, countOf
  <2>1. IsList(rest)
    BY <1>1, LevelCellsAre
  <2>2. \E order \in Bijection(DOMAIN rest, levels) : \A k \in DOMAIN rest : rest[k] = CellFor(items, its, order[k])
    BY <1>1, LevelCellsAre
  <2>3. QED  BY <2>1, <2>2
<1>5. PICK order \in Bijection(DOMAIN rest, levels) : \A k \in DOMAIN rest : rest[k] = CellFor(items, its, order[k])
  BY <1>4
<1>6. \A l : CellFor(items, its, l) = Cell(LevelKeys[l], countOf(l))
  BY DEF CellFor
<1> HIDE DEF lineCount, count, countOf, rest, a, b, c
<1>7. /\ IsList(cells) /\ n \in Nat /\ DOMAIN rest = 1 .. n /\ DOMAIN cells = D
      /\ cells[1] = a /\ cells[2] = b /\ cells[3] = c
      /\ \A k \in 1 .. n : cells[3 + k] = rest[k]
  <2>1. Follows(cells, a, b, c, rest)
    BY DEF Follows
  <2>2. IsList(rest)
    BY <1>4
  <2> HIDE DEF cells
  <2>3. InTurn(cells, a, b, c, rest)
    BY <2>1, <2>2, AfterThree
  <2>4. QED  BY <2>3 DEF InTurn
<1> HIDE DEF cells
<1>8. /\ order \in [1 .. n -> levels] /\ \A j, k \in 1 .. n : order[j] = order[k] => j = k
      /\ \A l \in levels : \E k \in 1 .. n : order[k] = l
  <2>1. /\ order \in [DOMAIN rest -> levels] /\ \A j, k \in DOMAIN rest : order[j] = order[k] => j = k
        /\ \A l \in levels : \E k \in DOMAIN rest : order[k] = l
    BY <1>5, BijectionIs
  <2>2. QED  BY <1>7, <2>1
<1> DEFINE key == [j \in D |-> IF j = 1 THEN "source_file" ELSE IF j = 2 THEN "source_loc_count"
                               ELSE IF j = 3 THEN "entries" ELSE LevelKeys[order[j - 3]]]
           value == [j \in D |-> IF j = 1 THEN file ELSE IF j = 2 THEN lineCount
                                 ELSE IF j = 3 THEN count ELSE countOf(order[j - 3])]
<1>9. /\ 1 \in D /\ 2 \in D /\ 3 \in D /\ \A k \in 1 .. n : 3 + k \in D
      /\ \A j \in D : j \in {1, 2, 3} \/ (j - 3 \in 1 .. n /\ j = 3 + (j - 3))
  BY <1>7
<1>10. /\ key[1] = "source_file" /\ key[2] = "source_loc_count" /\ key[3] = "entries"
      /\ value[1] = file /\ value[2] = lineCount /\ value[3] = count
  BY <1>9
<1>11. \A k \in 1 .. n : key[3 + k] = LevelKeys[order[k]] /\ value[3 + k] = countOf(order[k])
  <2>1. ASSUME NEW k \in 1 .. n
        PROVE  key[3 + k] = LevelKeys[order[k]] /\ value[3 + k] = countOf(order[k])
    <3>1. 3 + k \in D /\ 3 + k # 1 /\ 3 + k # 2 /\ 3 + k # 3 /\ 3 + k - 3 = k
      BY <1>7
    <3>2. QED  BY <3>1
  <2>2. QED  BY <2>1
<1> HIDE DEF key, value
<1>12. ASSUME NEW j \in D
       PROVE  /\ cells[j] = Cell(key[j], value[j])
              /\ key[j] \in OtherKeys \/ \E l \in levels : key[j] = LevelKeys[l]
  <2>1. CASE j \in {1, 2, 3}
    BY <1>7, <1>10, <2>1 DEF a, b, c, OtherKeys
  <2>2. CASE j - 3 \in 1 .. n /\ j = 3 + (j - 3)
    <3> DEFINE k == j - 3
    <3>1. k \in 1 .. n /\ j = 3 + k
      BY <2>2
    <3> HIDE DEF k
    <3>2. cells[j] = CellFor(items, its, order[k]) /\ key[j] = LevelKeys[order[k]] /\ value[j] = countOf(order[k])
      BY <1>5, <1>7, <1>11, <3>1
    <3>3. cells[j] = Cell(key[j], value[j])
      BY <1>6, <3>2
    <3>4. order[k] \in levels
      BY <1>8, <3>1
    <3>5. QED  BY <3>2, <3>3, <3>4
  <2>3. QED  BY <1>9, <2>1, <2>2
<1>13. ASSUME NEW i \in D, NEW j \in D, key[i] = key[j]
       PROVE  i = j
  <2>1. \A k \in 1 .. n : order[k] \in 0 .. 3
    BY <1>1, <1>8
  <2>2. \A k \in 1 .. n : key[3 + k] \notin OtherKeys
    BY <1>11, <2>1, KeysDiffer
  <2>3. key[1] \in OtherKeys /\ key[2] \in OtherKeys /\ key[3] \in OtherKeys
    BY <1>10 DEF OtherKeys
  <2>4. CASE i \in {1, 2, 3} /\ j \in {1, 2, 3}
    BY <1>10, <1>13, <2>4
  <2>5. CASE i \in {1, 2, 3} /\ ~(j \in {1, 2, 3})
    BY <1>9, <1>13, <2>2, <2>3, <2>5
  <2>6. CASE ~(i \in {1, 2, 3}) /\ j \in {1, 2, 3}
    BY <1>9, <1>13, <2>2, <2>3, <2>6
  <2>7. CASE ~(i \in {1, 2, 3}) /\ ~(j \in {1, 2, 3})
    <3>1. PICK p \in 1 .. n : i = 3 + p
      BY <1>9, <2>7
    <3>2. PICK q \in 1 .. n : j = 3 + q
      BY <1>9, <2>7
    <3>3. LevelKeys[order[p]] = LevelKeys[order[q]]
      BY <1>11, <1>13, <3>1, <3>2
    <3>4. order[p] = order[q]
      BY <2>1, <3>3, KeysDiffer
    <3>5. QED  BY <1>8, <3>1, <3>2, <3>4
  <2>8. QED  BY <2>4, <2>5, <2>6, <2>7
<1>14. \A j \in D : TagsOf(cells[j].properties) = <<key[j]>> /\ CellValue(cells[j]) = <<value[j]>>
  BY <1>12, CellIs
<1>15. ASSUME NEW j \in D
       PROVE  CellOf(row, key[j]) = <<value[j]>>
  <2>1. \A i \in D : (TagsOf(cells[i].properties) = <<key[j]>>) <=> i = j
    BY <1>13, <1>14, TagsDiffer
  <2>2. IsList(row.children) /\ DOMAIN row.children = D /\ row.children = cells
    BY <1>2, <1>7
  <2> DEFINE column == key[j]
  <2>3. \A i \in DOMAIN row.children : (TagsOf(row.children[i].properties) = <<column>>) <=> i = j
    BY <2>1, <2>2
  <2> HIDE DEF column, D
  <2>4. CellOf(row, column) = CellValue(row.children[j])
    BY <2>2, <2>3, OneTagged
  <2>5. QED  BY <1>14, <2>2, <2>4 DEF column
<1>16. \A l \in levels : CellOf(row, LevelKeys[l]) = <<countOf(l)>>
  BY <1>8, <1>9, <1>11, <1>15
<1>17. ASSUME NEW l \in (0 .. 3) \ levels
       PROVE  CellOf(row, LevelKeys[l]) = <<>>
  <2>1. \A j \in D : key[j] # LevelKeys[l]
    BY <1>12, KeysDiffer
  <2>2. \A j \in D : TagsOf(cells[j].properties) # <<LevelKeys[l]>>
    BY <1>14, <2>1, TagsDiffer
  <2>3. QED  BY <1>2, <1>7, <2>2, NoneTagged
<1>18. ASSUME NEW cell \in ToSet(row.children)
       PROVE  /\ cell.children = <<>> /\ ~Has(cell, "table_formatted_cell")
              /\ \E column : /\ column \in OtherKeys \/ \E l \in levels : column = LevelKeys[l]
                             /\ TagsOf(cell.properties) = <<column>>
  <2>1. PICK j \in D : cell = cells[j]
    BY <1>2, <1>7 DEF ToSet
  <2>2. QED  BY <1>12, <1>14, <2>1, CellIs
<1>19. CellOf(row, "source_file") = <<file>> /\ CellOf(row, "source_loc_count") = <<lineCount>>
       /\ CellOf(row, "entries") = <<count>>
  BY <1>9, <1>10, <1>15
<1>20. HasCells(row, levels)
  BY <1>18 DEF HasCells
<1>21. QED  BY <1>3, <1>16, <1>17, <1>19, <1>20 DEF lineCount, count, countOf, RowShows

LEMMA FileColumnsAre ==
  ASSUME NEW log, NEW levels \in SUBSET (0 .. 3), LevelsOf(log) = levels, NEW columns, columns = FileColumns(log)
  PROVE  /\ \A h \in ToSet(columns) : DefinesCategory(h)
         /\ \A k : (\E i \in DOMAIN columns : k = DefinedCategory(columns[i]))
                   <=> (k \in OtherKeys \/ \E l \in levels : k = LevelKeys[l])
<1> DEFINE list == [l \in DOMAIN LevelKeys |-> Column(LevelKeys[l])]
           rest == At(list, levels)
           a == Column("source_file")
           b == Column("source_loc_count")
           c == Column("entries")
           n == Len(rest)
<1>1. Follows(columns, a, b, c, rest)
  BY DEF FileColumns, LevelColumns, Follows
<1>2. \A l \in levels : list[l] = Column(LevelKeys[l])
  BY KeysDiffer
<1>3. rest = At(list, levels)
  OBVIOUS
<1> HIDE DEF list, rest
<1>4. IsList(rest) /\ ToSet(rest) = {list[l] : l \in levels}
  <2> DEFINE D == 0 .. 3
  <2>1. levels \in SUBSET Nat /\ levels \in SUBSET D
    OBVIOUS
  <2>2. IsFiniteSet(D)
    <3>1. 0 \in Int /\ 3 \in Int
      OBVIOUS
    <3>2. QED  BY <3>1, FS_Interval, Zenon
  <2> HIDE DEF D
  <2>3. IsFiniteSet(levels)
    BY <2>1, <2>2, FS_Subset
  <2>4. IsList(rest)
    BY <1>3, <2>1, <2>3, AtLength
  <2>5. ToSet(rest) = {list[l] : l \in levels}
    BY <1>3, <2>1, <2>3, AtLength
  <2>6. QED  BY <2>4, <2>5
<1>5. /\ n \in Nat /\ DOMAIN rest = 1 .. n /\ DOMAIN columns = 1 .. 3 + n
      /\ columns[1] = a /\ columns[2] = b /\ columns[3] = c
      /\ \A k \in 1 .. n : columns[3 + k] = rest[k]
  <2>1. IsList(rest)
    BY <1>4
  <2> HIDE DEF a, b, c
  <2>2. InTurn(columns, a, b, c, rest)
    BY <1>1, <2>1, AfterThree
  <2>3. QED  BY <2>2 DEF InTurn
<1>6. \A i \in DOMAIN columns : \E k : /\ columns[i] = Column(k)
                                       /\ k \in OtherKeys \/ \E l \in levels : k = LevelKeys[l]
  <2>1. ASSUME NEW i \in DOMAIN columns
        PROVE  \E k : columns[i] = Column(k) /\ (k \in OtherKeys \/ \E l \in levels : k = LevelKeys[l])
    <3>1. CASE i \in {1, 2, 3}
      BY <1>5, <3>1 DEF OtherKeys
    <3>2. CASE i \notin {1, 2, 3}
      <4> DEFINE k == i - 3
      <4>1. k \in 1 .. n /\ i = 3 + k
        BY <1>5, <3>2
      <4> HIDE DEF k
      <4>2. columns[i] \in ToSet(rest)
        BY <1>5, <4>1 DEF ToSet
      <4>3. PICK l \in levels : columns[i] = list[l]
        BY <1>4, <4>2
      <4>4. QED  BY <1>2, <4>3
    <3>3. QED  BY <3>1, <3>2
  <2>2. QED  BY <2>1
<1>7. ASSUME NEW k, k \in OtherKeys \/ \E l \in levels : k = LevelKeys[l]
      PROVE  \E i \in DOMAIN columns : columns[i] = Column(k)
  <2>1. CASE k \in OtherKeys
    <3>1. 1 \in DOMAIN columns /\ 2 \in DOMAIN columns /\ 3 \in DOMAIN columns
      BY <1>5
    <3>2. QED  BY <1>5, <2>1, <3>1 DEF OtherKeys
  <2>2. CASE \E l \in levels : k = LevelKeys[l]
    <3>1. PICK l \in levels : k = LevelKeys[l]
      BY <2>2
    <3>2. list[l] \in ToSet(rest)
      BY <1>4
    <3>3. PICK j \in 1 .. n : rest[j] = list[l]
      BY <1>5, <3>2 DEF ToSet
    <3>4. 3 + j \in DOMAIN columns /\ columns[3 + j] = Column(k)
      BY <1>2, <1>5, <3>1, <3>3
    <3>5. QED  BY <3>4
  <2>3. QED  BY <1>7, <2>1, <2>2
<1>8. \A k : DefinesCategory(Column(k)) /\ DefinedCategory(Column(k)) = k
  BY ColumnIs
<1>9. \A h \in ToSet(columns) : DefinesCategory(h)
  BY <1>6, <1>8 DEF ToSet
<1>10. QED  BY <1>6, <1>7, <1>8, <1>9

CountsThem(row, file, entries, its) ==
  /\ CellOf(row, "source_file") = <<file>>
  /\ CellOf(row, "entries") = <<Cardinality(its)>>
  /\ CellOf(row, "source_loc_count") = <<Cardinality({entries[i].line : i \in its})>>
  /\ \A l \in LevelsOf(entries) :
       CellOf(row, LevelKeys[l]) = IF {i \in its : entries[i].level = l} = {} THEN <<>>
                                   ELSE <<Cardinality({i \in its : entries[i].level = l})>>

\* A row counts what there is of its file.
FilesFound(items, places, word) == {i \in places : Found(word, {items[i].file})}
OfFile(items, places, file) == {i \in places : items[i].file = file}

LEMMA RowCounts ==
  ASSUME NEW items, NEW entries, NEW inRange, Lists(items, entries, inRange),
         LevelsOf(entries) \subseteq 0 .. 3, inRange \subseteq DOMAIN entries, NEW word,
         NEW matching, matching = FilesFound(items, DOMAIN items, word),
         NEW logged, logged = FilesFound(entries, inRange, word),
         NEW file, NEW row, row = FileRow(file, items, OfFile(items, matching, file))
  PROVE  /\ CountsFile(row, entries, logged) /\ row.properties["source_file"] = file
         /\ HasCells(row, LevelsOf(entries))
<1> DEFINE its == {i \in matching : items[i].file = file}
           theirs == {i \in logged : entries[i].file = file}
           of(l) == {i \in its : items[i].level = l}
           ofTheirs(l) == {i \in theirs : entries[i].level = l}
           levels == {items[i].level : i \in its}
<1>1. /\ \A i \in DOMAIN items : \E p \in inRange : items[i] = entries[p]
      /\ \A p \in inRange : \E i \in DOMAIN items : items[i] = entries[p]
  BY ListsThem
<1>2. its \in SUBSET DOMAIN items /\ theirs \in SUBSET inRange
  BY DEF FilesFound
<1>3. \A i \in DOMAIN items : \A p \in inRange : items[i] = entries[p] => (i \in its <=> p \in theirs)
  BY DEF FilesFound
<1>4. \A C, D : C \in SUBSET DOMAIN items /\ D \in SUBSET inRange /\ SameOnes(items, entries, inRange, C, D) =>
        IsFiniteSet(C) /\ IsFiniteSet(D) /\ Cardinality(C) = Cardinality(D)
  BY SameAreAsMany
<1> HIDE DEF its, theirs
<1>5. Cardinality(its) = Cardinality(theirs)
  <2>1. SameOnes(items, entries, inRange, its, theirs)
    BY <1>3 DEF SameOnes
  <2>2. QED  BY <1>2, <1>4, <2>1
<1>6. ASSUME NEW l
      PROVE  /\ Cardinality(of(l)) = Cardinality(ofTheirs(l))
             /\ ofTheirs(l) = {} <=> l \notin levels
  <2>1. of(l) \in SUBSET DOMAIN items /\ ofTheirs(l) \in SUBSET inRange
    BY <1>2
  <2>2. \A i \in DOMAIN items : \A p \in inRange : items[i] = entries[p] => (i \in of(l) <=> p \in ofTheirs(l))
    BY <1>3
  <2>3. ofTheirs(l) = {} <=> l \notin levels
    BY <1>1, <1>2, <1>3
  <2> DEFINE C == of(l)
             D == ofTheirs(l)
  <2>4. /\ C \in SUBSET DOMAIN items /\ D \in SUBSET inRange
        /\ \A i \in DOMAIN items : \A p \in inRange : items[i] = entries[p] => (i \in C <=> p \in D)
    BY <2>1, <2>2
  <2> HIDE DEF C, D
  <2>5. SameOnes(items, entries, inRange, C, D)
    BY <2>4 DEF SameOnes
  <2>6. Cardinality(C) = Cardinality(D)
    BY <1>4, <2>4, <2>5
  <2>7. QED  BY <2>3, <2>6 DEF C, D
<1>7. {items[i].line : i \in its} = {entries[i].line : i \in theirs}
  BY <1>1, <1>2, <1>3
<1>8. levels \subseteq LevelsOf(entries)
  BY <1>1, <1>2 DEF LevelsOf
<1>9. HasLevels(items, its, levels)
  BY <1>8 DEF HasLevels
<1>10. row = FileRow(file, items, its)
  BY DEF its, OfFile
<1> HIDE DEF levels
<1>11. RowShows(row, file, items, its, levels)
  BY <1>9, <1>10, FileRowIs
<1>12. CountsFile(row, entries, logged)
  <2>1. \A l \in LevelsOf(entries) : CellOf(row, LevelKeys[l]) = IF ofTheirs(l) = {} THEN <<>> ELSE <<Cardinality(ofTheirs(l))>>
    <3>1. ASSUME NEW l \in LevelsOf(entries)
          PROVE  CellOf(row, LevelKeys[l]) = IF ofTheirs(l) = {} THEN <<>> ELSE <<Cardinality(ofTheirs(l))>>
      <4>1. CASE l \in levels
        <5>1. ofTheirs(l) # {} /\ Cardinality(of(l)) = Cardinality(ofTheirs(l))
          BY <1>6, <4>1
        <5>2. CellOf(row, LevelKeys[l]) = <<Cardinality(of(l))>>
          BY <1>11, <4>1 DEF RowShows
        <5> HIDE DEF of, ofTheirs
        <5>3. QED  BY <5>1, <5>2
      <4>2. CASE l \notin levels
        <5>1. ofTheirs(l) = {}
          BY <1>6, <4>2
        <5>2. CellOf(row, LevelKeys[l]) = <<>>
          <6>1. l \in (0 .. 3) \ levels
            BY <4>2
          <6>2. QED  BY <1>11, <6>1 DEF RowShows
        <5> HIDE DEF of, ofTheirs
        <5>3. QED  BY <5>1, <5>2
      <4>3. QED  BY <4>1, <4>2
    <3>2. QED  BY <3>1
  <2>2. CellOf(row, "entries") = <<Cardinality(theirs)>> /\ CellOf(row, "source_file") = <<file>>
    BY <1>5, <1>11 DEF RowShows
  <2>3. CellOf(row, "source_loc_count") = <<Cardinality({entries[i].line : i \in theirs})>>
    BY <1>7, <1>11 DEF RowShows
  <2>4. row.properties["source_file"] = file
    BY <1>11 DEF RowShows
  <2>5. CountsThem(row, file, entries, theirs)
    BY <2>1, <2>2, <2>3 DEF CountsThem
  <2> DEFINE named == row.properties["source_file"]
             theirsNamed == {i \in logged : entries[i].file = named}
  <2>6. CountsThem(row, named, entries, theirsNamed) => CountsFile(row, entries, logged)
    BY DEF CountsThem, CountsFile
  <2>7. theirsNamed = theirs
    BY <2>4 DEF theirs
  <2> HIDE DEF theirsNamed
  <2>8. QED  BY <2>4, <2>5, <2>6, <2>7
<1>13. HasCells(row, LevelsOf(entries))
  BY <1>8, <1>11 DEF RowShows, HasCells
<1>14. QED  BY <1>11, <1>12, <1>13 DEF RowShows

Sources(items, word, chosen) == chosen \union {items[i].file : i \in FilesFound(items, DOMAIN items, word)}
RowFor(items, word, file) == FileRow(file, items, OfFile(items, FilesFound(items, DOMAIN items, word), file))
FileRows(items, word, chosen) == {RowFor(items, word, file) : file \in Sources(items, word, chosen)}

LEMMA FileTableIs ==
  ASSUME NEW found, NEW log, NEW filter, NEW query, FileTableOf(found, log, filter, query).kind = "ok"
  PROVE  FileTableOf(found, log, filter, query).what =
           NewTable(FileColumns(log), SetToSeq(FileRows(found.entries, query.search, filter.files)))
<1> DEFINE table == NewTable(FileColumns(log), SetToSeq(FileRows(found.entries, query.search, filter.files)))
<1>1. FileTableOf(found, log, filter, query) =
        CASE query.search = BadRegex -> Failure("error")
          [] query.search # BadRegex /\ found.crash -> Failure("panic")
          [] OTHER -> Answered(table)
  BY DEF FileTableOf, FileRows, RowFor, Sources, OfFile, FilesFound
<1>2. Failure("error").kind = "error" /\ Failure("panic").kind = "panic" /\ Answered(table).what = table
  BY DEF Failure, Answered
<1> HIDE DEF table
<1>3. FileTableOf(found, log, filter, query).what = table
  BY <1>1, <1>2
<1>4. QED  BY <1>3 DEF table

LEMMA CellsFit ==
  ASSUME NEW levels, NEW table, NEW row, HasCells(row, levels),
         \A k \in OtherKeys : k \in ToSet(Columns(table)), \A l \in levels : LevelKeys[l] \in ToSet(Columns(table)),
         NEW cell \in ToSet(row.children)
  PROVE  /\ TagsAreKnown(ToSet(Columns(table)), cell)
         /\ Len(TagsOf(cell.properties)) <= 1
         /\ cell.children = <<>> /\ ~Has(cell, "table_formatted_cell")
<1>1. /\ cell.children = <<>> /\ ~Has(cell, "table_formatted_cell")
      /\ \E column : /\ column \in OtherKeys \/ \E l \in levels : column = LevelKeys[l]
                     /\ TagsOf(cell.properties) = <<column>>
  BY DEF HasCells
<1>2. PICK column : /\ column \in OtherKeys \/ \E l \in levels : column = LevelKeys[l]
                    /\ TagsOf(cell.properties) = <<column>>
  BY <1>1
<1>3. column \in ToSet(Columns(table))
  BY <1>2
<1>4. TagsAreKnown(ToSet(Columns(table)), cell)
  BY <1>2, <1>3 DEF TagsAreKnown
<1>5. Len(TagsOf(cell.properties)) <= 1
  BY <1>2
<1>6. QED  BY <1>1, <1>4, <1>5

LEMMA FilesAreShown ==
  ASSUME NEW log, NEW entries, LevelsOf(log) = LevelsOf(entries), LevelsOf(entries) \subseteq 0 .. 3,
         NEW found, NEW inRange, inRange \subseteq DOMAIN entries, Lists(found.entries, entries, inRange),
         NEW filter, IsFiniteSet(filter.files),
         NEW query, NEW logged, logged = FilesFound(entries, inRange, query.search),
         FileTableOf(found, log, filter, query).kind = "ok"
  PROVE  /\ ShowsFiles(FileTableOf(found, log, filter, query).what, entries, logged)
         /\ filter.files \subseteq FilesListed(FileTableOf(found, log, filter, query).what)
<1> DEFINE items == found.entries
           word == query.search
           matching == FilesFound(items, DOMAIN items, word)
           matched == {items[i].file : i \in matching}
           sources == Sources(items, word, filter.files)
           made == [file \in sources |-> RowFor(items, word, file)]
           rows == FileRows(items, word, filter.files)
           levels == LevelsOf(entries)
           columns == FileColumns(log)
           list == SetToSeq(rows)
           table == NewTable(columns, list)
<1>1. Lists(items, entries, inRange) /\ logged = FilesFound(entries, inRange, word)
  OBVIOUS
<1>2. FileTableOf(found, log, filter, query).what = table
  BY FileTableIs
<1> HIDE DEF items, word
<1>3. /\ Len(items) \in Nat /\ DOMAIN items = 1 .. Len(items)
      /\ \A p \in inRange : \E i \in DOMAIN items : items[i] = entries[p]
  BY <1>1, ListsThem
<1>4. ASSUME NEW file \in sources
      PROVE  /\ CountsFile(made[file], entries, logged) /\ made[file].properties["source_file"] = file
             /\ HasCells(made[file], levels)
  <2> DEFINE row == made[file]
  <2>1. row = FileRow(file, items, OfFile(items, matching, file))
    BY DEF RowFor
  <2>2. matching = FilesFound(items, DOMAIN items, word)
    OBVIOUS
  <2> HIDE DEF row, matching
  <2>3. CountsFile(row, entries, logged)
    BY <1>1, <2>1, <2>2, RowCounts
  <2>4. row.properties["source_file"] = file
    BY <1>1, <2>1, <2>2, RowCounts
  <2>5. HasCells(row, levels)
    BY <1>1, <2>1, <2>2, RowCounts
  <2>6. QED  BY <2>3, <2>4, <2>5 DEF row
<1>5. IsFiniteSet(sources)
  <2> DEFINE D == DOMAIN items
             fileOf == [i \in matching |-> items[i].file]
  <2>1. IsFiniteSet(D) /\ matching \in SUBSET D
    BY <1>3, FS_Interval DEF FilesFound
  <2>2. \A t : t \in matched <=> \E i \in matching : t = fileOf[i]
    OBVIOUS
  <2>3. sources = filter.files \union matched
    BY DEF Sources
  <2> HIDE DEF D, matching, matched, fileOf, sources
  <2>4. IsFiniteSet(matching)
    BY <2>1, FS_Subset
  <2>5. IsFiniteSet(matched)
    BY <2>2, <2>4, ValuesFinite
  <2>6. QED  BY <2>3, <2>5, FS_Union
<1>6. {entries[i].file : i \in logged} \subseteq sources
  <2>1. ASSUME NEW i \in logged
        PROVE  entries[i].file \in sources
    <3>1. i \in inRange /\ Found(word, {entries[i].file})
      BY <1>1 DEF FilesFound
    <3>2. PICK j \in DOMAIN items : items[j] = entries[i]
      BY <1>3, <3>1
    <3>3. j \in matching
      BY <3>1, <3>2 DEF FilesFound
    <3>4. QED  BY <3>2, <3>3 DEF Sources
  <2>2. QED  BY <2>1
<1>7. \A row : row \in rows <=> \E file \in sources : row = made[file]
  BY DEF FileRows
<1> HIDE DEF matching, matched, sources, made, rows, list, columns
<1>8. IsFiniteSet(rows) /\ Cardinality(rows) = Cardinality(sources)
  <2>1. \A a, b \in sources : made[a] = made[b] => a = b
    BY <1>4
  <2>2. QED  BY <1>5, <1>7, <2>1, ValuesFinite
<1>9. IsList(list) /\ Len(list) = Cardinality(rows) /\ ToSet(list) = rows
  BY <1>8, SetListed DEF list
<1>10. table = NewTable(columns, list)
  OBVIOUS
<1> HIDE DEF table
<1>11. /\ table.children # <<>> /\ table.children[1].children = columns
       /\ Columns(table) = [i \in DOMAIN columns |-> DefinedCategory(columns[i])]
       /\ RowNodes(table) = list /\ RowCount(table) = Len(list) /\ AllRows(table) = ToSet(list)
  BY <1>9, <1>10, TableIs
<1>12. /\ \A h \in ToSet(columns) : DefinesCategory(h)
       /\ \A k : (\E i \in DOMAIN columns : k = DefinedCategory(columns[i]))
                 <=> (k \in OtherKeys \/ \E l \in levels : k = LevelKeys[l])
  BY FileColumnsAre DEF columns
<1>13. ToSet(Columns(table)) = {"source_file", "source_loc_count", "entries"} \union {LevelKeys[l] : l \in levels}
  <2>1. \A k : k \in ToSet(Columns(table)) <=> \E i \in DOMAIN columns : k = DefinedCategory(columns[i])
    BY <1>11 DEF ToSet
  <2>2. QED  BY <1>12, <2>1 DEF OtherKeys
<1>14. FilesListed(table) = sources
  <2>1. AllRows(table) = rows
    BY <1>9, <1>11
  <2>2. FilesListed(table) = {row.properties["source_file"] : row \in rows}
    BY <2>1 DEF FilesListed
  <2>3. \A file \in sources : made[file] \in rows /\ made[file].properties["source_file"] = file
    BY <1>4, <1>7
  <2>4. \A row \in rows : row.properties["source_file"] \in sources
    BY <1>4, <1>7
  <2>5. QED  BY <2>2, <2>3, <2>4
<1>15. IsTable(table)
  <2>1. ASSUME NEW row \in ToSet(RowNodes(table)), NEW cell \in ToSet(row.children)
        PROVE  /\ TagsAreKnown(ToSet(Columns(table)), cell)
               /\ Len(TagsOf(cell.properties)) <= 1
               /\ cell.children = <<>> /\ ~Has(cell, "table_formatted_cell")
    <3>1. HasCells(row, levels)
      BY <1>4, <1>7, <1>9, <1>11
    <3>2. (\A k \in OtherKeys : k \in ToSet(Columns(table))) /\ \A l \in levels : LevelKeys[l] \in ToSet(Columns(table))
      BY <1>13 DEF OtherKeys
    <3>3. QED  BY <3>1, <3>2, CellsFit
  <2>2. QED  BY <1>11, <1>12, <2>1 DEF IsTable
<1>16. \A row \in AllRows(table) : CountsFile(row, entries, logged)
  BY <1>4, <1>7, <1>9, <1>11
<1>17. ShowsFiles(table, entries, logged)
  BY <1>6, <1>8, <1>9, <1>11, <1>13, <1>14, <1>15, <1>16 DEF ShowsFiles
<1>18. filter.files \subseteq FilesListed(table)
  BY <1>14 DEF sources, Sources
<1>19. QED  BY <1>2, <1>17, <1>18

-----------------------------------------------------------------------------
(* The answers *)

\* What a request finds: a log that has the entries, and filters that it asks for.
Asks(log, entries, globals, filter) ==
  /\ Lists(log, entries, DOMAIN entries) /\ AreTimed(entries) /\ log # <<>>
  /\ LevelsOf(entries) \subseteq 0 .. 3
  /\ globals.start \in Int /\ globals.end \in Int
  /\ filter = FilterFromGlobalFilters(log, globals)

TimesIn(entries, within) == {i \in DOMAIN entries : within.start <= entries[i].time /\ entries[i].time <= within.end}
SelectedIn(entries, within, names) ==
  {i \in TimesIn(entries, within) : names = {} \/ entries[i].file \in names}

LEMMA AskedFilter ==
  ASSUME NEW log, NEW entries, NEW globals, NEW filter, Asks(log, entries, globals, filter),
         NEW within, within = FilterFromGlobalFilters(Ends(entries), globals)
  PROVE  /\ filter.start \in Int /\ filter.end \in Int /\ filter.files = globals.files
         /\ within.start = filter.start /\ within.end = filter.end
         /\ RangeFits(Ends(entries), globals, within)
<1>1. /\ StartOf(log) = StartOf(Ends(entries)) /\ EndOf(log) = EndOf(Ends(entries))
      /\ StartOf(log) \in Int /\ EndOf(log) \in Int /\ StartOf(log) <= EndOf(log)
  BY EndsAgree DEF Asks
<1>2. filter = FilterFromGlobalFilters(log, globals) /\ globals.start \in Int /\ globals.end \in Int
  BY DEF Asks
<1>3. filter.start \in Int /\ filter.end \in Int /\ filter.files = globals.files
  BY <1>1, <1>2, FilterIsTyped
<1>4. within.start = filter.start /\ within.end = filter.end
  BY <1>1, <1>2, SameFilter
<1>5. RangeFits(Ends(entries), globals, within)
  BY <1>1, <1>2, RangeIsFit
<1>6. QED  BY <1>3, <1>4, <1>5

\* What the log has for filters, and for those of the range alone.
LEMMA FoundForAll ==
  ASSUME NEW log, NEW entries, NEW globals, NEW filter, Asks(log, entries, globals, filter),
         filter.start \in Int, filter.end \in Int
  PROVE  /\ Lists(ForEachEntry(log, filter).entries, entries, SelectedIn(entries, filter, filter.files))
         /\ Lists(ForEachEntry(log, [filter EXCEPT !.files = {}]).entries, entries, TimesIn(entries, filter))
         /\ \A i \in TimesIn(entries, filter) : /\ entries[i].time \in Int /\ filter.start <= entries[i].time
                                                /\ entries[i].time <= filter.end
<1>1. Lists(log, entries, DOMAIN entries) /\ AreTimed(entries) /\ log # <<>>
  BY DEF Asks
<1>2. Lists(ForEachEntry(log, filter).entries, entries, InRange(entries, filter))
  BY <1>1, FoundAreListed
<1>3. InRange(entries, filter) = SelectedIn(entries, filter, filter.files)
  BY DEF InRange, SelectedIn, TimesIn
<1> DEFINE bare == [filter EXCEPT !.files = {}]
<1>4. bare.start = filter.start /\ bare.end = filter.end /\ bare.files = {}
  <2>1. PICK g : filter = [known |-> g.known, start |-> g.start, end |-> g.end, files |-> g.files]
    <3>1. filter = FilterFromGlobalFilters(log, globals)
      BY DEF Asks
    <3>2. \E k, s, e, f : filter = [known |-> k, start |-> s, end |-> e, files |-> f]
      BY <3>1 DEF FilterFromGlobalFilters
    <3>3. PICK k, s, e, f : filter = [known |-> k, start |-> s, end |-> e, files |-> f]
      BY <3>2
    <3> DEFINE r == [known |-> k, start |-> s, end |-> e, files |-> f]
    <3>4. filter = [known |-> r.known, start |-> r.start, end |-> r.end, files |-> r.files]
      BY <3>3
    <3>5. QED  BY <3>4
  <2>2. QED  BY <2>1
<1>5. InRange(entries, bare) = TimesIn(entries, filter)
  <2> HIDE DEF bare
  <2>1. QED  BY <1>4 DEF InRange, TimesIn
<1> HIDE DEF bare
<1>6. Lists(ForEachEntry(log, bare).entries, entries, InRange(entries, bare))
  BY <1>1, <1>4, FoundAreListed
<1>7. \A i \in TimesIn(entries, filter) : /\ entries[i].time \in Int /\ filter.start <= entries[i].time
                                          /\ entries[i].time <= filter.end
  BY <1>1 DEF TimesIn, AreTimed
<1>8. QED  BY <1>2, <1>3, <1>5, <1>6, <1>7 DEF bare

\* The files that are known are finitely many, and the log has the levels of its entries.
LEMMA KnownFiles ==
  ASSUME NEW log, NEW entries, Lists(log, entries, DOMAIN entries), NEW names, names \subseteq FilesOf(log)
  PROVE  IsFiniteSet(names) /\ LevelsOf(log) = LevelsOf(entries)
<1>1. /\ Len(log) \in Nat /\ DOMAIN log = 1 .. Len(log)
      /\ \A i \in DOMAIN log : \E p \in DOMAIN entries : log[i] = entries[p]
      /\ \A p \in DOMAIN entries : \E i \in DOMAIN log : log[i] = entries[p]
  BY ListsThem
<1>2. LevelsOf(log) = LevelsOf(entries)
  BY <1>1 DEF LevelsOf
<1>3. IsFiniteSet(FilesOf(log))
  <2> DEFINE D == DOMAIN log
             fileOf == [i \in D |-> log[i].file]
             S == FilesOf(log)
  <2>1. IsFiniteSet(D)
    <3> DEFINE n == Len(log)
    <3>1. n \in Nat /\ 1 \in Int
      BY <1>1
    <3>2. D = 1 .. n
      BY <1>1
    <3> HIDE DEF n, D
    <3>3. IsFiniteSet(1 .. n)
      BY <3>1, FS_Interval
    <3>4. QED  BY <3>2, <3>3
  <2>2. \A t : t \in S <=> \E s \in D : t = fileOf[s]
    BY DEF FilesOf
  <2> HIDE DEF D, fileOf, S
  <2>3. IsFiniteSet(S)
    BY <2>1, <2>2, ValuesFinite
  <2>4. QED  BY <2>3 DEF S
<1>4. IsFiniteSet(names)
  BY <1>3, FS_Subset
<1>5. QED  BY <1>2, <1>4

\* How each query is answered.
LEMMA OutcomeIs ==
  ASSUME NEW log, NEW filter, NEW query
  PROVE  /\ query.name = "logs.aggregate_source_files_table" =>
              Outcome(log, filter, query) = FileTableOf(ForEachEntry(log, [filter EXCEPT !.files = {}]), log, filter, query)
         /\ query.name = "logs.raw_entries" =>
              Outcome(log, filter, query) = EventsOf(ForEachEntry(log, filter), query)
         /\ query.name = "logs.timeseries" =>
              Outcome(log, filter, query) = SeriesFrom(ForEachEntry(log, filter), filter, query)
         /\ query.name = "logs.trace" => Outcome(log, filter, query) = TreeOf(ForEachEntry(log, filter))
         /\ query.name = "logs.pan_and_zoom" => Outcome(log, filter, query) = Answered(PanAndZoom(filter))
<1> DEFINE found == ForEachEntry(log, filter)
           all == ForEachEntry(log, [filter EXCEPT !.files = {}])
<1>1. SourceFileTable(log, filter, query) = FileTableOf(all, log, filter, query)
  <2>1. {FileTableOf(f, log, filter, query) : f \in {all}} = {FileTableOf(all, log, filter, query)}
    OBVIOUS
  <2>2. SourceFileTable(log, filter, query) = Only({FileTableOf(all, log, filter, query)})
    BY <2>1 DEF SourceFileTable
  <2>3. QED  BY <2>2, OnlyOne
<1>2. RawEntries(log, filter, query) = EventsOf(found, query)
  <2>1. {EventsOf(f, query) : f \in {found}} = {EventsOf(found, query)}
    OBVIOUS
  <2>2. RawEntries(log, filter, query) = Only({EventsOf(found, query)})
    BY <2>1 DEF RawEntries
  <2>3. QED  BY <2>2, OnlyOne
<1>3. Timeseries(log, filter, query) = SeriesFrom(found, filter, query)
  <2>1. {SeriesFrom(f, filter, query) : f \in {found}} = {SeriesFrom(found, filter, query)}
    OBVIOUS
  <2>2. Timeseries(log, filter, query) = Only({SeriesFrom(found, filter, query)})
    BY <2>1 DEF Timeseries
  <2>3. QED  BY <2>2, OnlyOne
<1>4. TraceOf(log, filter) = TreeOf(found)
  <2>1. {TreeOf(f) : f \in {found}} = {TreeOf(found)}
    OBVIOUS
  <2>2. TraceOf(log, filter) = Only({TreeOf(found)})
    BY <2>1 DEF TraceOf
  <2>3. QED  BY <2>2, OnlyOne
<1> HIDE DEF found, all
<1>5. QED  BY <1>1, <1>2, <1>3, <1>4 DEF Outcome, found, all

\* What handlePanAndZoomQuery() answers is the range of the filter.
LEMMA RangeAnswered ==
  ASSUME NEW filter
  PROVE  RangeOf(PanAndZoom(filter)) = [start |-> filter.start, end |-> filter.end]
BY DEF RangeOf, PanAndZoom, Node

\* What an answer must be, with the entries that it must be about.
AnswersIn(entries, globals, within, query, node, inRange, selected) ==
  CASE query.name = "logs.aggregate_source_files_table" ->
         ShowsFiles(node, entries, FilesFound(entries, inRange, query.search))
    [] query.name = "logs.raw_entries" ->
         ShowsEvents(node, entries, {i \in selected : Found(query.search, entries[i].words)})
    [] query.name = "logs.timeseries" ->
         ShowsSeries(node, within, BinWidth(within, query), query.bins, entries, selected)
    [] query.name = "logs.trace" -> SpansTrace(GetAxis(node), entries, selected)
    [] query.name = "logs.pan_and_zoom" -> RangeFits(Ends(entries), globals, RangeOf(node))

LEMMA AnswersAre ==
  ASSUME NEW entries, NEW globals, NEW within, NEW query, NEW node
  PROVE  Answers(entries, globals, within, query, node) =
           AnswersIn(entries, globals, within, query, node, TimesIn(entries, within),
                     SelectedIn(entries, within, globals.files))
BY DEF Answers, AnswersIn, TimesIn, SelectedIn, FilesFound

\* An axis or a series only takes the ends of the range.
LEMMA RangeIsEnough ==
  ASSUME NEW filter, NEW within, within.start = filter.start, within.end = filter.end,
         NEW query, NEW chart, NEW bins, NEW entries, NEW selected,
         ShowsSeries(chart, filter, BinWidth(filter, query), bins, entries, selected)
  PROVE  ShowsSeries(chart, within, BinWidth(within, query), bins, entries, selected)
<1>1. BinWidth(within, query) = BinWidth(filter, query)
  BY DEF BinWidth
<1>2. QED  BY <1>1 DEF ShowsSeries

\* An answer that is right, for a request with these filters.
RightAnswer(entries, globals, query, node) ==
  LET within == FilterFromGlobalFilters(Ends(entries), globals)
  IN  /\ Answers(entries, globals, within, query, node)
      /\ query.name = "logs.aggregate_source_files_table" => globals.files \subseteq FilesListed(node)
      /\ RangeFits(Ends(entries), globals, within)

IsRange(within) == within.start \in Int /\ within.end \in Int

LEMMA OutcomeAnswers ==
  ASSUME NEW log, NEW entries, NEW globals, NEW filter, Asks(log, entries, globals, filter), filter.known,
         NEW query, IsQuery(query), NEW outcome, outcome = Outcome(log, filter, query), outcome.kind = "ok"
  PROVE  /\ RightAnswer(entries, globals, query, outcome.what)
         /\ query.name = "logs.pan_and_zoom" => IsRange(RangeOf(outcome.what))
<1> DEFINE within == FilterFromGlobalFilters(Ends(entries), globals)
           times == TimesIn(entries, within)
           selected == SelectedIn(entries, within, globals.files)
           node == outcome.what
<1>1. /\ filter.start \in Int /\ filter.end \in Int /\ filter.files = globals.files
      /\ within.start = filter.start /\ within.end = filter.end
      /\ RangeFits(Ends(entries), globals, within)
  BY AskedFilter
<1>2. times = TimesIn(entries, filter) /\ selected = SelectedIn(entries, filter, filter.files)
  BY <1>1 DEF TimesIn, SelectedIn
<1> DEFINE found == ForEachEntry(log, filter)
           all == ForEachEntry(log, [filter EXCEPT !.files = {}])
<1>3. /\ Lists(found.entries, entries, selected)
      /\ Lists(all.entries, entries, times)
      /\ \A i \in times : /\ entries[i].time \in Int /\ filter.start <= entries[i].time
                          /\ entries[i].time <= filter.end
  BY <1>1, <1>2, FoundForAll
<1>4. selected \subseteq times /\ times \subseteq DOMAIN entries
  BY DEF SelectedIn, TimesIn
<1> HIDE DEF within, times, selected, found, all, node
<1>5. \A i \in selected : /\ entries[i].time \in Int /\ filter.start <= entries[i].time
                          /\ entries[i].time <= filter.end
  BY <1>3, <1>4
<1>6. SUFFICES /\ AnswersIn(entries, globals, within, query, node, times, selected)
               /\ query.name = "logs.aggregate_source_files_table" => globals.files \subseteq FilesListed(node)
               /\ query.name = "logs.pan_and_zoom" => IsRange(RangeOf(node))
  BY <1>1, AnswersAre DEF RightAnswer, within, times, selected, node
<1>7. CASE query.name = "logs.aggregate_source_files_table"
  <2>1. outcome = FileTableOf(all, log, filter, query)
    BY <1>7, OutcomeIs DEF all
  <2>2. IsFiniteSet(filter.files) /\ LevelsOf(log) = LevelsOf(entries) /\ LevelsOf(entries) \subseteq 0 .. 3
    <3>1. /\ Lists(log, entries, DOMAIN entries) /\ LevelsOf(entries) \subseteq 0 .. 3
          /\ filter = FilterFromGlobalFilters(log, globals)
      BY DEF Asks
    <3>2. filter.files \subseteq FilesOf(log)
      BY <1>1, <3>1 DEF FilterFromGlobalFilters
    <3>3. QED  BY <3>1, <3>2, KnownFiles
  <2>3. /\ ShowsFiles(FileTableOf(all, log, filter, query).what, entries, FilesFound(entries, times, query.search))
        /\ filter.files \subseteq FilesListed(FileTableOf(all, log, filter, query).what)
    BY <1>3, <1>4, <2>1, <2>2, FilesAreShown
  <2>4. ShowsFiles(node, entries, FilesFound(entries, times, query.search)) /\ globals.files \subseteq FilesListed(node)
    BY <1>1, <2>1, <2>3 DEF node
  <2>5. QED  BY <1>7, <2>4 DEF AnswersIn
<1>8. CASE query.name = "logs.raw_entries"
  <2>1. outcome = EventsOf(found, query)
    BY <1>8, OutcomeIs DEF found
  <2>2. ShowsEvents(EventsOf(found, query).what, entries, {i \in selected : Found(query.search, entries[i].words)})
    BY <1>3, <2>1, EventsAreShown
  <2>3. QED  BY <1>8, <2>1, <2>2 DEF AnswersIn, node
<1>9. CASE query.name = "logs.timeseries"
  <2>1. outcome = SeriesFrom(found, filter, query)
    BY <1>9, OutcomeIs DEF found
  <2>2. query.bins \in Int
    BY <1>9 DEF IsQuery
  <2>3. ShowsSeries(SeriesFrom(found, filter, query).what, filter, BinWidth(filter, query), query.bins,
                    entries, selected)
    BY <1>1, <1>3, <1>5, <2>1, <2>2, SeriesAreShown
  <2>4. ShowsSeries(node, filter, BinWidth(filter, query), query.bins, entries, selected)
    BY <2>1, <2>3 DEF node
  <2>5. ShowsSeries(node, within, BinWidth(within, query), query.bins, entries, selected)
    BY <1>1, <2>4, RangeIsEnough
  <2>6. QED  BY <1>9, <2>5 DEF AnswersIn
<1>10. CASE query.name = "logs.trace"
  <2>1. outcome = TreeOf(found)
    BY <1>10, OutcomeIs DEF found
  <2>2. SpansTrace(GetAxis(TreeOf(found).what), entries, selected)
    BY <1>3, <1>5, <2>1, TraceIsSpanned
  <2>3. QED  BY <1>10, <2>1, <2>2 DEF AnswersIn, node
<1>11. CASE query.name = "logs.pan_and_zoom"
  <2>1. node = PanAndZoom(filter)
    <3>1. outcome = Answered(PanAndZoom(filter))
      BY <1>11, OutcomeIs
    <3>2. QED  BY <3>1 DEF node, Answered
  <2> DEFINE spelled == [start |-> filter.start, end |-> filter.end]
  <2>2. RangeOf(node) = spelled
    BY <2>1, RangeAnswered
  <2>3. spelled.start = filter.start /\ spelled.end = filter.end
    OBVIOUS
  <2> HIDE DEF spelled
  <2>4. RangeFits(Ends(entries), globals, spelled)
    BY <1>1, <2>3 DEF RangeFits
  <2>5. QED  BY <1>1, <1>11, <2>2, <2>3, <2>4 DEF AnswersIn, IsRange
<1>12. QED  BY <1>7, <1>8, <1>9, <1>10, <1>11 DEF IsQuery

-----------------------------------------------------------------------------
(* Requests and replies *)

\* The queries of a request that is answered were all answered.
LEMMA AllAnswered ==
  ASSUME NEW log, NEW filter, NEW queries, NEW n \in Nat, DOMAIN queries = 1 .. n, NEW outcome,
         outcome = HandleDataSeriesRequests(log, filter, queries), outcome.kind = "ok"
  PROVE  /\ filter.known
         /\ \A i \in DOMAIN queries : /\ Outcome(log, filter, queries[i]).kind = "ok"
                                     /\ outcome.what[i] = Outcome(log, filter, queries[i]).what
<1> DEFINE outcomes == [i \in DOMAIN queries |-> Outcome(log, filter, queries[i])]
           failing == {i \in DOMAIN outcomes : outcomes[i].kind # "ok"}
<1>1. outcome = Result(outcomes, filter.known)
  <2> DEFINE result(o) == Result(o, filter.known)
  <2>1. {result(o) : o \in {outcomes}} = {result(outcomes)}
    <3> HIDE DEF outcomes, result
    <3>1. QED  OBVIOUS
  <2>2. outcome = Only({result(outcomes)})
    BY <2>1 DEF HandleDataSeriesRequests
  <2> HIDE DEF outcomes
  <2>3. QED  BY <2>2, OnlyOne
<1>2. DOMAIN outcomes = DOMAIN queries /\ \A i \in DOMAIN queries : outcomes[i] = Outcome(log, filter, queries[i])
  OBVIOUS
<1> HIDE DEF outcomes
<1>3. filter.known
  <2>1. ~filter.known => outcome = Failure("error")
    BY <1>1 DEF Result
  <2>2. Failure("error").kind = "error"
    BY DEF Failure
  <2>3. QED  BY <2>1, <2>2
<1>4. failing = {}
  <2>1. ASSUME failing # {}
        PROVE  FALSE
    <3>1. failing \subseteq Nat
      BY <1>2
    <3>2. PICK x \in failing : \A y \in failing : x <= y
      <4> HIDE DEF failing
      <4>1. QED  BY <2>1, <3>1, LeastNatural
    <3> DEFINE first == CHOOSE i \in failing : \A j \in failing : i <= j
    <3>3. first \in failing
      <4> HIDE DEF failing
      <4>1. QED  BY <3>2
    <3>4. outcome = Failure(outcomes[first].kind)
      BY <1>1, <1>3, <2>1 DEF Result
    <3> HIDE DEF first
    <3>5. outcomes[first].kind # "ok"
      BY <3>3
    <3>6. outcome.kind = outcomes[first].kind
      BY <3>4 DEF Failure
    <3>7. QED  BY <3>5, <3>6
  <2>2. QED  BY <2>1
<1>5. outcome = Answered([i \in DOMAIN outcomes |-> outcomes[i].what])
  BY <1>1, <1>3, <1>4 DEF Result
<1>6. \A i \in DOMAIN queries : outcomes[i].kind = "ok" /\ outcome.what[i] = outcomes[i].what
  BY <1>2, <1>4, <1>5 DEF Answered
<1>7. QED  BY <1>2, <1>3, <1>6

\* A whole log lists the entries of its file.
LEMMA WholeIsListed ==
  ASSUME NEW name, NEW log, Whole(name, log), NEW entries, entries = EntriesIn(Collections[name])
  PROVE  /\ Lists(log, entries, DOMAIN entries) /\ AreTimed(entries) /\ log # <<>>
         /\ LevelsOf(entries) \subseteq 0 .. 3
<1> DEFINE lines == Collections[name]
<1>1. /\ name \in DOMAIN Collections /\ log # <<>> /\ IsList(log) /\ TimeOrdered(log)
      /\ \E order \in Bijection(DOMAIN log, FirstLines(lines)) :
           \A i \in DOMAIN log : log[i] = EntryAt(lines, order[i])
  BY DEF Whole, IsList
<1>2. /\ DOMAIN entries = FirstLines(lines)
      /\ \A i \in FirstLines(lines) : entries[i] = EntryAt(lines, i)
  BY DEF EntriesIn
<1>3. Lists(log, entries, DOMAIN entries)
  <2>1. PICK order \in Bijection(DOMAIN log, FirstLines(lines)) :
          \A i \in DOMAIN log : log[i] = EntryAt(lines, order[i])
    BY <1>1
  <2>2. \A i \in DOMAIN log : order[i] \in FirstLines(lines)
    BY Fun_BijectionProperties
  <2>3. \A i \in DOMAIN log : log[i] = entries[order[i]]
    BY <1>2, <2>1, <2>2
  <2>4. QED  BY <1>1, <1>2, <2>3 DEF Lists
<1>4. \A line \in ToSet(lines) : line.kind # "junk" => line.time \in Int /\ line.level \in DOMAIN LevelKeys
  BY <1>1, CollectionsAssumption
<1>5. \A i \in FirstLines(lines) : lines[i].time \in Int /\ lines[i].level \in 0 .. 3
  <2>1. \A i \in FirstLines(lines) : lines[i] \in ToSet(lines) /\ lines[i].kind # "junk"
    BY DEF FirstLines, Begins, ToSet
  <2>2. DOMAIN LevelKeys = 0 .. 3
    BY DEF LevelKeys
  <2>3. QED  BY <1>4, <2>1, <2>2
<1>6. \A i \in FirstLines(lines) : entries[i].time = lines[i].time /\ entries[i].level = lines[i].level
  <2>1. ASSUME NEW i
        PROVE  EntryAt(lines, i).time = lines[i].time /\ EntryAt(lines, i).level = lines[i].level
    <3>1. \E w : EntryAt(lines, i) = [time |-> lines[i].time, level |-> lines[i].level, file |-> lines[i].file,
                                     line |-> lines[i].line, words |-> w]
      BY DEF EntryAt
    <3>2. PICK w : EntryAt(lines, i) = [time |-> lines[i].time, level |-> lines[i].level, file |-> lines[i].file,
                                        line |-> lines[i].line, words |-> w]
      BY <3>1
    <3> HIDE DEF lines
    <3>3. QED  BY <3>2
  <2>2. QED  BY <1>2, <2>1
<1>7. AreTimed(entries) /\ LevelsOf(entries) \subseteq 0 .. 3
  BY <1>2, <1>5, <1>6 DEF AreTimed, LevelsOf
<1>8. QED  BY <1>1, <1>3, <1>7

\* What a client may ask for.
IsAsked(request) ==
  /\ IsRange(request.globals)
  /\ request.queries \in Seq(ToSet(request.queries))
  /\ \A i \in DOMAIN request.queries : IsQuery(request.queries[i])

\* A reply that is right, as `what' the answers are.
RightReply(request, what) ==
  \A i \in DOMAIN request.queries :
    /\ RightAnswer(EntriesIn(Collections[request.globals.collection]), request.globals,
                   request.queries[i], what[i])
    /\ request.queries[i].name = "logs.pan_and_zoom" => IsRange(RangeOf(what[i]))

\* What is answered from a whole log is right.
LEMMA WholeAnswers ==
  ASSUME NEW request, IsAsked(request), NEW log, Whole(request.globals.collection, log),
         NEW outcome, outcome = HandleDataSeriesRequests(log, FilterFromGlobalFilters(log, request.globals),
                                                         request.queries),
         outcome.kind = "ok"
  PROVE  RightReply(request, outcome.what)
<1> DEFINE globals == request.globals
           queries == request.queries
           entries == EntriesIn(Collections[globals.collection])
           filter == FilterFromGlobalFilters(log, globals)
<1>1. Len(queries) \in Nat /\ DOMAIN queries = 1 .. Len(queries)
  BY DEF IsAsked
<1>2. /\ filter.known
      /\ \A i \in DOMAIN queries : /\ Outcome(log, filter, queries[i]).kind = "ok"
                                  /\ outcome.what[i] = Outcome(log, filter, queries[i]).what
  <2> DEFINE n == Len(queries)
  <2>1. n \in Nat /\ DOMAIN queries = 1 .. n
    BY <1>1
  <2>2. outcome = HandleDataSeriesRequests(log, filter, queries)
    OBVIOUS
  <2> HIDE DEF n, filter, queries
  <2>3. QED  BY <2>1, <2>2, AllAnswered
<1>3. Asks(log, entries, globals, filter)
  <2>1. /\ Lists(log, entries, DOMAIN entries) /\ AreTimed(entries) /\ log # <<>>
        /\ LevelsOf(entries) \subseteq 0 .. 3
    <3> HIDE DEF entries
    <3>1. entries = EntriesIn(Collections[globals.collection])
      BY DEF entries
    <3> DEFINE name == globals.collection
    <3>2. Whole(name, log) /\ entries = EntriesIn(Collections[name])
      BY <3>1
    <3> HIDE DEF name, globals
    <3>3. QED  BY <3>2, WholeIsListed
  <2>2. globals.start \in Int /\ globals.end \in Int
    BY DEF IsAsked, IsRange
  <2> HIDE DEF entries, globals
  <2>3. QED  BY <2>1, <2>2 DEF Asks, filter
<1>4. \A i \in DOMAIN queries : IsQuery(queries[i])
  BY DEF IsAsked
<1> HIDE DEF entries, filter, queries, globals
<1>5. ASSUME NEW i \in DOMAIN queries
      PROVE  /\ RightAnswer(entries, globals, queries[i], outcome.what[i])
             /\ queries[i].name = "logs.pan_and_zoom" => IsRange(RangeOf(outcome.what[i]))
  <2> DEFINE query == queries[i]
             one == Outcome(log, filter, query)
  <2>1. one.kind = "ok" /\ outcome.what[i] = one.what /\ IsQuery(query)
    BY <1>2, <1>4
  <2>2. one = Outcome(log, filter, query)
    OBVIOUS
  <2> HIDE DEF query, one
  <2>3. /\ RightAnswer(entries, globals, query, one.what)
        /\ query.name = "logs.pan_and_zoom" => IsRange(RangeOf(one.what))
    BY <1>2, <1>3, <2>1, <2>2, OutcomeAnswers
  <2>4. QED  BY <2>1, <2>3 DEF query
<1>6. QED  BY <1>5 DEF RightReply, entries, globals, queries

(***************************************************************************)
(* The inductive invariant: requests are of the kinds that clients make;   *)
(* an answer is only kept until its request is done with, and is right for *)
(* that request.  The client's range comes from the brush or from an       *)
(* answer to a query for it.                                               *)
(***************************************************************************)
Asking(id) == pc[id] # "free" => IsAsked(asked[id])
Steered(id) ==
  "panzoom" \in carries[id] =>
    /\ pc[id] # "free" /\ asked[id].app
    /\ \E i \in DOMAIN asked[id].queries : asked[id].queries[i].name = "logs.pan_and_zoom"
Replying(id) == reply[id].kind = "ok" => pc[id] = "replied" /\ RightReply(asked[id], reply[id].what)

Steering == pending \subseteq Panels /\ IsRange(range) /\ \A r \in zoomed : IsRange(r)

AnswerInv ==
  /\ scene \in DOMAIN Scenes
  /\ reply = [id \in Ids |-> reply[id]] /\ carries = [id \in Ids |-> carries[id]]
  /\ Steering
  /\ \A id \in Ids : Asking(id) /\ Steered(id) /\ Replying(id)

\* What a step of the server may do with a request.
Replies(id) ==
  \E outcome : /\ reply' = [reply EXCEPT ![id] = outcome]
               /\ outcome.kind = "ok" => RightReply(asked[id], outcome.what)
Serves(id) ==
  \/ UNCHANGED <<pc, reply>>
  \/ /\ pc[id] \notin {"free", "replied"}
     /\ \E place \in Places \ {"free"} :
          /\ pc' = [pc EXCEPT ![id] = place]
          /\ UNCHANGED reply \/ (place = "replied" /\ Replies(id))

\* A handler returns an error, or the answers to its request.
LEMMA FailureIsFine ==
  ASSUME NEW id, NEW kind \in {"error", "none"}, reply' = [reply EXCEPT ![id] = Failure(kind)]
  PROVE  Replies(id)
<1>1. Failure(kind).kind # "ok"
  BY DEF Failure
<1>2. QED  BY <1>1 DEF Replies

LEMMA HandlesRight ==
  ASSUME CacheInv, AnswerInv, NEW id \in Ids, Handle(id)
  PROVE  Serves(id)
<1>1. pc[id] = "answer"
  BY DEF Handle
<1>2. CASE UNCHANGED <<pc, reply>>
  BY <1>2 DEF Serves
<1> DEFINE request == asked[id]
           log == trace[id]
           outcome == HandleDataSeriesRequests(log, FilterFromGlobalFilters(log, request.globals), request.queries)
<1>3. CASE Return(id, outcome)
  <2>1. IsAsked(request)
    BY <1>1 DEF AnswerInv, Asking
  <2>2. Whole(request.globals.collection, log)
    BY <1>1 DEF CacheInv, HasLog, NameOf
  <2>3. outcome = HandleDataSeriesRequests(log, FilterFromGlobalFilters(log, request.globals), request.queries)
    OBVIOUS
  <2>4. reply' = [reply EXCEPT ![id] = outcome] /\ pc' = [pc EXCEPT ![id] = "replied"]
    BY <1>3 DEF Return
  <2>5. request = asked[id]
    OBVIOUS
  <2> HIDE DEF request, log, outcome
  <2>6. outcome.kind = "ok" => RightReply(request, outcome.what)
    BY <2>1, <2>2, <2>3, WholeAnswers
  <2>7. Replies(id)
    BY <2>4, <2>5, <2>6 DEF Replies
  <2>8. QED  BY <1>1, <2>4, <2>7 DEF Serves, Places
<1>4. QED
  <2>1. \E filter \in {FilterFromGlobalFilters(trace[id], asked[id].globals)} :
        \E o \in {HandleDataSeriesRequests(trace[id], filter, asked[id].queries)} :
          UNCHANGED <<pc, reply>> \/ Return(id, o)
    BY DEF Handle
  <2>2. UNCHANGED <<pc, reply>> \/ Return(id, outcome)
    BY <2>1
  <2>3. QED  BY <1>2, <1>3, <2>2

LEMMA ServedRight ==
  ASSUME CacheInv, AnswerInv, NEW id \in Ids, Serve(id) \/ Read(id)
  PROVE  Serves(id) /\ UNCHANGED asked
<1>1. CASE Accept(id)
  <2>1. CASE asked[id].queries # <<>>
    BY <1>1, <2>1 DEF Accept, Goto, Serves, Places
  <2>2. CASE asked[id].queries = <<>>
    <3>1. RightReply(asked[id], <<>>)
      BY <2>2 DEF RightReply
    <3> DEFINE outcome == Answered(<<>>)
    <3>2. reply' = [reply EXCEPT ![id] = outcome] /\ pc' = [pc EXCEPT ![id] = "replied"] /\ pc[id] = "sent"
      BY <1>1, <2>2 DEF Accept, Return
    <3>3. outcome.what = <<>>
      BY DEF Answered
    <3> HIDE DEF outcome
    <3>4. Replies(id)
      BY <3>1, <3>2, <3>3 DEF Replies
    <3>5. QED  BY <1>1, <3>2, <3>4 DEF Serves, Places, Accept
  <2>3. QED  BY <2>1, <2>2
<1>2. CASE Enter(id) \/ Read(id)
  BY <1>2 DEF Enter, Read, Serves
<1>3. CASE LookOuter(id) \/ LookInner(id)
  BY <1>3 DEF LookOuter, LookInner, Get, Goto, Serves, Places
<1>4. CASE AddInner(id) \/ AddOuter(id)
  BY <1>4 DEF AddInner, AddOuter, Add, Goto, Serves, Places
<1>5. CASE Open(id)
  BY <1>5, FailureIsFine DEF Open, Goto, Return, Serves, Places
<1>6. CASE Receive(id)
  BY <1>6, FailureIsFine DEF Receive, Goto, Return, Serves, Places
<1>7. CASE Build(id)
  BY <1>7, FailureIsFine DEF Build, Goto, Return, Serves, Places
<1>8. CASE Handle(id)
  BY <1>8, HandlesRight DEF Handle
<1>9. CASE Disconnect(id)
  BY <1>9, FailureIsFine DEF Disconnect, Return, Serves, Places
<1>10. QED  BY <1>1, <1>2, <1>3, <1>4, <1>5, <1>6, <1>7, <1>8, <1>9 DEF Serve

\* A server's step leaves its clients alone, and the replies to them right.
LEMMA ServesKeep ==
  ASSUME CacheInv, AnswerInv, NEW id \in Ids, Serves(id), UNCHANGED <<asked, clientVars, scene>>
  PROVE  AnswerInv'
<1>1. UNCHANGED <<carries, pending, range, zoomed>>
  BY DEF clientVars, fetchVars, valueVars, hookVars
<1>2. /\ reply' = [j \in Ids |-> reply'[j]]
      /\ \A j \in Ids \ {id} : reply'[j] = reply[j] /\ pc'[j] = pc[j]
  BY DEF Serves, Replies, AnswerInv, CacheInv
<1>3. (pc'[id] = "free") <=> (pc[id] = "free")
  BY DEF Serves, CacheInv
<1>4. \A j \in Ids : (pc'[j] = "free") <=> (pc[j] = "free")
  BY <1>2, <1>3
<1>5. \A j \in Ids : Asking(j)' /\ Steered(j)'
  BY <1>1, <1>4 DEF AnswerInv, Asking, Steered
<1>6. ASSUME NEW j \in Ids
      PROVE  Replying(j)'
  <2>1. CASE j # id \/ UNCHANGED <<pc, reply>>
    BY <1>2, <2>1 DEF AnswerInv, Replying
  <2>2. CASE j = id /\ ~UNCHANGED <<pc, reply>>
    <3>1. PICK place \in Places \ {"free"} :
            /\ pc[id] \notin {"free", "replied"} /\ pc' = [pc EXCEPT ![id] = place]
            /\ UNCHANGED reply \/ (place = "replied" /\ Replies(id))
      BY <2>2 DEF Serves
    <3>2. pc'[id] = place
      BY <3>1 DEF CacheInv
    <3>3. CASE UNCHANGED reply
      BY <3>1, <3>3, <2>2 DEF AnswerInv, Replying
    <3>4. CASE place = "replied" /\ Replies(id)
      <4>1. reply'[id].kind = "ok" => RightReply(asked[id], reply'[id].what)
        BY <3>4 DEF Replies, AnswerInv
      <4>2. QED  BY <2>2, <3>2, <3>4, <4>1 DEF Replying
    <3>5. QED  BY <3>1, <3>3, <3>4
  <2>3. QED  BY <2>1, <2>2
<1>7. Steering' /\ carries' = [j \in Ids |-> carries'[j]] /\ scene' \in DOMAIN Scenes
  BY <1>1 DEF AnswerInv, Steering
<1>8. QED  BY <1>2, <1>5, <1>6, <1>7 DEF AnswerInv

\* Nothing that clients do by themselves touches a request.
LEMMA ClientsKeep ==
  ASSUME AnswerInv, UNCHANGED <<pc, asked, reply, scene>>, Steering',
         carries' = [id \in Ids |-> carries'[id]], \A id \in Ids : carries'[id] \subseteq carries[id]
  PROVE  AnswerInv'
<1>1. \A id \in Ids : Asking(id)' /\ Replying(id)'
  BY DEF AnswerInv, Asking, Replying
<1>2. \A id \in Ids : Steered(id)'
  BY DEF AnswerInv, Steered
<1>3. QED  BY <1>1, <1>2 DEF AnswerInv

LEMMA UserKeeps ==
  ASSUME AnswerInv, UserActs
  PROVE  AnswerInv'
<1>1. UNCHANGED <<pc, asked, reply, scene>>
  BY DEF UserActs, serviceVars
<1>2. \A value \in {"range", "files"} \union DOMAIN Searches : Watching(value) \subseteq Panels
  BY DEF Watching, Panels, Searches
<1>3. scene \in DOMAIN Scenes /\ Steering
  BY DEF AnswerInv
<1>4. DOMAIN Scene.words \subseteq DOMAIN Searches
  BY <1>3, ScenesAssumption DEF Scene
<1>5. UNCHANGED <<carries, zoomed>> /\ pending' \subseteq Panels /\ IsRange(range)'
  <2>1. CASE \E start, end \in Moments \union {0} : Brush(start, end)
    <3>1. PICK start \in Moments \union {0}, end \in Moments \union {0} : Brush(start, end)
      BY <2>1
    <3>2. start \in Int /\ end \in Int
      BY MomentsAssumption
    <3>3. QED  BY <1>2, <1>3, <3>1, <3>2 DEF Brush, Ask, Steering, IsRange
  <2>2. CASE \E file \in FilesOf(EntriesIn(Collections[Scene.log])), shift \in BOOLEAN : Click(file, shift)
    BY <1>2, <1>3, <2>2 DEF Click, Ask, Steering, IsRange
  <2>3. CASE \E field \in DOMAIN Scene.words : \E word \in Scene.words[field] : Type(field, word)
    BY <1>2, <1>3, <1>4, <2>3 DEF Type, Steering, IsRange
  <2>4. CASE SwitchTheme
    BY <1>3, <2>4 DEF SwitchTheme, Steering, IsRange
  <2>5. CASE \E code \in Scene.codes : KeyDown(code) \/ KeyUp(code)
    BY <1>3, <2>5 DEF KeyDown, KeyUp, Ask, Steering, IsRange, Panels, fetchVars, hookVars
  <2>6. QED  BY <2>1, <2>2, <2>3, <2>4, <2>5 DEF UserActs, User
<1>6. Steering' /\ carries' = [id \in Ids |-> carries'[id]]
  BY <1>3, <1>5 DEF Steering, AnswerInv, IsRange
<1>7. QED  BY <1>1, <1>5, <1>6, ClientsKeep

LEMMA RenderKeeps ==
  ASSUME AnswerInv, Renders
  PROVE  AnswerInv'
<1>1. UNCHANGED <<pc, asked, reply, scene>> /\ Steering
  BY DEF Renders, serviceVars, AnswerInv
<1>2. carries' = [id \in Ids |-> carries[id] \ {"panzoom"}] /\ zoomed' = {} /\ pending' \subseteq Panels
  BY <1>1 DEF Renders, Render, Watching, Panels, Steering
<1>3. IsRange(range)'
  <2>1. range' = IF zoomed = {} THEN range ELSE CHOOSE r \in zoomed : TRUE
    BY DEF Renders, Render
  <2>2. range' = range \/ range' \in zoomed
    BY <2>1
  <2>3. QED  BY <1>1, <2>2 DEF Steering, IsRange
<1>4. Steering'
  BY <1>2, <1>3 DEF Steering, IsRange
<1>5. QED  BY <1>1, <1>2, <1>4, ClientsKeep

\* A request that is posted.
LEMMA PostedIsAsked ==
  ASSUME CacheInv, AnswerInv, NEW id \in Ids, NEW request, IsAsked(request), Post(id, request), UNCHANGED scene,
         Steering', carries' = [j \in Ids |-> carries'[j]],
         \A j \in Ids \ {id} : carries'[j] = carries[j],
         "panzoom" \in carries'[id] =>
            /\ request.app
            /\ \E i \in DOMAIN request.queries : request.queries[i].name = "logs.pan_and_zoom"
  PROVE  AnswerInv'
<1>1. /\ pc[id] = "free" /\ asked' = [asked EXCEPT ![id] = request] /\ pc' = [pc EXCEPT ![id] = "sent"]
      /\ UNCHANGED reply
  BY DEF Post
<1>2. /\ asked'[id] = request /\ pc'[id] = "sent"
      /\ \A j \in Ids \ {id} : asked'[j] = asked[j] /\ pc'[j] = pc[j]
  BY <1>1 DEF CacheInv
<1>3. reply[id].kind # "ok"
  BY <1>1 DEF AnswerInv, Replying
<1>4. \A j \in Ids \ {id} : Asking(j)' /\ Steered(j)' /\ Replying(j)'
  BY <1>1, <1>2 DEF AnswerInv, Asking, Steered, Replying
<1>5. Asking(id)' /\ Steered(id)' /\ Replying(id)'
  BY <1>1, <1>2, <1>3 DEF Asking, Steered, Replying
<1>6. QED  BY <1>1, <1>4, <1>5 DEF AnswerInv

LEMMA PanelsFinite == IsFiniteSet(Panels)
<1> DEFINE A == {"files"}
           B == A \union {"entries"}
           C == B \union {"times"}
           D == C \union {"panzoom"}
<1>1. IsFiniteSet(A)
  BY FS_Singleton
<1>2. IsFiniteSet(B)
  <2> HIDE DEF A
  <2>1. QED  BY <1>1, FS_AddElement
<1>3. IsFiniteSet(C)
  <2> HIDE DEF B
  <2>1. QED  BY <1>2, FS_AddElement
<1>4. IsFiniteSet(D)
  <2> HIDE DEF C
  <2>1. QED  BY <1>3, FS_AddElement
<1>5. D = Panels
  BY DEF Panels
<1>6. QED  BY <1>4, <1>5

\* App.tsx asks for what its panels wait for.
LEMMA SendKeeps ==
  ASSUME CacheInv, AnswerInv, NEW id \in Ids, SendRequest(id)
  PROVE  AnswerInv'
<1> DEFINE panels == SetToSeq(pending)
           queries == [i \in DOMAIN panels |-> QueryOf(panels[i])]
           request == [globals |-> Globals, queries |-> queries, app |-> TRUE]
<1>1. /\ Post(id, request) /\ UNCHANGED <<scene, range, zoomed>>
      /\ carries' = [carries EXCEPT ![id] = pending] /\ pending' = {}
  BY DEF SendRequest, Send, valueVars, hookVars
<1>2. pending \subseteq Panels /\ IsRange(range) /\ scene \in DOMAIN Scenes
  BY DEF AnswerInv, Steering
<1>3. IsList(panels) /\ ToSet(panels) = pending
  <2>1. IsFiniteSet(pending)
    BY <1>2, PanelsFinite, FS_Subset
  <2>2. QED  BY <2>1, SetListed
<1>4. \A i \in DOMAIN panels : panels[i] \in Panels
  BY <1>2, <1>3 DEF ToSet
<1>5. \A panel \in Panels : IsQuery(QueryOf(panel))
  <2>1. Scene.bins \in Int
    BY <1>2, ScenesAssumption DEF Scene
  <2>2. QED  BY <2>1 DEF Panels, QueryOf, IsQuery
<1>6. QueryOf("panzoom").name = "logs.pan_and_zoom"
  BY DEF QueryOf
<1>7. /\ Len(panels) \in Nat /\ DOMAIN panels = 1 .. Len(panels)
      /\ "panzoom" \in pending => \E i \in DOMAIN panels : panels[i] = "panzoom"
  BY <1>3 DEF IsList, ToSet
<1>8. request.globals.start = range.start /\ request.globals.end = range.end
  BY DEF Globals
<1>9. request.queries = queries /\ request.app
  OBVIOUS
<1> HIDE DEF panels
<1>10. /\ DOMAIN queries = DOMAIN panels /\ \A i \in DOMAIN queries : IsQuery(queries[i])
       /\ "panzoom" \in pending => \E i \in DOMAIN queries : queries[i].name = "logs.pan_and_zoom"
  BY <1>4, <1>5, <1>6, <1>7
<1>11. queries \in Seq(ToSet(queries))
  <2> DEFINE n == Len(panels)
  <2>1. n \in Nat /\ queries = [i \in 1 .. n |-> queries[i]]
    BY <1>7
  <2> HIDE DEF n, queries
  <2>2. queries \in [1 .. n -> ToSet(queries)]
    BY <2>1 DEF ToSet
  <2>3. QED  BY <2>1, <2>2
<1> HIDE DEF queries, request
<1>12. IsAsked(request)
  BY <1>2, <1>8, <1>9, <1>10, <1>11 DEF IsAsked, IsRange
<1>13. carries' = [j \in Ids |-> carries'[j]] /\ carries'[id] = pending /\ \A j \in Ids \ {id} : carries'[j] = carries[j]
  BY <1>1 DEF AnswerInv
<1>14. Steering'
  BY <1>1 DEF AnswerInv, Steering, IsRange
<1>15. QED  BY <1>1, <1>9, <1>10, <1>12, <1>13, <1>14, PostedIsAsked

LEMMA OthersKeep ==
  ASSUME CacheInv, AnswerInv, NEW id \in Ids, PostOther(id)
  PROVE  AnswerInv'
<1>1. PICK request \in Scene.requests : Post(id, request)
  BY DEF PostOther
<1>2. UNCHANGED <<scene, carries, pending, range, zoomed>>
  BY DEF PostOther, clientVars, fetchVars, valueVars, hookVars
<1>3. IsAsked(request)
  <2>1. /\ request.globals.start \in Int /\ request.globals.end \in Int
        /\ request.queries \in Seq(ToSet(request.queries))
        /\ \A query \in ToSet(request.queries) : IsQuery(query)
    BY ScenesAssumption DEF Scene, AnswerInv
  <2>2. QED  BY <2>1 DEF IsAsked, IsRange, ToSet
<1>4. pc[id] = "free"
  BY <1>1 DEF Post
<1>5. "panzoom" \notin carries'[id] /\ carries' = [j \in Ids |-> carries'[j]] /\ Steering'
  BY <1>2, <1>4 DEF AnswerInv, Steered, Steering, IsRange
<1>6. QED  BY <1>1, <1>2, <1>3, <1>5, PostedIsAsked

\* A request that is done with.
LEMMA ReleasedIsGone ==
  ASSUME CacheInv, AnswerInv, NEW id \in Ids, Release(id), UNCHANGED scene, Steering',
         carries' = [j \in Ids |-> carries'[j]], "panzoom" \notin carries'[id],
         \A j \in Ids \ {id} : carries'[j] = carries[j]
  PROVE  AnswerInv'
<1>1. /\ asked' = [asked EXCEPT ![id] = NoRequest] /\ pc' = [pc EXCEPT ![id] = "free"]
      /\ reply' = [reply EXCEPT ![id] = NoReply]
  BY DEF Release
<1>2. /\ asked'[id] = NoRequest /\ pc'[id] = "free" /\ reply'[id] = NoReply
      /\ \A j \in Ids \ {id} : asked'[j] = asked[j] /\ pc'[j] = pc[j] /\ reply'[j] = reply[j]
      /\ reply' = [j \in Ids |-> reply'[j]]
  BY <1>1 DEF CacheInv, AnswerInv
<1>3. NoReply.kind # "ok"
  BY DEF NoReply, Failure
<1>4. \A j \in Ids \ {id} : Asking(j)' /\ Steered(j)' /\ Replying(j)'
  BY <1>1, <1>2 DEF AnswerInv, Asking, Steered, Replying
<1>5. Asking(id)' /\ Steered(id)' /\ Replying(id)'
  BY <1>2, <1>3 DEF Asking, Steered, Replying
<1>6. QED  BY <1>2, <1>4, <1>5 DEF AnswerInv

\* The range of an answer to pan and zoom is one.
LEMMA ZoomedRange ==
  ASSUME AnswerInv, NEW id \in Ids, "panzoom" \in carries[id], reply[id].kind = "ok"
  PROVE  IsRange(RangeOf(DataFor(id, "panzoom")))
<1> DEFINE queries == asked[id].queries
           isIt(j) == queries[j].name = "logs.pan_and_zoom"
           i == CHOOSE j \in DOMAIN queries : isIt(j)
<1>1. QueryOf("panzoom").name = "logs.pan_and_zoom"
  BY DEF QueryOf
<1>2. DataFor(id, "panzoom") = reply[id].what[i]
  BY <1>1 DEF DataFor
<1>3. \E j \in DOMAIN queries : isIt(j)
  BY DEF AnswerInv, Steered
<1>4. i \in DOMAIN queries /\ isIt(i)
  <2> HIDE DEF isIt, queries
  <2>1. QED  BY <1>3
<1> HIDE DEF i
<1>5. RightReply(asked[id], reply[id].what)
  BY DEF AnswerInv, Replying
<1>6. QED  BY <1>2, <1>4, <1>5 DEF RightReply

LEMMA ReceivesKeep ==
  ASSUME CacheInv, AnswerInv, NEW id \in Ids, Receives(id)
  PROVE  AnswerInv'
<1>1. CASE CollectOther(id)
  <2>1. Release(id) /\ ~asked[id].app /\ UNCHANGED <<scene, carries, pending, range, zoomed>>
    BY <1>1 DEF CollectOther, clientVars, fetchVars, valueVars, hookVars
  <2>2. "panzoom" \notin carries'[id] /\ carries' = [j \in Ids |-> carries'[j]] /\ Steering'
    BY <2>1 DEF AnswerInv, Steered, Steering, IsRange
  <2>3. QED  BY <2>1, <2>2, ReleasedIsGone
<1>2. CASE DeliverReply(id)
  <2> DEFINE ok == reply[id].kind = "ok"
             data == IF reply[id].kind = "ok" THEN [p \in carries[id] |-> DataFor(id, p)] ELSE <<>>
  <2>1. Release(id) /\ Deliver(id, ok, data) /\ UNCHANGED scene
    BY <1>2 DEF DeliverReply
  <2>2. /\ carries' = [carries EXCEPT ![id] = {}] /\ UNCHANGED <<pending, range>>
        /\ zoomed' = IF ok /\ "panzoom" \in carries[id] THEN {RangeOf(data["panzoom"])} ELSE zoomed
    <3> HIDE DEF ok, data
    <3>1. QED  BY <2>1 DEF Deliver, valueVars
  <2>3. ok /\ "panzoom" \in carries[id] => IsRange(RangeOf(data["panzoom"]))
    <3>1. ok /\ "panzoom" \in carries[id] => data["panzoom"] = DataFor(id, "panzoom")
      OBVIOUS
    <3>2. QED  BY <3>1, ZoomedRange
  <2> HIDE DEF ok, data
  <2>4. Steering'
    BY <2>2, <2>3 DEF AnswerInv, Steering, IsRange
  <2>5. /\ carries' = [j \in Ids |-> carries'[j]] /\ carries'[id] = {}
        /\ \A j \in Ids \ {id} : carries'[j] = carries[j]
    BY <2>2 DEF AnswerInv
  <2>6. QED  BY <2>1, <2>4, <2>5, ReleasedIsGone
<1>3. QED  BY <1>1, <1>2 DEF Receives

LEMMA NextAnswers ==
  ASSUME CacheInv, AnswerInv, [Next]_vars
  PROVE  AnswerInv'
<1>1. CASE Accidents \/ UNCHANGED vars
  <2>1. UNCHANGED <<pc, asked, reply, scene, carries, pending, range, zoomed>>
    BY <1>1 DEF Accidents, Abort, Interrupt, Exit, vars, serviceVars, clientVars, fetchVars, valueVars, hookVars
  <2>2. Steering' /\ carries' = [id \in Ids |-> carries'[id]]
    BY <2>1 DEF AnswerInv, Steering, IsRange
  <2>3. QED  BY <2>1, <2>2, ClientsKeep
<1>2. ASSUME NEW id \in Ids, ServerStep(id)
      PROVE  AnswerInv'
  BY <1>2, ServedRight, ServesKeep DEF ServerStep
<1>3. QED  BY <1>1, <1>2, UserKeeps, RenderKeeps, SendKeeps, OthersKeep, ReceivesKeep DEF Next

LEMMA NothingAnswered ==
  ASSUME Init
  PROVE  AnswerInv
<1>1. /\ scene \in DOMAIN Scenes /\ reply = [id \in Ids |-> NoReply] /\ carries = [id \in Ids |-> {}]
      /\ pc = [id \in Ids |-> "free"] /\ range = [start |-> 0, end |-> 0] /\ zoomed = {}
      /\ pending \subseteq Watching("range")
  BY DEF Init, InitService, InitClient
<1>2. Steering
  BY <1>1 DEF Steering, IsRange, Watching, Panels
<1>3. NoReply.kind # "ok"
  BY DEF NoReply, Failure
<1>4. \A id \in Ids : Asking(id) /\ Steered(id) /\ Replying(id)
  BY <1>1, <1>3 DEF Asking, Steered, Replying
<1>5. QED  BY <1>1, <1>2, <1>4 DEF AnswerInv

(***************************************************************************)
(* HandleDataSeriesRequests(): every answer that a client is sent shows    *)
(* what the file has in the range and the source files that its request    *)
(* selects, each entry that is there and no other, in tables, charts and   *)
(* traces that fit it: for any files, requests, zoom and capacity, however *)
(* requests race and whatever a race makes of the caches.                  *)
(***************************************************************************)
THEOREM AnswersShowTheFile == Spec => []AnswersMatch
<1>1. AnswerInv => AnswersMatch
  <2>1. ASSUME NEW request, NEW what, RightReply(request, what), NEW i \in DOMAIN request.queries
        PROVE  RightAnswer(EntriesIn(Collections[request.globals.collection]), request.globals,
                           request.queries[i], what[i])
    BY <2>1 DEF RightReply
  <2>2. QED  BY <2>1 DEF AnswerInv, Replying, AnswersMatch, RightAnswer
<1>2. Init => CacheInv /\ AnswerInv
  BY InitiallyEmpty, NothingAnswered
<1>3. (CacheInv /\ AnswerInv) /\ [Next]_vars => (CacheInv /\ AnswerInv)'
  BY NextKeepsWhole, NextAnswers
<1>4. QED  BY <1>1, <1>2, <1>3, PTL DEF Spec

-----------------------------------------------------------------------------
(* The React client *)

AppPanels == {"files", "entries", "times"}

\* A request whose global filters are what a panel depends on now, and which has the
\* panel's query.
SameFor(panel, globals) ==
  /\ globals.collection = Scene.log /\ globals.pan = "" /\ globals.zoom = ""
  /\ globals.start = range.start /\ globals.end = range.end
  /\ panel # "files" => globals.files = files
Wanted(panel, request) ==
  /\ SameFor(panel, request.globals)
  /\ \E i \in DOMAIN request.queries : request.queries[i].name = QueryOf(panel).name
  /\ \A i \in DOMAIN request.queries :
       request.queries[i].name = QueryOf(panel).name => request.queries[i] = QueryOf(panel)

(***************************************************************************)
(* The inductive invariant: each panel waits for the timer, or for the     *)
(* answer to a request with its values as they are, or it shows the answer *)
(* to one, if its latest request has not failed and was not overtaken.     *)
(***************************************************************************)
Awaited(panel) ==
  \E id \in Ids : /\ newest[panel] = {id} /\ panel \in carries[id]
                  /\ pc[id] # "free" /\ asked[id].app /\ Wanted(panel, asked[id])
Correct(panel, what) ==
  LET entries == EntriesIn(Collections[Scene.log])
  IN  Answers(entries, Globals, FilterFromGlobalFilters(Ends(entries), Globals), QueryOf(panel), what)
UpToDate(panel) == newest[panel] = {} /\ shown[panel].kind = "ok" /\ Correct(panel, shown[panel].what)
Keeps(panel) ==
  panel \in pending \/ overtaken[panel] \/ failed[panel] \/ Awaited(panel) \/ UpToDate(panel)

StepInv ==
  /\ search = [panel \in {"files", "entries"} |-> search[panel]]
  /\ Scene.app => \A panel \in AppPanels : Keeps(panel)

\* Requests that agree in what a panel depends on have the same answers.
LEMMA SameAnswers ==
  ASSUME NEW entries, NEW query,
         query.name \in {"logs.aggregate_source_files_table", "logs.raw_entries", "logs.timeseries"},
         NEW old, NEW new, old.start = new.start, old.end = new.end, old.pan = new.pan, old.zoom = new.zoom,
         query.name # "logs.aggregate_source_files_table" => old.files = new.files,
         NEW node, Answers(entries, old, FilterFromGlobalFilters(Ends(entries), old), query, node)
  PROVE  Answers(entries, new, FilterFromGlobalFilters(Ends(entries), new), query, node)
<1> DEFINE a == FilterFromGlobalFilters(Ends(entries), old)
           b == FilterFromGlobalFilters(Ends(entries), new)
<1>1. a.start = b.start /\ a.end = b.end
  BY DEF FilterFromGlobalFilters
<1>2. Answers(entries, old, a, query, node)
  OBVIOUS
<1> HIDE DEF a, b
<1>3. TimesIn(entries, a) = TimesIn(entries, b)
  BY <1>1 DEF TimesIn
<1>4. old.files = new.files => SelectedIn(entries, a, old.files) = SelectedIn(entries, b, new.files)
  BY <1>3 DEF SelectedIn
<1>5. AnswersIn(entries, old, a, query, node, TimesIn(entries, a), SelectedIn(entries, a, old.files))
  BY <1>2, AnswersAre
<1>6. AnswersIn(entries, new, b, query, node, TimesIn(entries, b), SelectedIn(entries, b, new.files))
  <2>1. CASE query.name = "logs.aggregate_source_files_table"
    BY <1>3, <1>5, <2>1 DEF AnswersIn
  <2>2. CASE query.name = "logs.raw_entries"
    BY <1>4, <1>5, <2>2 DEF AnswersIn
  <2>3. CASE query.name = "logs.timeseries"
    <3> DEFINE selected == SelectedIn(entries, b, new.files)
    <3>1. ShowsSeries(node, a, BinWidth(a, query), query.bins, entries, selected)
      BY <1>4, <1>5, <2>3 DEF AnswersIn
    <3> HIDE DEF selected
    <3>2. ShowsSeries(node, b, BinWidth(b, query), query.bins, entries, selected)
      BY <1>1, <3>1, RangeIsEnough
    <3>3. QED  BY <2>3, <3>2 DEF AnswersIn, selected
  <2>4. QED  BY <2>1, <2>2, <2>3
<1>7. QED  BY <1>6, AnswersAre DEF b

LEMMA QueryNames ==
  /\ QueryOf("files").name = "logs.aggregate_source_files_table" /\ QueryOf("entries").name = "logs.raw_entries"
  /\ QueryOf("times").name = "logs.timeseries" /\ QueryOf("panzoom").name = "logs.pan_and_zoom"
BY DEF QueryOf

\* What an answer shows is still what a panel is to show, while what it depends on
\* stays as it is.
LEMMA StaysCorrect ==
  ASSUME NEW panel \in AppPanels, UNCHANGED <<scene, range>>, QueryOf(panel)' = QueryOf(panel), panel # "files" => files' = files,
         NEW what, Correct(panel, what)
  PROVE  Correct(panel, what)'
<1> DEFINE query == QueryOf(panel)
           old == Globals
           new == Globals'
           entries == EntriesIn(Collections[Scene.log])
<1>1. Scene' = Scene /\ query' = query
  BY DEF Scene
<1>2. old.start = new.start /\ old.end = new.end /\ old.pan = new.pan /\ old.zoom = new.zoom
  BY DEF Globals
<1>3. /\ query.name \in {"logs.aggregate_source_files_table", "logs.raw_entries", "logs.timeseries"}
      /\ query.name # "logs.aggregate_source_files_table" => panel # "files"
  BY QueryNames DEF AppPanels
<1>4. panel # "files" => old.files = new.files
  BY DEF Globals
<1>5. Answers(entries, old, FilterFromGlobalFilters(Ends(entries), old), query, what)
  BY DEF Correct
<1>6. Correct(panel, what)' = Answers(entries, new, FilterFromGlobalFilters(Ends(entries), new), query, what)
  BY <1>1 DEF Correct
<1> HIDE DEF query, old, new, entries
<1>7. Answers(entries, new, FilterFromGlobalFilters(Ends(entries), new), query, what)
  BY <1>2, <1>3, <1>4, <1>5, SameAnswers
<1>8. QED  BY <1>6, <1>7

\* A panel that has what it wants keeps it while its values stay, and nobody
\* answers or asks for it.
LEMMA PanelKeeps ==
  ASSUME NEW panel \in AppPanels, Keeps(panel),
         UNCHANGED <<scene, range>>, QueryOf(panel)' = QueryOf(panel),
         newest'[panel] = newest[panel], overtaken[panel] => overtaken'[panel], failed[panel] => failed'[panel],
         shown'[panel] = shown[panel],
         panel # "files" => files' = files, panel \in pending => panel \in pending',
         \A id \in Ids : pc[id] # "free" /\ asked[id].app /\ panel \in carries[id] =>
                           pc'[id] # "free" /\ panel \in carries'[id] /\ asked'[id] = asked[id]
  PROVE  Keeps(panel)'
<1>1. CASE panel \in pending \/ overtaken[panel] \/ failed[panel]
  BY <1>1 DEF Keeps
<1>2. CASE Awaited(panel)
  <2>1. PICK id \in Ids : /\ newest[panel] = {id} /\ panel \in carries[id]
                          /\ pc[id] # "free" /\ asked[id].app /\ Wanted(panel, asked[id])
    BY <1>2 DEF Awaited
  <2>2. Wanted(panel, asked[id])'
    BY <2>1 DEF Wanted, SameFor, Scene
  <2>3. Awaited(panel)'
    BY <2>1, <2>2 DEF Awaited
  <2>4. QED  BY <2>3 DEF Keeps
<1>3. CASE UpToDate(panel)
  <2> DEFINE what == shown[panel].what
  <2>1. Correct(panel, what)'
    BY <1>3, StaysCorrect DEF UpToDate
  <2>2. UpToDate(panel)'
    BY <1>3, <2>1 DEF UpToDate
  <2>3. QED  BY <2>2 DEF Keeps
<1>4. QED  BY <1>1, <1>2, <1>3 DEF Keeps

\* What a panel depends on stays.
Steady(panel) ==
  /\ range' = range
  /\ panel # "files" => files' = files
  /\ panel # "times" => search'[panel] = search[panel]

\* The user, and what App.tsx renders: where a panel's values change, it asks.
LEMMA ActsKeep ==
  ASSUME StepInv, AnswerInv, UNCHANGED <<scene, pc, asked, newest, overtaken, failed, shown>>,
         search' = [panel \in {"files", "entries"} |-> search'[panel]],
         \A id \in Ids : carries[id] \ {"panzoom"} \subseteq carries'[id],
         pending \ {"panzoom"} \subseteq pending',
         \A panel \in AppPanels : panel \in pending' \/ Steady(panel)
  PROVE  StepInv'
<1>1. Scene' = Scene
  BY DEF Scene
<1>2. ASSUME NEW panel \in AppPanels, Scene.app
      PROVE  Keeps(panel)'
  <2>1. CASE panel \in pending'
    BY <2>1 DEF Keeps
  <2>2. CASE panel \notin pending'
    <3>1. /\ range' = range
          /\ panel # "files" => files' = files
          /\ panel # "times" => search'[panel] = search[panel]
      BY <2>2 DEF Steady
    <3>2. QueryOf(panel)' = QueryOf(panel)
      BY <1>1, <3>1 DEF QueryOf, AppPanels
    <3>3. panel # "panzoom"
      BY DEF AppPanels
    <3>4. Keeps(panel)
      BY <1>2 DEF StepInv
    <3>5. panel \in pending => panel \in pending'
      BY <3>3
    <3>6. \A id \in Ids : pc[id] # "free" /\ asked[id].app /\ panel \in carries[id] =>
                            pc'[id] # "free" /\ panel \in carries'[id] /\ asked'[id] = asked[id]
      BY <3>3
    <3>7. UNCHANGED <<scene, range, newest, overtaken, failed, shown>>
      BY <3>1
    <3>8. QED
      <4> HIDE DEF Keeps
      <4>1. QED  BY <3>1, <3>2, <3>4, <3>5, <3>6, <3>7, PanelKeeps
  <2>3. QED  BY <2>1, <2>2
<1>3. QED  BY <1>1, <1>2 DEF StepInv

LEMMA UserInStep ==
  ASSUME StepInv, AnswerInv, UserActs
  PROVE  StepInv'
<1>1. UNCHANGED <<pc, asked, scene>> /\ scene \in DOMAIN Scenes
  BY DEF UserActs, serviceVars, AnswerInv
<1>2. DOMAIN Scene.words \subseteq DOMAIN Searches
  BY <1>1, ScenesAssumption DEF Scene
<1>3. search = [panel \in {"files", "entries"} |-> search[panel]]
  BY DEF StepInv
<1>4. CASE \E start, end \in Moments \union {0} : Brush(start, end)
  <2>1. PICK start, end : Brush(start, end)
    BY <1>4
  <2>2. UNCHANGED <<newest, overtaken, failed, shown, carries, files, search>>
    BY <2>1 DEF Brush
  <2>3. pending' = pending \union (IF range' = range THEN {} ELSE Watching("range"))
    BY <2>1 DEF Brush, Ask
  <2>4. Watching("range") = AppPanels
    BY DEF Watching, AppPanels
  <2>5. QED  BY <1>1, <1>3, <2>2, <2>3, <2>4, ActsKeep DEF Steady
<1>5. CASE \E file \in FilesOf(EntriesIn(Collections[Scene.log])), shift \in BOOLEAN : Click(file, shift)
  <2>1. PICK file, shift : Click(file, shift)
    BY <1>5
  <2>2. UNCHANGED <<newest, overtaken, failed, shown, carries, range, search>>
    BY <2>1 DEF Click
  <2>3. pending' = pending \union Watching("files")
    BY <2>1 DEF Click, Ask
  <2>4. \A panel \in AppPanels : panel # "files" => panel \in Watching("files")
    BY DEF Watching, AppPanels
  <2>5. QED  BY <1>1, <1>3, <2>2, <2>3, <2>4, ActsKeep DEF Steady
<1>6. CASE \E field \in DOMAIN Scene.words : \E word \in Scene.words[field] : Type(field, word)
  <2>1. PICK field \in DOMAIN Searches : \E word : Type(field, word)
    BY <1>2, <1>6
  <2>2. UNCHANGED <<newest, overtaken, failed, shown, carries, range, files>>
    BY <2>1 DEF Type
  <2>3. /\ pending' = pending \union {Searches[field]}
        /\ \E word : search' = [search EXCEPT ![Searches[field]] = word]
    BY <2>1 DEF Type, Watching, Searches
  <2>4. /\ search' = [panel \in {"files", "entries"} |-> search'[panel]]
        /\ \A panel \in {"files", "entries"} : panel # Searches[field] => search'[panel] = search[panel]
    BY <1>3, <2>3
  <2>5. \A panel \in AppPanels : panel \in pending' \/ panel = "times" \/ search'[panel] = search[panel]
    BY <2>3, <2>4 DEF AppPanels
  <2>6. QED  BY <1>1, <2>2, <2>3, <2>4, <2>5, ActsKeep DEF Steady
<1>7. CASE SwitchTheme
  <2>1. UNCHANGED <<newest, overtaken, failed, shown, carries, range, files, search, pending>>
    BY <1>7 DEF SwitchTheme
  <2>2. QED  BY <1>1, <1>3, <2>1, ActsKeep DEF Steady
<1>8. CASE \E code \in Scene.codes : KeyDown(code) \/ KeyUp(code)
  <2>1. UNCHANGED <<newest, overtaken, failed, shown, carries, range, files, search>> /\ pending \subseteq pending'
    BY <1>8 DEF KeyDown, KeyUp, Ask, fetchVars, hookVars
  <2>2. QED  BY <1>1, <1>3, <2>1, ActsKeep DEF Steady
<1>9. QED  BY <1>4, <1>5, <1>6, <1>7, <1>8 DEF UserActs, User

LEMMA RenderInStep ==
  ASSUME StepInv, AnswerInv, Renders
  PROVE  StepInv'
<1>1. /\ UNCHANGED <<pc, asked, scene, newest, overtaken, failed, shown, files, search>>
      /\ carries' = [id \in Ids |-> carries[id] \ {"panzoom"}]
      /\ pending \ {"panzoom"} \subseteq pending'
  BY DEF Renders, Render, serviceVars
<1>2. search' = [panel \in {"files", "entries"} |-> search'[panel]]
  BY <1>1 DEF StepInv
<1>3. range' = range \/ AppPanels \subseteq pending'
  <2>1. range' = IF zoomed = {} THEN range ELSE CHOOSE r \in zoomed : TRUE
    BY DEF Renders, Render
  <2>2. zoomed # {} /\ zoomed # {range} => Watching("range") \subseteq pending'
    BY DEF Renders, Render
  <2>3. Watching("range") = AppPanels
    BY DEF Watching, AppPanels
  <2>4. zoomed = {range} => (CHOOSE r \in zoomed : TRUE) = range
    OBVIOUS
  <2>5. QED  BY <2>1, <2>2, <2>3, <2>4
<1>4. QED  BY <1>1, <1>2, <1>3, ActsKeep DEF Steady

\* Requests of others, and what the server does with any.
LEMMA RequestsKeep ==
  ASSUME StepInv, UNCHANGED <<clientVars, scene>>,
         \A id \in Ids : pc[id] # "free" /\ (\E panel \in AppPanels : panel \in carries[id] /\ asked[id].app) =>
                           pc'[id] # "free" /\ asked'[id] = asked[id]
  PROVE  StepInv'
<1>1. UNCHANGED <<range, files, search, pending, carries, newest, overtaken, failed, shown>>
  BY DEF clientVars, valueVars, fetchVars, hookVars
<1>2. Scene' = Scene
  BY DEF Scene
<1>3. ASSUME NEW panel \in AppPanels, Scene.app
      PROVE  Keeps(panel)'
  <2>1. QueryOf(panel)' = QueryOf(panel)
    BY <1>1, <1>2 DEF QueryOf
  <2>2. \A id \in Ids : pc[id] # "free" /\ asked[id].app /\ panel \in carries[id] =>
                          pc'[id] # "free" /\ panel \in carries'[id] /\ asked'[id] = asked[id]
    BY <1>1
  <2>3. Keeps(panel)
    BY <1>3 DEF StepInv
  <2>4. QED
    <3> HIDE DEF Keeps
    <3>1. QED  BY <1>1, <2>1, <2>2, <2>3, PanelKeeps
<1>4. QED  BY <1>1, <1>2, <1>3 DEF StepInv

LEMMA ServerInStep ==
  ASSUME CacheInv, AnswerInv, StepInv, NEW id \in Ids, ServerStep(id)
  PROVE  StepInv'
<1>1. Serves(id) /\ UNCHANGED asked /\ UNCHANGED <<clientVars, scene>>
  BY ServedRight DEF ServerStep
<1>2. \A j \in Ids : pc[j] # "free" => pc'[j] # "free"
  BY <1>1 DEF Serves, CacheInv
<1>3. QED  BY <1>1, <1>2, RequestsKeep

LEMMA OthersInStep ==
  ASSUME CacheInv, StepInv, NEW id \in Ids, PostOther(id) \/ CollectOther(id)
  PROVE  StepInv'
<1>1. UNCHANGED <<clientVars, scene>>
  BY DEF PostOther, CollectOther
<1>2. pc[id] = "free" \/ ~asked[id].app
  BY DEF PostOther, CollectOther, Post
<1>3. \A j \in Ids \ {id} : pc'[j] = pc[j] /\ asked'[j] = asked[j]
  BY DEF PostOther, CollectOther, Post, Release, CacheInv
<1>4. QED  BY <1>1, <1>2, <1>3, RequestsKeep

\* What App.tsx asks for is what its panels want.
LEMMA AskedIsWanted ==
  ASSUME NEW panels, ToSet(panels) \subseteq Panels, NEW panel \in AppPanels, panel \in ToSet(panels),
         NEW request, request = [globals |-> Globals, queries |-> [i \in DOMAIN panels |-> QueryOf(panels[i])],
                                 app |-> TRUE]
  PROVE  Wanted(panel, request)
<1> DEFINE queries == [i \in DOMAIN panels |-> QueryOf(panels[i])]
<1>1. request.queries = queries /\ request.globals = Globals
  OBVIOUS
<1>2. SameFor(panel, Globals)
  BY DEF SameFor, Globals
<1>3. \A p \in Panels : QueryOf(p).name = QueryOf(panel).name => p = panel
  BY QueryNames DEF Panels, AppPanels
<1>4. \A i \in DOMAIN panels : panels[i] \in Panels
  BY DEF ToSet
<1>5. PICK i \in DOMAIN panels : panels[i] = panel
  BY DEF ToSet
<1>6. /\ DOMAIN queries = DOMAIN panels /\ queries[i] = QueryOf(panel)
      /\ \A j \in DOMAIN queries : queries[j] = QueryOf(panels[j])
  BY <1>5
<1> HIDE DEF queries
<1>7. \A j \in DOMAIN queries : queries[j].name = QueryOf(panel).name => queries[j] = QueryOf(panel)
  BY <1>3, <1>4, <1>6
<1>8. QED  BY <1>1, <1>2, <1>5, <1>6, <1>7 DEF Wanted

LEMMA SendInStep ==
  ASSUME CacheInv, AnswerInv, StepInv, NEW id \in Ids, SendRequest(id)
  PROVE  StepInv'
<1> DEFINE panels == SetToSeq(pending)
           request == [globals |-> Globals, queries |-> [i \in DOMAIN panels |-> QueryOf(panels[i])], app |-> TRUE]
<1>1. /\ Post(id, request) /\ UNCHANGED <<scene, range, files, search, shown>>
      /\ carries' = [carries EXCEPT ![id] = pending]
      /\ newest' = [p \in Panels |-> IF p \in pending THEN {id} ELSE newest[p]]
      /\ overtaken' = [p \in Panels |-> overtaken[p] /\ p \notin pending]
      /\ failed' = [p \in Panels |-> failed[p] /\ p \notin pending]
  BY DEF SendRequest, Send, valueVars, hookVars
<1>2. request.app /\ request = [globals |-> Globals, queries |-> [i \in DOMAIN panels |-> QueryOf(panels[i])],
                                app |-> TRUE]
  OBVIOUS
<1>3. ToSet(panels) = pending /\ pending \subseteq Panels
  <2>1. pending \subseteq Panels
    BY DEF AnswerInv, Steering
  <2>2. IsFiniteSet(pending)
    BY <2>1, PanelsFinite, FS_Subset
  <2>3. QED  BY <2>1, <2>2, SetListed
<1> HIDE DEF panels
<1>4. \A panel \in AppPanels : panel \in pending => Wanted(panel, request)
  BY <1>2, <1>3, AskedIsWanted
<1> HIDE DEF request
<1>5. /\ pc[id] = "free" /\ pc'[id] = "sent" /\ asked'[id] = request /\ carries'[id] = pending
      /\ \A j \in Ids \ {id} : pc'[j] = pc[j] /\ asked'[j] = asked[j] /\ carries'[j] = carries[j]
  BY <1>1 DEF Post, CacheInv, AnswerInv
<1>6. Scene' = Scene /\ \A panel \in Panels : QueryOf(panel)' = QueryOf(panel)
  BY <1>1 DEF Scene, QueryOf
<1>7. ASSUME NEW panel \in AppPanels, Scene.app
      PROVE  Keeps(panel)'
  <2>1. panel \in Panels
    BY DEF Panels, AppPanels
  <2>2. CASE panel \in pending
    <3>1. Wanted(panel, asked[id])'
      BY <1>1, <1>4, <1>5, <1>6, <2>1, <2>2 DEF Wanted, SameFor
    <3>2. newest'[panel] = {id}
      BY <1>1, <2>1, <2>2
    <3>3. Awaited(panel)'
      BY <1>2, <1>5, <2>2, <3>1, <3>2 DEF Awaited
    <3>4. QED  BY <3>3 DEF Keeps
  <2>3. CASE panel \notin pending
    <3>1. /\ newest'[panel] = newest[panel]
          /\ overtaken[panel] => overtaken'[panel]
          /\ failed[panel] => failed'[panel]
      BY <1>1, <2>1, <2>3
    <3>2. Keeps(panel)
      BY <1>7 DEF StepInv
    <3>3. \A j \in Ids : pc[j] # "free" /\ asked[j].app /\ panel \in carries[j] =>
                            pc'[j] # "free" /\ panel \in carries'[j] /\ asked'[j] = asked[j]
      BY <1>5
    <3>4. QED
      <4> HIDE DEF Keeps
      <4>1. QED  BY <1>1, <1>6, <2>1, <2>3, <3>1, <3>2, <3>3, PanelKeeps
  <2>4. QED  BY <2>2, <2>3
<1>8. QED  BY <1>1, <1>6, <1>7 DEF StepInv

\* The answer that a panel waits for is what it is to show.
LEMMA AwaitedIsCorrect ==
  ASSUME AnswerInv, NEW id \in Ids, reply[id].kind = "ok", NEW panel \in AppPanels, Wanted(panel, asked[id])
  PROVE  Correct(panel, DataFor(id, panel))
<1> DEFINE request == asked[id]
           queries == request.queries
           old == request.globals
           query == QueryOf(panel)
           isIt(j) == queries[j].name = query.name
           i == CHOOSE j \in DOMAIN queries : isIt(j)
           entries == EntriesIn(Collections[Scene.log])
           what == reply[id].what
<1>1. /\ SameFor(panel, old) /\ \E j \in DOMAIN queries : isIt(j)
      /\ \A j \in DOMAIN queries : isIt(j) => queries[j] = query
  BY DEF Wanted
<1>2. i \in DOMAIN queries /\ queries[i] = query
  <2> HIDE DEF isIt, queries, query
  <2>1. QED  BY <1>1
<1>3. DataFor(id, panel) = what[i]
  BY DEF DataFor
<1> HIDE DEF i
<1>4. RightReply(request, what)
  BY DEF AnswerInv, Replying
<1>5. RightAnswer(EntriesIn(Collections[old.collection]), old, query, what[i])
  BY <1>2, <1>4 DEF RightReply
<1>6. old.collection = Scene.log
  BY <1>1 DEF SameFor
<1> HIDE DEF what, query, old
<1>7. Answers(entries, old, FilterFromGlobalFilters(Ends(entries), old), query, what[i])
  BY <1>5, <1>6 DEF RightAnswer
<1> DEFINE new == Globals
           node == what[i]
<1>8. /\ old.start = new.start /\ old.end = new.end /\ old.pan = new.pan /\ old.zoom = new.zoom
      /\ panel # "files" => old.files = new.files
  BY <1>1 DEF SameFor, Globals
<1>9. /\ query.name \in {"logs.aggregate_source_files_table", "logs.raw_entries", "logs.timeseries"}
      /\ query.name # "logs.aggregate_source_files_table" => panel # "files"
  BY QueryNames DEF AppPanels, query
<1> HIDE DEF new, entries, node
<1>10. Answers(entries, new, FilterFromGlobalFilters(Ends(entries), new), query, node)
  <2>1. Answers(entries, old, FilterFromGlobalFilters(Ends(entries), old), query, node)
    BY <1>7 DEF node
  <2>2. QED  BY <1>8, <1>9, <2>1, SameAnswers
<1>11. QED  BY <1>3, <1>10 DEF Correct, new, entries, query, node

LEMMA DeliverInStep ==
  ASSUME CacheInv, AnswerInv, StepInv, NEW id \in Ids, DeliverReply(id)
  PROVE  StepInv'
<1> DEFINE ok == reply[id].kind = "ok"
           data == IF reply[id].kind = "ok" THEN [p \in carries[id] |-> DataFor(id, p)] ELSE <<>>
           told == carries[id]
<1>1. Release(id) /\ Deliver(id, ok, data) /\ UNCHANGED scene
  BY DEF DeliverReply
<1>2. ok => \A p \in told : data[p] = DataFor(id, p)
  OBVIOUS
<1> HIDE DEF ok, data
<1>3. /\ UNCHANGED <<range, files, search, pending>>
      /\ carries' = [carries EXCEPT ![id] = {}]
      /\ shown' = [p \in Panels |-> IF ok /\ p \in told THEN [kind |-> "ok", what |-> data[p]] ELSE shown[p]]
      /\ newest' = [p \in Panels |-> newest[p] \ {id}]
      /\ overtaken' = [p \in Panels |-> overtaken[p] \/ (ok /\ p \in told /\ newest[p] = {})]
      /\ failed' = [p \in Panels |-> failed[p] \/ (~ok /\ p \in told /\ newest[p] = {id})]
  BY <1>1 DEF Deliver, valueVars
<1>4. /\ pc' = [pc EXCEPT ![id] = "free"] /\ asked' = [asked EXCEPT ![id] = NoRequest]
      /\ \A j \in Ids \ {id} : pc'[j] = pc[j] /\ asked'[j] = asked[j] /\ carries'[j] = carries[j]
  BY <1>1, <1>3 DEF Release, CacheInv, AnswerInv
<1> HIDE DEF told
<1>5. Scene' = Scene /\ \A panel \in Panels : QueryOf(panel)' = QueryOf(panel)
  BY <1>1, <1>3 DEF Scene, QueryOf
<1>6. ASSUME NEW panel \in AppPanels, NEW what, Correct(panel, what)
      PROVE  Correct(panel, what)'
  <2>1. panel \in Panels
    BY DEF Panels, AppPanels
  <2>2. UNCHANGED <<scene, range>> /\ QueryOf(panel)' = QueryOf(panel) /\ files' = files
    BY <1>1, <1>3, <1>5, <2>1
  <2>3. QED  BY <1>6, <2>2, StaysCorrect
<1>7. ASSUME NEW panel \in AppPanels, Scene.app
      PROVE  Keeps(panel)'
  <2>1. panel \in Panels /\ Keeps(panel)
    BY <1>7 DEF Panels, AppPanels, StepInv
  <2>2. CASE panel \in pending \/ overtaken[panel] \/ failed[panel]
    <3>1. panel \in pending' \/ overtaken'[panel] \/ failed'[panel]
      BY <1>3, <2>1, <2>2
    <3>2. QED  BY <3>1 DEF Keeps
  <2>3. CASE Awaited(panel)
    <3>1. PICK j \in Ids : /\ newest[panel] = {j} /\ panel \in carries[j]
                           /\ pc[j] # "free" /\ asked[j].app /\ Wanted(panel, asked[j])
      BY <2>3 DEF Awaited
    <3>2. CASE j # id
      <4>1. newest'[panel] = {j}
        BY <1>3, <2>1, <3>1, <3>2
      <4>2. Wanted(panel, asked[j])'
        BY <1>1, <1>3, <1>4, <1>5, <2>1, <3>1, <3>2 DEF Wanted, SameFor
      <4>3. Awaited(panel)'
        BY <1>4, <3>1, <3>2, <4>1, <4>2 DEF Awaited
      <4>4. QED  BY <4>3 DEF Keeps
    <3>3. CASE j = id /\ ~ok
      <4>1. failed'[panel]
        BY <1>3, <2>1, <3>1, <3>3 DEF told
      <4>2. QED  BY <4>1 DEF Keeps
    <3>4. CASE j = id /\ ok
      <4> DEFINE what == DataFor(id, panel)
      <4>1. Correct(panel, what)
        BY <3>1, <3>4, AwaitedIsCorrect DEF ok
      <4>2. data[panel] = what
        BY <1>2, <3>1, <3>4 DEF told
      <4> HIDE DEF what
      <4>3. newest'[panel] = {} /\ shown'[panel] = [kind |-> "ok", what |-> what]
        BY <1>3, <2>1, <3>1, <3>4, <4>2 DEF told
      <4>4. PICK w : w = what
        OBVIOUS
      <4>5. Correct(panel, w)'
        BY <1>6, <4>1, <4>4
      <4>6. shown'[panel].what = w /\ shown'[panel].kind = "ok"
        BY <4>3, <4>4
      <4>7. UpToDate(panel)'
        BY <4>3, <4>5, <4>6 DEF UpToDate
      <4>8. QED  BY <4>7 DEF Keeps
    <3>5. QED  BY <3>2, <3>3, <3>4
  <2>4. CASE UpToDate(panel)
    <3>1. newest[panel] = {} /\ shown[panel].kind = "ok" /\ Correct(panel, shown[panel].what)
      BY <2>4 DEF UpToDate
    <3>2. CASE ok /\ panel \in told
      <4>1. overtaken'[panel]
        BY <1>3, <2>1, <3>1, <3>2
      <4>2. QED  BY <4>1 DEF Keeps
    <3>3. CASE ~(ok /\ panel \in told)
      <4>1. newest'[panel] = {} /\ shown'[panel] = shown[panel]
        BY <1>3, <2>1, <3>1, <3>3
      <4>2. PICK w : w = shown[panel].what
        OBVIOUS
      <4>3. Correct(panel, w)'
        BY <1>6, <3>1, <4>2
      <4>4. UpToDate(panel)'
        BY <3>1, <4>1, <4>2, <4>3 DEF UpToDate
      <4>5. QED  BY <4>4 DEF Keeps
    <3>4. QED  BY <3>2, <3>3
  <2>5. QED  BY <2>1, <2>2, <2>3, <2>4 DEF Keeps
<1>8. search' = [panel \in {"files", "entries"} |-> search'[panel]]
  BY <1>3 DEF StepInv
<1>9. QED  BY <1>5, <1>7, <1>8 DEF StepInv

LEMMA NextInStep ==
  ASSUME CacheInv, AnswerInv, StepInv, [Next]_vars
  PROVE  StepInv'
<1>1. CASE Accidents \/ UNCHANGED vars
  <2>1. UNCHANGED <<pc, asked>> /\ UNCHANGED <<clientVars, scene>>
    BY <1>1 DEF Accidents, Abort, Interrupt, Exit, vars, serviceVars
  <2>2. QED  BY <2>1, RequestsKeep
<1>2. QED
  BY <1>1, UserInStep, RenderInStep, SendInStep, OthersInStep, ServerInStep, DeliverInStep DEF Next, Receives

LEMMA AllAskAtFirst ==
  ASSUME Init
  PROVE  StepInv
<1>1. /\ search = [panel \in {"files", "entries"} |-> ""]
      /\ Scene.app => pending = Watching("range")
  BY DEF Init, InitClient
<1>2. Watching("range") = AppPanels
  BY DEF Watching, AppPanels
<1>3. Scene.app => \A panel \in AppPanels : Keeps(panel)
  BY <1>1, <1>2 DEF Keeps
<1>4. QED  BY <1>1, <1>3 DEF StepInv

(***************************************************************************)
(* App.tsx: whatever its user does, however its requests race with others, *)
(* and whichever of them fail, a client at rest shows in each panel what   *)
(* the log has for the range, files and searches that are selected, unless *)
(* the panel's latest request failed or was overtaken.                     *)
(***************************************************************************)
THEOREM PanelsShowTheLog == Spec => []AppInStep
<1>1. StepInv => AppInStep
  <2> SUFFICES ASSUME StepInv, Scene.app, AtRest, NEW panel \in AppPanels
               PROVE  overtaken[panel] \/ failed[panel] \/ UpToDate(panel)
    BY DEF AppInStep, AppPanels, UpToDate, Correct
  <2>1. Keeps(panel)
    BY DEF StepInv
  <2>2. panel \notin pending
    BY DEF AtRest
  <2>3. ~Awaited(panel)
    BY DEF Awaited, AtRest, NoRequest, Wanted
  <2>4. QED  BY <2>1, <2>2, <2>3 DEF Keeps
<1>2. Init => CacheInv /\ AnswerInv /\ StepInv
  BY InitiallyEmpty, NothingAnswered, AllAskAtFirst
<1>3. (CacheInv /\ AnswerInv /\ StepInv) /\ [Next]_vars => (CacheInv /\ AnswerInv /\ StepInv)'
  BY NextKeepsWhole, NextAnswers, NextInStep
<1>4. QED  BY <1>1, <1>2, <1>3, PTL DEF Spec
=============================================================================
