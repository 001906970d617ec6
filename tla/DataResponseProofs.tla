-------------------------- MODULE DataResponseProofs --------------------------
(***************************************************************************)
(* Proofs that the properties of DataResponse hold for any series          *)
(* requests, data sources, strings and property updates.                   *)
(***************************************************************************)
EXTENDS DataResponse, SequenceTheorems, TLAPS

USE UpdatesAssumption, MaxUpdatesAssumption, NoSourceAssumption

(***************************************************************************)
(* The inductive invariant.  For the string table it is the agreement of   *)
(* its two halves, and that indices resolve.  For the reply it says where  *)
(* each series request is: with its source, not begun, or in the response, *)
(* once; and that no goroutine is left when the handler replies.           *)
(***************************************************************************)

Begun(r) == \E i \in DOMAIN series : series[i] = r

\* Before the dispatch nothing was built and nobody builds, nor if it panics.
Untouched ==
  phase \in {"received", "dispatching", "panicked"} =>
    /\ \A w \in Sources : pc[w] = "absent" /\ todo[w] = {}
    /\ series = <<>>

\* After it each request is with its source or begun, and begun once.
SeriesPlaced ==
  /\ phase = "waiting" =>
       \A r \in asked : Begun(r) \/ \E w \in Sources : r \in todo[w]
  /\ \A w \in Sources : todo[w] \subseteq RequestsOf(w)
  /\ \A w \in Sources : \A r \in todo[w] : ~Begun(r)
  /\ \A i, j \in DOMAIN series : series[i] = series[j] => i = j

\* A source that ended without an error left none of its requests.
SourcesDone ==
  \A w \in Sources : pc[w] \in {"absent", "ended"} => todo[w] = {} \/ w \in failed

\* What was written so far.
ReplyFrame ==
  /\ phase # "replied" => status \in {0, 400} /\ "data" \notin body /\ (status = 0 => body = {})
  /\ phase = "replied" => AllEnded
  /\ status = 200 => phase = "replied"

\* A goroutine that missed a string still wants it; one that is not at a
\* property update wants nothing.
WantsMatch == \A w \in Sources :
  /\ pc[w] = "missed" => want[w] # <<>>
  /\ pc[w] \notin {"interning", "missed"} => want[w] = <<>>

IInv ==
  /\ TypeOK /\ TableAgrees /\ IndicesResolve
  /\ Untouched /\ SeriesPlaced /\ SourcesDone /\ ReplyFrame /\ TwoHundredIsWhole
  /\ WantsMatch

-----------------------------------------------------------------------------
(* The string table *)

\* The string a goroutine looks up, and what is left after it.
LEMMA HeadWanted ==
  ASSUME TypeOK, NEW w \in Sources, want[w] # <<>>
  PROVE  Head(want[w]) \in Strings /\ Tail(want[w]) \in Seq(Strings)
<1>1. want[w] \in Seq(Strings)
  BY DEF TypeOK
<1> QED
  BY <1>1, HeadTailProperties

\* A string added to the table gets the next position, and moves no other.
LEMMA AddedString ==
  ASSUME TypeOK, NEW s \in Strings, AddString(s)
  PROVE  /\ byIndex' \in Seq(Strings)
         /\ DOMAIN byIndex' = 1 .. Len(byIndex) + 1
         /\ DOMAIN byIndex = 1 .. Len(byIndex)
         /\ Len(byIndex) \in Nat
         /\ \A i \in 1 .. Len(byIndex) : byIndex'[i] = byIndex[i]
         /\ byIndex'[Len(byIndex) + 1] = s
         /\ DOMAIN toIndex' = DOMAIN toIndex \cup {s}
         /\ \A t \in DOMAIN toIndex : t # s => toIndex'[t] = toIndex[t]
         /\ toIndex'[s] = Len(byIndex)
<1>1. byIndex \in Seq(Strings) /\ byIndex' = Append(byIndex, s)
  BY DEF TypeOK, AddString
<1>2. /\ byIndex' \in Seq(Strings) /\ Len(byIndex') = Len(byIndex) + 1
      /\ \A i \in 1 .. Len(byIndex) : byIndex'[i] = byIndex[i]
      /\ byIndex'[Len(byIndex) + 1] = s
  BY <1>1, AppendProperties
<1>3. DOMAIN byIndex' = 1 .. Len(byIndex) + 1 /\ DOMAIN byIndex = 1 .. Len(byIndex) /\ Len(byIndex) \in Nat
  BY <1>1, <1>2
<1>4. toIndex' = [t \in DOMAIN toIndex \cup {s} |-> IF t = s THEN Len(byIndex) ELSE toIndex[t]]
  BY DEF AddString
<1> QED
  BY <1>2, <1>3, <1>4

\* Adding a string that is not there keeps the table in agreement, and every
\* index that resolves resolves to the same string afterwards.
LEMMA AddKeepsAgreement ==
  ASSUME TypeOK, TableAgrees, NEW s \in Strings, s \notin DOMAIN toIndex, AddString(s)
  PROVE  /\ TableAgrees'
         /\ DOMAIN toIndex' \subseteq Strings
         /\ toIndex' \in [DOMAIN toIndex' -> Nat]
         /\ \A pair \in Pairs : Resolves(pair, byIndex) => Resolves(pair, byIndex')
         /\ Resolves([string |-> s, index |-> Len(byIndex)], byIndex')
<1>0. /\ DOMAIN byIndex' = 1 .. Len(byIndex) + 1
      /\ DOMAIN byIndex = 1 .. Len(byIndex)
      /\ Len(byIndex) \in Nat
      /\ \A i \in 1 .. Len(byIndex) : byIndex'[i] = byIndex[i]
      /\ byIndex'[Len(byIndex) + 1] = s
      /\ DOMAIN toIndex' = DOMAIN toIndex \cup {s}
      /\ \A t \in DOMAIN toIndex : t # s => toIndex'[t] = toIndex[t]
      /\ toIndex'[s] = Len(byIndex)
  BY AddedString
<1>1. \A i \in 1 .. Len(byIndex) : byIndex[i] # s
  BY <1>0 DEF TableAgrees
<1>2. \A i, j \in DOMAIN byIndex' : byIndex'[i] = byIndex'[j] => i = j
  BY <1>0, <1>1 DEF TableAgrees
<1>3. \A t \in Strings : t \in DOMAIN toIndex' <=> \E i \in DOMAIN byIndex' : byIndex'[i] = t
  <2> SUFFICES ASSUME NEW t \in Strings
               PROVE  t \in DOMAIN toIndex' <=> \E i \in DOMAIN byIndex' : byIndex'[i] = t
    OBVIOUS
  <2>1. CASE t = s
    BY <1>0, <2>1
  <2>2. CASE t # s
    BY <1>0, <2>2 DEF TableAgrees
  <2> QED
    BY <2>1, <2>2
<1>4. \A t \in DOMAIN toIndex' : toIndex'[t] + 1 \in DOMAIN byIndex' /\ byIndex'[toIndex'[t] + 1] = t
  <2> SUFFICES ASSUME NEW t \in DOMAIN toIndex'
               PROVE  toIndex'[t] + 1 \in DOMAIN byIndex' /\ byIndex'[toIndex'[t] + 1] = t
    OBVIOUS
  <2>1. CASE t = s
    BY <1>0, <2>1
  <2>2. CASE t # s
    BY <1>0, <2>2 DEF TableAgrees
  <2> QED
    BY <2>1, <2>2
<1>5. DOMAIN toIndex' \subseteq Strings
  BY <1>0 DEF TypeOK
<1>6. toIndex' \in [DOMAIN toIndex' -> Nat]
  BY <1>0 DEF TypeOK, AddString
<1>7. \A pair \in Pairs : Resolves(pair, byIndex) => Resolves(pair, byIndex')
  BY <1>0 DEF Pairs, Resolves
<1>8. Resolves([string |-> s, index |-> Len(byIndex)], byIndex')
  BY <1>0 DEF Resolves
<1>9. TableAgrees'
  BY <1>2, <1>3, <1>4 DEF TableAgrees
<1> QED
  BY <1>5, <1>6, <1>7, <1>8, <1>9

\* A goroutine that found an index got the right one.
LEMMA FoundResolves ==
  ASSUME TypeOK, IndicesResolve, NEW w \in Sources, want[w] # <<>>,
         NEW i \in Nat, Found(w, i), UNCHANGED cited,
         \A pair \in Pairs : Resolves(pair, byIndex) => Resolves(pair, byIndex'),
         Resolves([string |-> Head(want[w]), index |-> i], byIndex')
  PROVE  /\ IndicesResolve'
         /\ got' \in [Sources -> SUBSET Pairs]
         /\ want' \in [Sources -> Seq(Strings)]
         /\ pc' \in [Sources -> {"absent", "idle", "building", "interning", "missed", "ended"}]
<1> DEFINE new == [string |-> Head(want[w]), index |-> i]
<1>1. Head(want[w]) \in Strings /\ Tail(want[w]) \in Seq(Strings)
  BY HeadWanted
<1>2. new \in Pairs
  BY <1>1 DEF Pairs
<1>3. got \in [Sources -> SUBSET Pairs] /\ cited \subseteq Pairs
      /\ want \in [Sources -> Seq(Strings)]
      /\ pc \in [Sources -> {"absent", "idle", "building", "interning", "missed", "ended"}]
  BY DEF TypeOK
<1>4. got' = [got EXCEPT ![w] = got[w] \cup {new}]
  BY DEF Found
<1>5. got' \in [Sources -> SUBSET Pairs]
  BY <1>2, <1>3, <1>4
<1>6. \A pair \in cited' : Resolves(pair, byIndex')
  BY <1>3 DEF IndicesResolve
<1>7. ASSUME NEW v \in Sources, NEW pair \in got'[v] PROVE Resolves(pair, byIndex')
  <2>1. CASE pair \in got[v]
    BY <2>1, <1>3 DEF IndicesResolve
  <2>2. CASE pair \notin got[v]
    <3>1. pair = new
      BY <2>2, <1>7, <1>3, <1>4
    <3> QED
      BY <3>1
  <2> QED
    BY <2>1, <2>2
<1>8. IndicesResolve'
  BY <1>6, <1>7 DEF IndicesResolve
<1> QED
  BY <1>1, <1>3, <1>5, <1>8 DEF Found

-----------------------------------------------------------------------------
(* The inductive invariant holds initially *)

LEMMA InitIInv == Init => IInv
<1> SUFFICES ASSUME Init PROVE IInv
  OBVIOUS
<1> USE DEF Init
<1>1. NoData \in [table : Seq(Strings), series : Seq(Requests), cited : SUBSET Pairs]
  BY DEF NoData
<1>2. TypeOK
  BY <1>1 DEF TypeOK
<1>3. TableAgrees /\ IndicesResolve
  BY DEF TableAgrees, IndicesResolve
<1>4. Untouched /\ SeriesPlaced /\ SourcesDone /\ ReplyFrame /\ TwoHundredIsWhole
  BY DEF Untouched, SeriesPlaced, SourcesDone, ReplyFrame, TwoHundredIsWhole, RequestsOf
<1>5. WantsMatch
  BY DEF WantsMatch
<1> QED
  BY <1>2, <1>3, <1>4, <1>5 DEF IInv

-----------------------------------------------------------------------------
(* The steps of the HTTP handler and the dispatcher *)

LEMMA WantsKeep ==
  ASSUME TypeOK, Untouched, WantsMatch, Next
  PROVE  WantsMatch'
<1> USE DEF WantsMatch, requestVars, builderVars, sourceVars
<1>1. CASE HandlerStep
  BY <1>1 DEF HandlerStep, ReportBadForm, RejectBadRequest, AcceptRequest,
              RejectUnsupported, Panic, Dispatch, ReplyData, ReplyError, Untouched
<1>2. ASSUME NEW w \in Sources, SourceStep(w) PROVE WantsMatch'
  <2>1. pc \in [Sources -> {"absent", "idle", "building", "interning", "missed", "ended"}]
        /\ want \in [Sources -> Seq(Strings)]
    BY DEF TypeOK
  <2>2. \A v \in Sources : v # w => pc'[v] = pc[v] /\ want'[v] = want[v]
    BY <1>2, <2>1 DEF SourceStep, BeginSeries, With, WithError, LookUpHit, LookUpMiss,
                      Insert, SetProperty, End, Fail, Found
  <2>3. /\ pc'[w] = "missed" => want'[w] # <<>>
        /\ pc'[w] \notin {"interning", "missed"} => want'[w] = <<>>
    BY <1>2, <2>1 DEF SourceStep, BeginSeries, With, WithError, LookUpHit, LookUpMiss,
                      Insert, SetProperty, End, Fail, Found
  <2> QED
    BY <2>2, <2>3
<1> QED
  BY <1>1, <1>2 DEF Next

\* What the handler leaves alone keeps the string table in order.
LEMMA BuilderUntouched ==
  ASSUME TableAgrees, IndicesResolve, UNCHANGED builderVars, UNCHANGED got
  PROVE  TableAgrees' /\ IndicesResolve'
BY DEF TableAgrees, IndicesResolve, Resolves, builderVars

LEMMA HandlerKeeps ==
  ASSUME IInv, HandlerStep
  PROVE  IInv'
<1> USE DEF requestVars, builderVars, sourceVars
<1>0. TypeOK /\ TableAgrees /\ IndicesResolve /\ Untouched /\ SeriesPlaced
      /\ SourcesDone /\ ReplyFrame /\ TwoHundredIsWhole
  BY DEF IInv
<1>1. UNCHANGED builderVars /\ UNCHANGED got
  BY DEF HandlerStep, ReportBadForm, RejectBadRequest, AcceptRequest,
         RejectUnsupported, Panic, Dispatch, ReplyData, ReplyError
<1>2. TableAgrees' /\ IndicesResolve'
  BY <1>0, <1>1, BuilderUntouched
<1>m. WantsMatch'
  BY WantsKeep DEF IInv, Next
<1>3. phase # "replied"
  BY DEF HandlerStep, ReportBadForm, RejectBadRequest, AcceptRequest,
         RejectUnsupported, Panic, Dispatch, ReplyData, ReplyError
<1>4. CASE ReportBadForm \/ AcceptRequest \/ Panic
  <2>1. TypeOK'
    BY <1>0, <1>4 DEF TypeOK, ReportBadForm, AcceptRequest, Panic, Write
  <2>2. Untouched' /\ SeriesPlaced' /\ SourcesDone'
    BY <1>0, <1>4 DEF ReportBadForm, AcceptRequest, Panic, Write, Untouched, SeriesPlaced,
                      SourcesDone, RequestsOf, Begun
  <2>3. ReplyFrame' /\ TwoHundredIsWhole'
    BY <1>0, <1>4 DEF ReportBadForm, AcceptRequest, Panic, Write, ReplyFrame, TwoHundredIsWhole
  <2> QED
    BY <1>2, <1>m, <2>1, <2>2, <2>3 DEF IInv
<1>5. CASE RejectBadRequest \/ RejectUnsupported
  <2>1. TypeOK'
    BY <1>0, <1>5 DEF TypeOK, RejectBadRequest, RejectUnsupported, Write
  <2>2. Untouched' /\ SeriesPlaced' /\ SourcesDone'
    BY <1>0, <1>5 DEF RejectBadRequest, RejectUnsupported, Write, Untouched, SeriesPlaced,
                      SourcesDone, RequestsOf, Begun
  <2>3. AllEnded' /\ status' # 200
    BY <1>0, <1>5 DEF RejectBadRequest, RejectUnsupported, Write, ReplyFrame, Untouched, AllEnded
  <2>4. ReplyFrame' /\ TwoHundredIsWhole'
    BY <1>5, <2>3 DEF RejectBadRequest, RejectUnsupported, ReplyFrame, TwoHundredIsWhole
  <2> QED
    BY <1>2, <1>m, <2>1, <2>2, <2>4 DEF IInv
<1>6. CASE Dispatch
  <2>1. \A w \in Sources : RequestsOf(w) \subseteq asked /\ RequestsOf(w)' = RequestsOf(w)
    BY <1>6 DEF RequestsOf, Dispatch
  <2>2. TypeOK'
    BY <1>0, <1>6, <2>1 DEF TypeOK, Dispatch
  <2>3. series' = <<>> /\ \A r : ~Begun(r)'
    BY <1>0, <1>6 DEF Dispatch, Untouched, Begun
  <2>4. \A r \in asked' : \E w \in Sources : r \in todo'[w]
    <3> SUFFICES ASSUME NEW r \in asked PROVE \E w \in Sources : r \in todo'[w]
      BY <1>6 DEF Dispatch
    <3>1. handledBy[r] \in Sources /\ r \in RequestsOf(handledBy[r])
      BY <1>0, <1>6 DEF Dispatch, TypeOK, RequestsOf
    <3> QED
      BY <1>6, <3>1 DEF Dispatch
  <2>5. \A w \in Sources : todo'[w] = RequestsOf(w)
    BY <1>6 DEF Dispatch
  <2>6. SeriesPlaced'
    BY <2>1, <2>3, <2>4, <2>5 DEF SeriesPlaced
  <2>7. Untouched' /\ SourcesDone'
    BY <1>6, <2>5 DEF Untouched, SourcesDone, Dispatch
  <2>8. ReplyFrame' /\ TwoHundredIsWhole'
    BY <1>0, <1>6 DEF Dispatch, ReplyFrame, TwoHundredIsWhole
  <2> QED
    BY <1>2, <1>m, <2>2, <2>6, <2>7, <2>8 DEF IInv
<1>7. CASE ReplyData
  <2>1. TypeOK'
    <3>1. sent' \in [table : Seq(Strings), series : Seq(Requests), cited : SUBSET Pairs]
      BY <1>0, <1>7 DEF ReplyData, TypeOK
    <3> QED
      BY <1>0, <1>7, <3>1 DEF ReplyData, TypeOK, Write
  <2>2. Untouched' /\ SeriesPlaced' /\ SourcesDone'
    BY <1>0, <1>7 DEF ReplyData, Write, Untouched, SeriesPlaced, SourcesDone, RequestsOf, Begun
  <2>3. AllEnded' /\ Good'
    BY <1>7 DEF ReplyData, AllEnded, Good
  <2>4. \A r \in asked : Begun(r)
    BY <1>0, <1>7 DEF ReplyData, SeriesPlaced, SourcesDone, AllEnded, Good
  <2>5. EverySeriesOnce'
    BY <1>0, <1>7, <2>4 DEF ReplyData, SeriesPlaced, EverySeriesOnce, Begun
  <2>6. \A pair \in sent'.cited : Resolves(pair, sent'.table)
    BY <1>0, <1>7 DEF ReplyData, IndicesResolve
  <2>7. sent'.cited = cited' /\ sent'.table = byIndex'
    BY <1>7 DEF ReplyData
  <2>8. status' = 200 => body' = {"data"}
    BY <1>0, <1>7 DEF ReplyData, Write, ReplyFrame
  <2>9. TwoHundredIsWhole'
    BY <2>3, <2>5, <2>6, <2>7, <2>8 DEF TwoHundredIsWhole, Resolves
  <2>10. ReplyFrame'
    BY <1>7, <2>3 DEF ReplyData, ReplyFrame
  <2> QED
    BY <1>2, <1>m, <2>1, <2>2, <2>9, <2>10 DEF IInv
<1>8. CASE ReplyError
  <2>1. TypeOK'
    BY <1>0, <1>8 DEF TypeOK, ReplyError, Write
  <2>2. Untouched' /\ SeriesPlaced' /\ SourcesDone'
    BY <1>0, <1>8 DEF ReplyError, Write, Untouched, SeriesPlaced, SourcesDone, RequestsOf, Begun
  <2>3. AllEnded' /\ status' # 200
    BY <1>0, <1>8 DEF ReplyError, Write, ReplyFrame, AllEnded
  <2>4. ReplyFrame' /\ TwoHundredIsWhole'
    BY <1>8, <2>3 DEF ReplyError, ReplyFrame, TwoHundredIsWhole
  <2> QED
    BY <1>2, <1>m, <2>1, <2>2, <2>4 DEF IInv
<1> QED
  BY <1>4, <1>5, <1>6, <1>7, <1>8 DEF HandlerStep

-----------------------------------------------------------------------------
(* The steps of a data source *)

\* While a source builds, the dispatch is over and no reply was written.
LEMMA BusyMeansWaiting ==
  ASSUME IInv, NEW w \in Sources, pc[w] \notin {"absent", "ended"}
  PROVE  phase = "waiting" /\ status # 200
<1>1. phase # "replied"
  BY DEF IInv, ReplyFrame, AllEnded
<1>2. phase \notin {"received", "dispatching", "panicked"}
  BY DEF IInv, Untouched
<1>3. phase \in {"received", "dispatching", "waiting", "replied", "panicked"}
  BY DEF IInv, TypeOK
<1> QED
  BY <1>1, <1>2, <1>3 DEF IInv, ReplyFrame

\* What is said of the reply does not depend on a source that still builds.
LEMMA ReplyUntouched ==
  ASSUME IInv, NEW w \in Sources, pc[w] \notin {"absent", "ended"}, UNCHANGED requestVars
  PROVE  Untouched' /\ ReplyFrame' /\ TwoHundredIsWhole'
<1>1. phase' = "waiting" /\ status' # 200
  BY BusyMeansWaiting DEF requestVars
<1> QED
  BY <1>1 DEF IInv, Untouched, ReplyFrame, TwoHundredIsWhole, requestVars

\* A step that begins no series and ends no goroutine keeps the placement.
LEMMA PlacementUntouched ==
  ASSUME IInv, NEW w \in Sources, pc[w] \notin {"absent", "ended"},
         \A v \in Sources : v # w => pc'[v] = pc[v],
         pc'[w] \notin {"absent", "ended"},
         UNCHANGED requestVars, UNCHANGED <<series, todo, failed>>
  PROVE  SeriesPlaced' /\ SourcesDone'
<1>1. SeriesPlaced'
  BY DEF IInv, SeriesPlaced, Begun, RequestsOf, requestVars
<1>2. SourcesDone'
  BY DEF IInv, SourcesDone
<1> QED
  BY <1>1, <1>2

LEMMA BeginSeriesKeeps ==
  ASSUME IInv, NEW w \in Sources, NEW r \in Requests, BeginSeries(w, r)
  PROVE  IInv'
<1>0. TypeOK /\ TableAgrees /\ IndicesResolve /\ SeriesPlaced /\ SourcesDone
  BY DEF IInv
<1>1. pc[w] \notin {"absent", "ended"} /\ UNCHANGED requestVars
  BY DEF BeginSeries
<1>2. /\ series \in Seq(Requests) /\ series' = Append(series, r)
      /\ r \in todo[w] /\ todo' = [todo EXCEPT ![w] = todo[w] \ {r}]
      /\ todo \in [Sources -> SUBSET Requests]
  BY <1>0 DEF BeginSeries, TypeOK
<1>3. /\ series' \in Seq(Requests) /\ DOMAIN series' = 1 .. Len(series) + 1
      /\ DOMAIN series = 1 .. Len(series) /\ Len(series) \in Nat
      /\ \A i \in 1 .. Len(series) : series'[i] = series[i]
      /\ series'[Len(series) + 1] = r
  <2>1. Len(series') = Len(series) + 1
    BY <1>2, AppendProperties
  <2> QED
    BY <1>2, <2>1, AppendProperties
<1>4. TypeOK'
  <2>1. pc' \in [Sources -> {"absent", "idle", "building", "interning", "missed", "ended"}]
        /\ todo' \in [Sources -> SUBSET Requests]
    BY <1>0, <1>2 DEF BeginSeries, TypeOK
  <2> QED
    BY <1>0, <1>3, <2>1 DEF BeginSeries, TypeOK, requestVars
<1>5. TableAgrees' /\ IndicesResolve'
  BY <1>0 DEF BeginSeries, TableAgrees, IndicesResolve, Resolves
<1>6. \A q : Begun(q)' <=> Begun(q) \/ q = r
  BY <1>3 DEF Begun
<1>7. ~Begun(r) /\ \A v \in Sources : r \in todo[v] => v = w
  BY <1>0, <1>2 DEF SeriesPlaced, RequestsOf
<1>8. SeriesPlaced'
  <2>1. phase' = "waiting" => \A q \in asked' : Begun(q)' \/ \E v \in Sources : q \in todo'[v]
    BY <1>0, <1>1, <1>2, <1>6 DEF SeriesPlaced, requestVars
  <2>2. \A v \in Sources : todo'[v] \subseteq RequestsOf(v)'
    BY <1>0, <1>1, <1>2 DEF SeriesPlaced, requestVars, RequestsOf
  <2>3. \A v \in Sources : \A q \in todo'[v] : ~Begun(q)'
    BY <1>0, <1>2, <1>6, <1>7 DEF SeriesPlaced
  <2>4. \A i, j \in DOMAIN series' : series'[i] = series'[j] => i = j
    BY <1>0, <1>3, <1>7 DEF SeriesPlaced, Begun
  <2> QED
    BY <2>1, <2>2, <2>3, <2>4 DEF SeriesPlaced
<1>9. SourcesDone'
  BY <1>0, <1>2 DEF BeginSeries, SourcesDone, TypeOK
<1>10. WantsMatch'
  BY WantsKeep DEF IInv, Next, SourceStep
<1> QED
  BY <1>1, <1>10, <1>4, <1>5, <1>8, <1>9, ReplyUntouched DEF IInv

\* The steps of a property update: they change the string table, and what a
\* source wants and got.
LEMMA UpdateKeeps ==
  ASSUME IInv, NEW w \in Sources,
         \/ \E update \in Updates : With(w, update)
         \/ WithError(w) \/ LookUpHit(w) \/ LookUpMiss(w) \/ Insert(w) \/ SetProperty(w)
  PROVE  IInv'
<1>0. TypeOK /\ TableAgrees /\ IndicesResolve
  BY DEF IInv
<1>1. pc \in [Sources -> {"absent", "idle", "building", "interning", "missed", "ended"}]
  BY <1>0 DEF TypeOK
<1>2. /\ pc[w] \notin {"absent", "ended"} /\ UNCHANGED requestVars
      /\ UNCHANGED <<series, todo, failed>>
      /\ \A v \in Sources : v # w => pc'[v] = pc[v]
      /\ pc'[w] \notin {"absent", "ended"}
  BY <1>1 DEF With, WithError, LookUpHit, LookUpMiss, Insert, SetProperty, Found,
              builderVars, sourceVars
<1>3. Untouched' /\ ReplyFrame' /\ TwoHundredIsWhole' /\ SeriesPlaced' /\ SourcesDone'
      /\ WantsMatch'
  <2>1. Next
    BY DEF Next, SourceStep
  <2> QED
    BY <1>2, <2>1, ReplyUntouched, PlacementUntouched, WantsKeep DEF IInv
<1>4. ASSUME NEW update \in Updates, With(w, update)
      PROVE  TypeOK' /\ TableAgrees' /\ IndicesResolve'
  <2>1. TypeOK'
    BY <1>0, <1>4 DEF With, TypeOK, builderVars, requestVars
  <2> QED
    BY <1>0, <1>4, <2>1, BuilderUntouched DEF With
<1>5. CASE WithError(w)
  <2>1. TypeOK'
    BY <1>0, <1>5 DEF WithError, TypeOK, sourceVars, requestVars
  <2>2. TableAgrees' /\ IndicesResolve'
    BY <1>0, <1>5 DEF WithError, TableAgrees, IndicesResolve, Resolves, sourceVars
  <2> QED
    BY <1>3, <2>1, <2>2 DEF IInv
<1>6. CASE LookUpHit(w)
  <2>1. Head(want[w]) \in DOMAIN toIndex /\ want[w] # <<>> /\ UNCHANGED builderVars
    BY <1>6 DEF LookUpHit
  <2>2. toIndex[Head(want[w])] \in Nat
    BY <1>0, <2>1 DEF TypeOK
  <2>3. Resolves([string |-> Head(want[w]), index |-> toIndex[Head(want[w])]], byIndex')
    BY <1>0, <2>1 DEF TableAgrees, Resolves, builderVars
  <2>4. /\ IndicesResolve' /\ got' \in [Sources -> SUBSET Pairs]
        /\ want' \in [Sources -> Seq(Strings)]
        /\ pc' \in [Sources -> {"absent", "idle", "building", "interning", "missed", "ended"}]
    <3>1. Found(w, toIndex[Head(want[w])]) /\ UNCHANGED cited /\ byIndex' = byIndex
      BY <1>6, <2>1 DEF LookUpHit, builderVars
    <3>2. \A pair \in Pairs : Resolves(pair, byIndex) => Resolves(pair, byIndex')
      BY <3>1
    <3> QED
      BY <1>0, <2>1, <2>2, <2>3, <3>1, <3>2, FoundResolves
  <2>5. TypeOK'
    BY <1>0, <1>6, <2>1, <2>4 DEF LookUpHit, TypeOK, requestVars, builderVars
  <2>6. TableAgrees'
    BY <1>0, <2>1 DEF TableAgrees, builderVars
  <2> QED
    BY <1>3, <2>4, <2>5, <2>6 DEF IInv
<1>7. CASE LookUpMiss(w)
  <2>1. TypeOK'
    BY <1>0, <1>7 DEF LookUpMiss, TypeOK, requestVars, builderVars
  <2> QED
    BY <1>0, <1>3, <1>7, <2>1, BuilderUntouched DEF LookUpMiss, IInv
<1>8. CASE Insert(w)
  <2> DEFINE s == Head(want[w])
  <2>1. /\ UNCHANGED <<requestVars, series, cited, erring, todo, updates, failed>>
        /\ want[w] # <<>>
    BY <1>8 DEF Insert, IInv, WantsMatch
  <2>2. s \in Strings
    BY <1>0, <2>1, HeadWanted
  <2>3. CASE s \in DOMAIN toIndex
    <3>1. Found(w, toIndex[s]) /\ UNCHANGED <<byIndex, toIndex>>
      BY <1>8, <2>3 DEF Insert
    <3>2. toIndex[s] \in Nat
      BY <1>0, <2>3 DEF TypeOK
    <3>3. Resolves([string |-> s, index |-> toIndex[s]], byIndex')
      BY <1>0, <2>3, <3>1 DEF TableAgrees, Resolves
    <3>4. \A pair \in Pairs : Resolves(pair, byIndex) => Resolves(pair, byIndex')
      BY <3>1
    <3>5. /\ IndicesResolve' /\ got' \in [Sources -> SUBSET Pairs]
          /\ want' \in [Sources -> Seq(Strings)]
          /\ pc' \in [Sources -> {"absent", "idle", "building", "interning", "missed", "ended"}]
      BY <1>0, <2>1, <3>1, <3>2, <3>3, <3>4, FoundResolves
    <3>6. TypeOK'
      BY <1>0, <2>1, <3>1, <3>5 DEF TypeOK, requestVars
    <3>7. TableAgrees'
      BY <1>0, <3>1 DEF TableAgrees
    <3> QED
      BY <1>3, <3>5, <3>6, <3>7 DEF IInv
  <2>4. CASE s \notin DOMAIN toIndex
    <3>1. AddString(s) /\ Found(w, Len(byIndex))
      BY <1>8, <2>4 DEF Insert
    <3>2. Len(byIndex) \in Nat /\ byIndex' \in Seq(Strings)
      BY <1>0, <2>2, <3>1, AddedString
    <3>3. /\ TableAgrees'
          /\ DOMAIN toIndex' \subseteq Strings
          /\ toIndex' \in [DOMAIN toIndex' -> Nat]
          /\ \A pair \in Pairs : Resolves(pair, byIndex) => Resolves(pair, byIndex')
          /\ Resolves([string |-> s, index |-> Len(byIndex)], byIndex')
      BY <1>0, <2>2, <2>4, <3>1, AddKeepsAgreement
    <3>4. /\ IndicesResolve' /\ got' \in [Sources -> SUBSET Pairs]
          /\ want' \in [Sources -> Seq(Strings)]
          /\ pc' \in [Sources -> {"absent", "idle", "building", "interning", "missed", "ended"}]
      BY <1>0, <2>1, <3>1, <3>2, <3>3, FoundResolves
    <3>5. TypeOK'
      BY <1>0, <2>1, <3>2, <3>3, <3>4 DEF TypeOK, requestVars
    <3> QED
      BY <1>3, <3>3, <3>4, <3>5 DEF IInv
  <2> QED
    BY <2>3, <2>4
<1>9. CASE SetProperty(w)
  <2>1. TypeOK'
    BY <1>0, <1>9 DEF SetProperty, TypeOK, requestVars
  <2>2. TableAgrees' /\ IndicesResolve'
    BY <1>0, <1>9 DEF SetProperty, TableAgrees, IndicesResolve, Resolves, TypeOK
  <2> QED
    BY <1>3, <2>1, <2>2 DEF IInv
<1> QED
  BY <1>3, <1>4, <1>5, <1>6, <1>7, <1>8, <1>9 DEF IInv

\* A goroutine that ends has begun all its series or failed.
LEMMA EndKeeps ==
  ASSUME IInv, NEW w \in Sources, End(w) \/ Fail(w)
  PROVE  IInv'
<1>0. TypeOK /\ TableAgrees /\ IndicesResolve /\ SeriesPlaced /\ SourcesDone
  BY DEF IInv
<1>1. /\ pc[w] \notin {"absent", "ended"} /\ UNCHANGED requestVars
      /\ UNCHANGED builderVars /\ UNCHANGED <<todo, want, got, updates>>
  BY DEF End, Fail
<1>2. TypeOK'
  <2>1. pc' \in [Sources -> {"absent", "idle", "building", "interning", "missed", "ended"}]
    <3>1. pc' = [pc EXCEPT ![w] = "ended"]
      BY DEF End, Fail
    <3> QED
      BY <1>0, <3>1 DEF TypeOK
  <2>2. failed' \subseteq Sources
    BY <1>0 DEF End, Fail, TypeOK
  <2> QED
    BY <1>0, <1>1, <2>1, <2>2 DEF TypeOK, requestVars, builderVars
<1>3. TableAgrees' /\ IndicesResolve'
  BY <1>0, <1>1, BuilderUntouched
<1>4. SeriesPlaced'
  BY <1>0, <1>1 DEF SeriesPlaced, Begun, RequestsOf, requestVars, builderVars
<1>5. SourcesDone'
  <2>1. \A v \in Sources : v # w => pc'[v] = pc[v] /\ todo'[v] = todo[v]
    BY <1>0 DEF End, Fail, TypeOK
  <2>2. todo'[w] = {} \/ w \in failed'
    BY DEF End, Fail
  <2>3. failed \subseteq failed'
    BY DEF End, Fail
  <2> QED
    BY <1>0, <2>1, <2>2, <2>3 DEF SourcesDone
<1>6. WantsMatch'
  BY WantsKeep DEF IInv, Next, SourceStep
<1> QED
  BY <1>1, <1>2, <1>3, <1>4, <1>5, <1>6, ReplyUntouched DEF IInv

-----------------------------------------------------------------------------
(* The theorems *)

LEMMA NextIInv == IInv /\ [Next]_vars => IInv'
<1> SUFFICES ASSUME IInv, [Next]_vars PROVE IInv'
  OBVIOUS
<1>1. CASE HandlerStep
  BY <1>1, HandlerKeeps
<1>2. ASSUME NEW w \in Sources, SourceStep(w) PROVE IInv'
  BY <1>2, BeginSeriesKeeps, UpdateKeeps, EndKeeps DEF SourceStep
<1>3. CASE UNCHANGED vars
  BY <1>3 DEF vars, requestVars, builderVars, sourceVars, IInv, TypeOK, TableAgrees,
     IndicesResolve, Untouched, SeriesPlaced, SourcesDone, ReplyFrame, TwoHundredIsWhole,
     WantsMatch, Begun, RequestsOf, Resolves, AllEnded, Good, EverySeriesOnce
<1> QED
  BY <1>1, <1>2, <1>3 DEF Next

(***************************************************************************)
(* The inductive invariant of the server's answer to a request: the string *)
(* table of util.go in order, every series request placed, and the reply   *)
(* of query_handler.go true to what was built.                             *)
(***************************************************************************)
THEOREM Invariance == Spec => []IInv
<1>1. IInv /\ UNCHANGED vars => IInv'
  BY NextIInv
<1> QED
  BY InitIInv, NextIInv, PTL DEF Spec

\* The values of the state have their types, whatever the data sources do.
THEOREM TypeCorrect == Spec => []TypeOK
<1>1. IInv => TypeOK
  BY DEF IInv
<1> QED
  BY <1>1, Invariance, PTL

\* stringIndex() keeps its map and its slice in agreement for any number of
\* goroutines, and every index in a property is that of its string.
THEOREM TableInOrder == Spec => [](TableAgrees /\ IndicesResolve)
<1>1. IInv => TableAgrees /\ IndicesResolve
  BY DEF IInv
<1> QED
  BY <1>1, Invariance, PTL

\* A reply with status 200 is whole, for any requests and data sources.
THEOREM ReplyIsWhole == Spec => []TwoHundredIsWhole
<1>1. IInv => TwoHundredIsWhole
  BY DEF IInv
<1> QED
  BY <1>1, Invariance, PTL

-----------------------------------------------------------------------------
(* The string table implements the one that interns in a single step. *)

\* The initial states are those of the promise.
LEMMA TableInit == Init => Table!Init
BY DEF Init, Table!Init

\* A goroutine that found an index made the step of the promise.
LEMMA FoundInterns ==
  ASSUME TypeOK, NEW w \in Sources, want[w] # <<>>, NEW i \in Nat, Found(w, i),
         Resolves([string |-> Head(want[w]), index |-> i], byIndex'),
         \/ byIndex' = byIndex
         \/ /\ \A j \in DOMAIN byIndex : byIndex[j] # Head(want[w])
            /\ byIndex' = Append(byIndex, Head(want[w]))
  PROVE  Table!Intern(w)
<1>1. /\ i + 1 \in DOMAIN byIndex' /\ byIndex'[i + 1] = Head(want[w])
      /\ (i + 1) - 1 = i
  BY DEF Resolves
<1>2. got' = [got EXCEPT ![w] = got[w] \cup {[string |-> Head(want[w]), index |-> (i + 1) - 1]}]
  BY <1>1 DEF Found
<1>3. want' = [want EXCEPT ![w] = Tail(want[w])]
  BY DEF Found
<1> QED
  BY <1>1, <1>2, <1>3 DEF Table!Intern

\* Each step is a step of the promise or leaves its variables alone.
LEMMA TableStep == IInv /\ [Next]_vars => [Table!Next]_<<byIndex, want, got>>
<1> SUFFICES ASSUME IInv, [Next]_vars
             PROVE  Table!Next \/ UNCHANGED <<byIndex, want, got>>
  OBVIOUS
<1> USE DEF requestVars, builderVars, sourceVars
<1>0. TypeOK /\ TableAgrees /\ WantsMatch
  BY DEF IInv
<1>1. CASE HandlerStep
  BY <1>1 DEF HandlerStep, ReportBadForm, RejectBadRequest, AcceptRequest,
              RejectUnsupported, Panic, Dispatch, ReplyData, ReplyError
<1>2. ASSUME NEW w \in Sources, SourceStep(w)
      PROVE  Table!Next \/ UNCHANGED <<byIndex, want, got>>
  <2>1. CASE \/ \E r \in Requests : BeginSeries(w, r)
             \/ WithError(w) \/ LookUpMiss(w) \/ End(w) \/ Fail(w)
    BY <2>1 DEF BeginSeries, WithError, LookUpMiss, End, Fail
  <2>2. ASSUME NEW update \in Updates, With(w, update)
        PROVE  Table!Next \/ UNCHANGED <<byIndex, want, got>>
    <3>1. want[w] = <<>>
      BY <1>0, <2>2 DEF With, WantsMatch
    <3>2. Table!Begin(w, update)
      BY <2>2, <3>1 DEF With, Table!Begin
    <3> QED
      BY <3>2 DEF Table!Next
  <2>3. CASE LookUpHit(w)
    <3>1. want[w] # <<>> /\ Head(want[w]) \in DOMAIN toIndex /\ byIndex' = byIndex
          /\ Found(w, toIndex[Head(want[w])])
      BY <2>3 DEF LookUpHit
    <3>2. toIndex[Head(want[w])] \in Nat
      BY <1>0, <3>1 DEF TypeOK
    <3>3. Resolves([string |-> Head(want[w]), index |-> toIndex[Head(want[w])]], byIndex')
      BY <1>0, <3>1 DEF TableAgrees, Resolves
    <3>4. Table!Intern(w)
      BY <1>0, <3>1, <3>2, <3>3, FoundInterns
    <3> QED
      BY <3>4 DEF Table!Next
  <2>4. CASE Insert(w)
    <3>1. want[w] # <<>>
      BY <1>0, <2>4 DEF Insert, WantsMatch
    <3>2. Head(want[w]) \in Strings
      BY <1>0, <3>1, HeadWanted
    <3>3. CASE Head(want[w]) \in DOMAIN toIndex
      <4>1. Found(w, toIndex[Head(want[w])]) /\ byIndex' = byIndex
        BY <2>4, <3>3 DEF Insert
      <4>2. toIndex[Head(want[w])] \in Nat
        BY <1>0, <3>3 DEF TypeOK
      <4>3. Resolves([string |-> Head(want[w]), index |-> toIndex[Head(want[w])]], byIndex')
        BY <1>0, <3>3, <4>1 DEF TableAgrees, Resolves
      <4>4. Table!Intern(w)
        BY <1>0, <3>1, <4>1, <4>2, <4>3, FoundInterns
      <4> QED
        BY <4>4 DEF Table!Next
    <3>4. CASE Head(want[w]) \notin DOMAIN toIndex
      <4>1. Found(w, Len(byIndex)) /\ AddString(Head(want[w]))
        BY <2>4, <3>4 DEF Insert
      <4>2. byIndex' = Append(byIndex, Head(want[w])) /\ Len(byIndex) \in Nat
        BY <1>0, <3>2, <4>1, AddedString DEF AddString
      <4>3. Resolves([string |-> Head(want[w]), index |-> Len(byIndex)], byIndex')
        BY <1>0, <3>2, <3>4, <4>1, AddKeepsAgreement
      <4>4. \A j \in DOMAIN byIndex : byIndex[j] # Head(want[w])
        BY <1>0, <3>2, <3>4 DEF TableAgrees
      <4>5. Table!Intern(w)
        BY <1>0, <3>1, <4>1, <4>2, <4>3, <4>4, FoundInterns
      <4> QED
        BY <4>5 DEF Table!Next
    <3> QED
      BY <3>3, <3>4
  <2>5. CASE SetProperty(w)
    <3>1. Table!Forget(w)
      BY <2>5 DEF SetProperty, Table!Forget
    <3> QED
      BY <3>1 DEF Table!Next
  <2> QED
    BY <1>2, <2>1, <2>2, <2>3, <2>4, <2>5 DEF SourceStep
<1>3. CASE UNCHANGED vars
  BY <1>3 DEF vars
<1> QED
  BY <1>1, <1>2, <1>3 DEF Next

(***************************************************************************)
(* stringIndex(), with a read lock, a write lock and a second look, turns  *)
(* each string into its index in one indivisible step.                     *)
(***************************************************************************)
THEOREM Refinement == Spec => InternsAtomically
<1>1. Spec => Table!Spec
  BY TableInit, TableStep, Invariance, PTL DEF Spec, Table!Spec
<1> QED
  BY <1>1 DEF InternsAtomically
=============================================================================
