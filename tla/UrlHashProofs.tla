---------------------------- MODULE UrlHashProofs ----------------------------
(***************************************************************************)
(* Proofs about UrlHash, for any keys, texts, links and number of inputs.  *)
(*                                                                         *)
(* UrlMirrorsValues and NoTwinEntries are inductive once two facts are     *)
(* added: a callback is scheduled just when an update is pending, and an   *)
(* update is pending only if the page itself started or changed a Value.   *)
(***************************************************************************)
EXTENDS UrlHash, SequenceTheorems, TLAPS

OneCallback == callbacks = IF pending THEN 1 ELSE 0
PendingIsOwn == pending => touched

IInv == TypeOK /\ OneCallback /\ PendingIsOwn /\ UrlMirrorsValues /\ NoTwinEntries

Entry == [hash : Hashes, pushed : BOOLEAN]

-----------------------------------------------------------------------------
(* Parsing *)

\* Parsing gives the keys values, those of the texts in a complete hash.
LEMMA ParseTypes ==
  ASSUME vals \in [Keys -> Values], NEW h \in Hashes, ParseURL(h)
  PROVE  vals' \in [Keys -> Values]
<1>1. PICK set \in SetBy(h) :
        vals' = [k \in Keys |-> IF k \in set THEN Decode[h.text[k]] ELSE vals[k]]
  BY DEF ParseURL
<1>2. \A k \in set : k \in Keys /\ h.text[k] # Absent /\ Decode[h.text[k]] # NoValue
  BY DEF SetBy, SetIn, Legible, Named, Keys
<1>3. \A k \in set : Decode[h.text[k]] \in Values
  BY <1>2, TextsAssumption DEF Hashes
<1> QED
  BY <1>1, <1>3

LEMMA ParseMirrors ==
  ASSUME vals \in [Keys -> Values], NEW h \in Hashes, ParseURL(h), Complete(h)
  PROVE  \A k \in Keys : Decode[h.text[k]] = vals'[k]
<1>1. \A keys \in SUBSET Keys : Legible(h, keys) = keys /\ ~Fails(h, keys)
  BY DEF Complete, Legible, Named, Fails
<1>2. EncodedKeys \in SUBSET Keys /\ PlainKeys \in SUBSET Keys
  BY DEF Keys
<1>3. ~EncodedFails(h)
  BY <1>1, <1>2 DEF EncodedFails, Hashes, Complete, Keys
<1>4. SetIn(h, EncodedKeys) = {EncodedKeys} /\ SetIn(h, PlainKeys) = {PlainKeys}
  BY <1>1, <1>2 DEF SetIn
<1>5. SetBy(h) = {EncodedKeys \cup PlainKeys}
  BY <1>3, <1>4 DEF SetBy
<1> QED
  BY <1>5 DEF ParseURL, Keys

-----------------------------------------------------------------------------
(* Writing *)

LEMMA WrittenIsHash ==
  ASSUME NEW values \in [Keys -> Values]
  PROVE  /\ Written(values) \in Hashes
         /\ Written(values).text = values
         /\ \A k \in Keys : Decode[values[k]] = values[k]
BY TextsAssumption DEF Written, Hashes, Forms, Keys

\* The history up to the current entry, and one more.
LEMMA Extended ==
  ASSUME entries \in Seq(Entry), at \in DOMAIN entries, NEW e \in Entry,
         entries' = Append(SubSeq(entries, 1, at), e), at' = at + 1
  PROVE  /\ entries' \in Seq(Entry)
         /\ at' \in DOMAIN entries'
         /\ DOMAIN entries' = 1 .. at + 1
         /\ \A i \in 1 .. at : entries'[i] = entries[i]
         /\ entries'[at'] = e
<1> DEFINE kept == SubSeq(entries, 1, at)
<1>1. at \in Nat /\ 1 <= at /\ at <= Len(entries) /\ DOMAIN entries = 1 .. Len(entries)
  BY LenProperties
<1>2. kept \in Seq(Entry) /\ Len(kept) = at /\ \A i \in 1 .. at : kept[i] = entries[i]
  BY <1>1, SubSeqProperties
<1> HIDE DEF kept
<1>3. /\ Append(kept, e) \in Seq(Entry)
      /\ Len(Append(kept, e)) = at + 1
      /\ \A i \in 1 .. at : Append(kept, e)[i] = kept[i]
      /\ Append(kept, e)[at + 1] = e
  BY <1>1, <1>2, AppendProperties
<1>4. entries' = Append(kept, e)
  BY DEF kept
<1> QED
  BY <1>1, <1>2, <1>3, <1>4, LenProperties

\* What updateURL leaves in the history; it fails only on an unreadable field.
LEMMA UpdateKeeps ==
  ASSUME entries \in Seq(Entry), at \in DOMAIN entries, NoTwinEntries,
         NEW values \in [Keys -> Values], UpdateURL(values)
  PROVE  /\ entries' \in Seq(Entry) /\ at' \in DOMAIN entries'
         /\ NoTwinEntries'
         /\ UpdateThrows(Here) => Here' = Here
         /\ ~UpdateThrows(Here) => Here' = Written(values)
<1>0. Stateful \subseteq Keys
  BY KeysAssumption
<1>1. CASE UpdateThrows(Here) \/ Written(values) = Here
  <2>1. UNCHANGED <<entries, at>>
    BY <1>1 DEF UpdateURL
  <2> QED
    BY <1>1, <2>1 DEF NoTwinEntries, Here
<1>2. CASE /\ ~UpdateThrows(Here)
           /\ \A k \in Stateful : Here.text[k] = values[k]
           /\ entries' = [entries EXCEPT ![at].hash = Written(values)]
           /\ UNCHANGED at
  <2>1. entries \in [1 .. Len(entries) -> Entry] /\ Len(entries) \in Nat
    BY LenProperties, SeqDef
  <2>2. [entries[at] EXCEPT !.hash = Written(values)] \in Entry
    <3>1. entries[at] \in Entry
      BY <2>1
    <3>2. Written(values) \in Hashes
      BY WrittenIsHash
    <3> QED
      BY <3>1, <3>2 DEF Entry
  <2>3. /\ DOMAIN entries' = DOMAIN entries
        /\ \A i \in DOMAIN entries : i # at => entries'[i] = entries[i]
        /\ entries'[at] = [entries[at] EXCEPT !.hash = Written(values)]
    BY <1>2, <2>1
  <2>4. entries' \in [1 .. Len(entries) -> Entry]
    BY <1>2, <2>1, <2>2
  <2>5. entries' \in Seq(Entry)
    BY <2>1, <2>4, SeqDef
  <2>6. entries'[at].hash = Written(values) /\ entries'[at].pushed = entries[at].pushed
    BY <2>1, <2>3 DEF Entry
  <2>8. \A i \in DOMAIN entries : \A k \in Stateful :
          entries'[i].hash.text[k] = entries[i].hash.text[k]
    <3>1. \A k \in Stateful : entries'[at].hash.text[k] = entries[at].hash.text[k]
      BY <1>2, <2>6, WrittenIsHash DEF Here
    <3> QED
      BY <2>3, <3>1
  <2>9. \A i \in DOMAIN entries : entries'[i].pushed = entries[i].pushed
    BY <2>3, <2>6
  <2>10. NoTwinEntries'
    <3>1. \A i \in DOMAIN entries : i > 1 => i - 1 \in DOMAIN entries
      BY <2>1
    <3> QED
      BY <2>3, <2>8, <2>9, <3>1 DEF NoTwinEntries
  <2> QED
    BY <1>2, <2>3, <2>5, <2>6, <2>10 DEF Here
<1>3. CASE /\ ~UpdateThrows(Here)
           /\ \E k \in Stateful : Here.text[k] # values[k]
           /\ entries' = Append(SubSeq(entries, 1, at), [hash |-> Written(values), pushed |-> TRUE])
           /\ at' = at + 1
  <2> DEFINE e == [hash |-> Written(values), pushed |-> TRUE]
  <2>1. e \in Entry /\ e.hash = Written(values) /\ e.pushed = TRUE
    BY WrittenIsHash DEF Entry
  <2>2. entries' = Append(SubSeq(entries, 1, at), e)
    BY <1>3
  <2> HIDE DEF e
  <2>3. /\ entries' \in Seq(Entry) /\ at' \in DOMAIN entries'
        /\ DOMAIN entries' = 1 .. at + 1
        /\ \A i \in 1 .. at : entries'[i] = entries[i]
        /\ entries'[at'] = e
    BY <1>3, <2>1, <2>2, Extended
  <2>4. at \in Nat /\ 1 <= at /\ at <= Len(entries) /\ DOMAIN entries = 1 .. Len(entries)
        /\ Len(entries) \in Nat
    BY LenProperties
  <2>6. ASSUME NEW i \in DOMAIN entries', entries'[i].pushed
        PROVE  i > 1 /\ \E k \in Stateful : entries'[i].hash.text[k] # entries'[i - 1].hash.text[k]
    <3>1. CASE i \in 1 .. at
      <4>1. i \in DOMAIN entries /\ entries'[i] = entries[i]
        BY <2>3, <2>4, <3>1
      <4>2. i > 1 /\ \E k \in Stateful : entries[i].hash.text[k] # entries[i - 1].hash.text[k]
        BY <2>6, <4>1 DEF NoTwinEntries
      <4>3. entries'[i - 1] = entries[i - 1]
        BY <2>3, <2>4, <3>1, <4>2
      <4> QED
        BY <4>1, <4>2, <4>3
    <3>2. CASE i = at + 1
      <4>1. entries'[i].hash.text = values
        BY <1>3, <2>1, <2>3, <3>2, WrittenIsHash
      <4>2. entries'[i - 1] = entries[at]
        BY <2>3, <2>4, <3>2
      <4> QED
        BY <1>3, <2>4, <3>2, <4>1, <4>2 DEF Here
    <3> QED
      BY <2>3, <2>4, <3>1, <3>2
  <2> QED
    BY <1>3, <2>1, <2>3, <2>6 DEF NoTwinEntries, Here
<1> QED
  BY <1>1, <1>2, <1>3 DEF UpdateURL
-----------------------------------------------------------------------------
(* The invariant *)

LEMMA InitIInv == Init => IInv
<1> SUFFICES ASSUME Init PROVE IInv
  OBVIOUS
<1>1. PICK h \in Links : entries = <<[hash |-> h, pushed |-> FALSE]>>
  BY DEF Init
<1>2. [hash |-> h, pushed |-> FALSE] \in Entry
  BY LinksAssumption DEF Entry
<1>3. /\ entries \in Seq(Entry) /\ DOMAIN entries = {1}
      /\ entries[1] = [hash |-> h, pushed |-> FALSE]
  BY <1>1, <1>2
<1>4. TypeOK
  <2>1. inputs \in 0 .. MaxInputs /\ callbacks \in {0, 1} /\ at \in DOMAIN entries
        /\ hashchanges \in Nat
    BY <1>3, MaxInputsAssumption DEF Init
  <2> QED
    BY <1>3, <2>1, Zenon DEF Init, TypeOK, Entry
<1>6. NoTwinEntries
  BY <1>3 DEF NoTwinEntries
<1> QED
  BY <1>4, <1>6 DEF Init, IInv, OneCallback, PendingIsOwn, UrlMirrorsValues

LEMMA InputKeeps ==
  ASSUME TypeOK, Input
  PROVE  inputs' \in 0 .. MaxInputs
BY MaxInputsAssumption DEF TypeOK, Input

LEMMA HereIsHash ==
  ASSUME TypeOK
  PROVE  Here \in Hashes
<1>1. entries[at] \in [hash : Hashes, pushed : BOOLEAN]
  BY ElementOfSeq, LenProperties DEF TypeOK
<1> QED
  BY <1>1 DEF Here

\* An unreadable field leaves a hash incomplete, and so it stays after a write
\* that throws; any other write makes the hash say what the values are.
LEMMA UpdateMirrors ==
  ASSUME TypeOK, NoTwinEntries, UpdateURL(vals), UNCHANGED vals
  PROVE  Complete(Here)' => Mirrors(Here)'
<1>0. vals \in [Keys -> Values]
  BY DEF TypeOK
<1>1. /\ UpdateThrows(Here) => Here' = Here
      /\ ~UpdateThrows(Here) => Here' = Written(vals)
  BY <1>0, UpdateKeeps DEF TypeOK, Entry
<1>2. CASE UpdateThrows(Here)
  <2>1. ~Complete(Here)
    <3>1. Here \in Hashes
      BY HereIsHash
    <3>2. CASE Here.form = "garbled"
      BY <3>1, <3>2, KeysAssumption DEF Hashes, Complete
    <3>3. CASE EncodedKeys # {} /\ Here.form = "bad"
      BY <3>1, <3>3 DEF Hashes, Complete, Keys
    <3> QED
      BY <1>2, <3>2, <3>3 DEF UpdateThrows
  <2> QED
    BY <1>1, <1>2, <2>1 DEF Complete
<1>3. CASE ~UpdateThrows(Here)
  BY <1>0, <1>1, <1>3, WrittenIsHash DEF Mirrors
<1> QED
  BY <1>2, <1>3

\* Whatever the page navigates to is mirrored at once, if UrlHash listens.
LEMMA NavigationKeeps ==
  ASSUME TypeOK, UrlMirrorsValues, NEW h \in Hashes, HandleNavigation(h),
         Here' = h, UNCHANGED listening
  PROVE  /\ vals' \in [Keys -> Values] /\ UNCHANGED <<pending, callbacks>>
         /\ UrlMirrorsValues'
<1>1. vals \in [Keys -> Values] /\ UNCHANGED <<pending, callbacks>>
  BY DEF TypeOK, HandleNavigation
<1>2. CASE listening /\ ParseURL(h)
  <2>1. vals' \in [Keys -> Values]
    BY <1>1, <1>2, ParseTypes
  <2>2. Complete(h) => \A k \in Keys : Decode[h.text[k]] = vals'[k]
    BY <1>1, <1>2, ParseMirrors
  <2> QED
    BY <1>1, <2>1, <2>2 DEF UrlMirrorsValues, Complete, Mirrors
<1>3. CASE ~listening /\ UNCHANGED vals
  BY <1>1, <1>3 DEF UrlMirrorsValues
<1> QED
  BY <1>2, <1>3 DEF HandleNavigation

LEMMA NextIInv == IInv /\ [Next]_vars => IInv'
<1> SUFFICES ASSUME IInv, [Next]_vars PROVE IInv'
  OBVIOUS
<1>0. /\ TypeOK /\ OneCallback /\ PendingIsOwn
      /\ UrlMirrorsValues /\ NoTwinEntries
      /\ vals \in [Keys -> Values] /\ entries \in Seq(Entry) /\ at \in DOMAIN entries
  BY DEF IInv, TypeOK, Entry
<1>1. CASE Start
  <2>1. Here \in Hashes
    BY <1>0, HereIsHash
  <2>2. vals' \in [Keys -> Values]
    BY <1>0, <1>1, <2>1, ParseTypes DEF Start
  <2>3. CASE ParseThrows(Here)
    <3>1. UNCHANGED <<listening, pending, callbacks, entries, at, hashchanges, tolerant>>
      BY <1>1, <2>3 DEF Start
    <3>2. listening => UrlMirrorsValues'
      <4> SUFFICES ASSUME listening, ~pending, Complete(Here) PROVE Mirrors(Here)'
        BY <3>1 DEF UrlMirrorsValues, Complete, Here
      <4>1. \A k \in Keys : Decode[Here.text[k]] = vals'[k]
        BY <1>0, <1>1, <2>1, ParseMirrors DEF Start
      <4> QED
        BY <3>1, <4>1 DEF Mirrors, Here
    <3>3. ~listening => UrlMirrorsValues'
      BY <3>1 DEF UrlMirrorsValues
    <3>4. TypeOK'
      BY <1>0, <1>1, <2>2, <3>1, InputKeeps DEF TypeOK, Start
    <3>5. NoTwinEntries'
      BY <1>0, <3>1 DEF NoTwinEntries
    <3> QED
      BY <1>0, <1>1, <3>1, <3>2, <3>3, <3>4, <3>5
      DEF IInv, OneCallback, PendingIsOwn, Start
  <2>4. CASE ~ParseThrows(Here)
    <3>1. UpdateURL(vals') /\ ScheduleUpdate /\ listening' = TRUE /\ touched' = TRUE
          /\ UNCHANGED <<tolerant, hashchanges>>
      BY <1>1, <2>4 DEF Start
    <3>2. /\ entries' \in Seq(Entry) /\ at' \in DOMAIN entries'
          /\ NoTwinEntries'
      BY <1>0, <2>2, <3>1, UpdateKeeps
    <3>3. pending' = TRUE /\ callbacks' = 1
      BY <1>0, <3>1 DEF ScheduleUpdate, OneCallback
    <3>4. TypeOK'
      BY <1>0, <1>1, <2>2, <3>1, <3>2, <3>3, InputKeeps DEF TypeOK, Start, Entry
    <3> QED
      BY <3>1, <3>2, <3>3, <3>4 DEF IInv, OneCallback, PendingIsOwn, UrlMirrorsValues
  <2> QED
    BY <2>3, <2>4
<1>2. CASE Stop
  BY <1>0, <1>2, InputKeeps, Zenon DEF Stop, IInv, TypeOK, OneCallback, PendingIsOwn,
    UrlMirrorsValues, NoTwinEntries, browserVars
<1>3. ASSUME NEW k \in Keys, NEW v \in Values, Change(k, v)
      PROVE  IInv'
  <2>1. UNCHANGED <<tolerant, started, listening, entries, at, hashchanges>> /\ touched' = TRUE
    BY <1>3 DEF Change, browserVars
  <2>2. vals' \in [Keys -> Values]
    BY <1>0, <1>3 DEF Change
  <2>3. /\ OneCallback' /\ pending' \in BOOLEAN
        /\ listening => pending' = TRUE
    <3>1. CASE listening /\ ScheduleUpdate
      BY <1>0, <3>1 DEF ScheduleUpdate, OneCallback
    <3>2. CASE ~listening /\ UNCHANGED <<pending, callbacks>>
      <4>1. pending \in BOOLEAN
        BY <1>0 DEF TypeOK
      <4> QED
        BY <1>0, <3>2, <4>1 DEF OneCallback
    <3> QED
      BY <1>3, <3>1, <3>2 DEF Change
  <2>4. TypeOK'
    BY <1>0, <1>3, <2>1, <2>2, <2>3, InputKeeps DEF TypeOK, Change, OneCallback
  <2> QED
    BY <1>0, <2>1, <2>3, <2>4
    DEF IInv, NoTwinEntries, PendingIsOwn, UrlMirrorsValues
<1>4. ASSUME NEW h \in Links, Visit(h)
      PROVE  IInv'
  <2> DEFINE e == [hash |-> h, pushed |-> FALSE]
  <2>1. e \in Entry /\ e.hash = h /\ e.pushed = FALSE /\ h \in Hashes
    BY LinksAssumption DEF Entry
  <2>2. /\ entries' = Append(SubSeq(entries, 1, at), e) /\ at' = at + 1
        /\ UNCHANGED <<tolerant, started, listening, touched>>
        /\ HandleNavigation(h)
    BY <1>4 DEF Visit
  <2> HIDE DEF e
  <2>3. /\ entries' \in Seq(Entry) /\ at' \in DOMAIN entries'
        /\ DOMAIN entries' = 1 .. at + 1
        /\ \A i \in 1 .. at : entries'[i] = entries[i]
        /\ entries'[at'] = e
    BY <1>0, <2>1, <2>2, Extended
  <2>4. at \in Nat /\ 1 <= at /\ at <= Len(entries) /\ DOMAIN entries = 1 .. Len(entries)
        /\ Len(entries) \in Nat
    BY <1>0, LenProperties
  <2>5. \A i \in DOMAIN entries' : i = at + 1 \/ (i \in DOMAIN entries /\ i \in 1 .. at)
    BY <2>3, <2>4
  <2>7. NoTwinEntries'
    <3>1. ASSUME NEW i \in DOMAIN entries', entries'[i].pushed
          PROVE  i > 1 /\ \E k \in Stateful : entries'[i].hash.text[k] # entries'[i - 1].hash.text[k]
      <4>1. i \in DOMAIN entries /\ i \in 1 .. at /\ entries'[i] = entries[i]
        BY <2>1, <2>2, <2>3, <2>5, <3>1
      <4>2. i > 1 /\ \E k \in Stateful : entries[i].hash.text[k] # entries[i - 1].hash.text[k]
        BY <1>0, <3>1, <4>1 DEF NoTwinEntries
      <4>3. entries'[i - 1] = entries[i - 1]
        BY <2>3, <2>4, <4>1, <4>2
      <4> QED
        BY <4>1, <4>2, <4>3
    <3> QED
      BY <3>1 DEF NoTwinEntries
  <2>8. Here' = h
    BY <2>1, <2>3 DEF Here
  <2>9. /\ vals' \in [Keys -> Values] /\ UNCHANGED <<pending, callbacks>>
        /\ UrlMirrorsValues'
    BY <1>0, <2>1, <2>2, <2>8, NavigationKeeps
  <2>10. TypeOK'
    BY <1>0, <1>4, <2>2, <2>3, <2>9, InputKeeps DEF TypeOK, Visit, Entry
  <2> QED
    BY <1>0, <2>2, <2>7, <2>9, <2>10 DEF IInv, OneCallback, PendingIsOwn
<1>5. ASSUME NEW i \in DOMAIN entries, Traverse(i)
      PROVE  IInv'
  <2>1. /\ entries' = entries /\ at' = i
        /\ UNCHANGED <<tolerant, started, listening, touched>>
        /\ HandleNavigation(entries[i].hash)
    BY <1>5 DEF Traverse
  <2>2. entries[i].hash \in Hashes
    <3>1. entries[i] \in Entry
      BY <1>0, ElementOfSeq, LenProperties
    <3> QED
      BY <1>0, <3>1 DEF Entry
  <2>3. Here' = entries[i].hash
    BY <2>1 DEF Here
  <2>4. /\ vals' \in [Keys -> Values] /\ UNCHANGED <<pending, callbacks>>
        /\ UrlMirrorsValues'
    BY <1>0, <2>1, <2>2, <2>3, NavigationKeeps
  <2>5. TypeOK'
    BY <1>0, <1>5, <2>1, <2>4, InputKeeps DEF TypeOK, Traverse
  <2> QED
    BY <1>0, <2>1, <2>4, <2>5 DEF IInv, NoTwinEntries, OneCallback, PendingIsOwn
<1>6. CASE HashChange
  <2>1. /\ UNCHANGED <<tolerant, started, listening, entries, at, inputs, touched>>
        /\ HandleNavigation(Here)
    BY <1>6 DEF HashChange
  <2>2. Here \in Hashes /\ Here' = Here
    BY <1>0, <2>1, HereIsHash DEF Here
  <2>3. /\ vals' \in [Keys -> Values] /\ UNCHANGED <<pending, callbacks>>
        /\ UrlMirrorsValues'
    BY <1>0, <2>1, <2>2, NavigationKeeps
  <2>4. TypeOK'
    BY <1>0, <1>6, <2>1, <2>3 DEF TypeOK, HashChange
  <2> QED
    BY <1>0, <2>1, <2>3, <2>4 DEF IInv, NoTwinEntries, OneCallback, PendingIsOwn
<1>7. CASE RunCallback
  <2>1. /\ UpdateURL(vals) /\ pending' = FALSE /\ touched' = FALSE
        /\ callbacks > 0 /\ callbacks' = callbacks - 1
        /\ UNCHANGED <<vals, tolerant, started, listening, hashchanges, inputs>>
    BY <1>7 DEF RunCallback
  <2>2. /\ entries' \in Seq(Entry) /\ at' \in DOMAIN entries'
        /\ NoTwinEntries'
    BY <1>0, <2>1, UpdateKeeps
  <2>3. UrlMirrorsValues'
    BY <1>0, <2>1, UpdateMirrors DEF UrlMirrorsValues
  <2>4. callbacks' = 0
    BY <1>0, <2>1 DEF OneCallback
  <2>5. TypeOK'
    BY <1>0, <2>1, <2>2, <2>4 DEF TypeOK, Entry
  <2> QED
    BY <2>1, <2>2, <2>3, <2>4, <2>5 DEF IInv, OneCallback, PendingIsOwn
<1>8. CASE UNCHANGED vars
  BY <1>0, <1>8 DEF vars, browserVars, IInv, TypeOK, OneCallback, PendingIsOwn,
    UrlMirrorsValues, NoTwinEntries, Here, Complete, Mirrors
<1> QED
  BY <1>1, <1>2, <1>3, <1>4, <1>5, <1>6, <1>7, <1>8 DEF Next

\* UrlHash keeps the inductive invariant.
THEOREM Invariance == Spec => []IInv
<1> QED
  BY InitIInv, NextIInv, PTL DEF Spec

\* The state stays within its types, and one callback is scheduled at most.
THEOREM TypeCorrect == Spec => []TypeOK
<1>1. IInv => TypeOK
  BY DEF IInv
<1> QED
  BY <1>1, Invariance, PTL

\* A complete hash says what the Values are whenever UrlHash listens and owes
\* no write.
THEOREM HashMirrors == Spec => []UrlMirrorsValues
<1>1. IInv => UrlMirrorsValues
  BY DEF IInv
<1> QED
  BY <1>1, Invariance, PTL

\* No pushed entry repeats the stateful keys of its predecessor.
THEOREM NoTwins == Spec => []NoTwinEntries
<1>1. IInv => NoTwinEntries
  BY DEF IInv
<1> QED
  BY <1>1, Invariance, PTL

\* Navigation alone never makes UrlHash write the history.
THEOREM LookingAround == Spec => LookingAroundWritesNothing
<1>1. IInv /\ [Next]_vars => [inputs' = inputs /\ entries' # entries => touched]_vars
  <2> SUFFICES ASSUME IInv, Next, inputs' = inputs, entries' # entries PROVE touched
    OBVIOUS
  <2>1. inputs \in Nat /\ OneCallback /\ PendingIsOwn
    BY DEF IInv, TypeOK
  <2>2. ~Input
    BY <2>1 DEF Input
  <2>3. RunCallback
    BY <2>2 DEF Next, Start, Stop, Change, Visit, Traverse, HashChange
  <2> QED
    BY <2>1, <2>3 DEF RunCallback, OneCallback, PendingIsOwn
<1> QED
  BY <1>1, Invariance, PTL DEF Spec, LookingAroundWritesNothing
=============================================================================
