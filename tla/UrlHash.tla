------------------------------- MODULE UrlHash -------------------------------
(***************************************************************************)
(* UrlHash (url_hash.ts) keeps two ValueMaps and the hash of the page's    *)
(* URL alike: a navigation is parsed into the Values, and a change of a    *)
(* Value is written back by a callback that runs a little later.  A write  *)
(* pushes an entry of the browser's history if a stateful key differs, and *)
(* otherwise replaces the current one.                                     *)
(*                                                                         *)
(* A hash is what its text says about each key.  The encoded keys share    *)
(* one compressed field, which may be missing or unreadable as a whole;    *)
(* and the whole hash is garbled if it holds a malformed escape sequence.  *)
(* What a text stands for is Decode; each value is its own canonical text. *)
(*                                                                         *)
(* JavaScript runs one handler at a time, so an action is a whole handler. *)
(* The browser runs `popstate' with the navigation itself, and             *)
(* `hashchange' in a task of its own, when the hash may have changed again.*)
(*                                                                         *)
(* An operator whose name begins with `Bad' is a plausible mistake in the  *)
(* definition that follows it; the properties below tell the two apart.    *)
(***************************************************************************)
EXTENDS Naturals, Sequences

CONSTANTS
  EncodedKeys, PlainKeys,   \* the keys of the two ValueMaps
  Stateful,                 \* the keys whose change makes a history entry
  Values, Texts,
  Decode,                   \* the value a text stands for, or NoValue
  NoValue,
  Absent,                   \* "the hash has no text for the key"
  Links,                    \* the hashes with which a page may be visited
  MaxInputs                 \* bound: how often something happens to the page

Keys == EncodedKeys \cup PlainKeys
Forms == {"none", "bad", "ok",   \* of the compressed field
          "garbled"}             \* of the hash as a whole
Hashes ==
  {h \in [form : Forms,
          text : [Keys -> Texts \cup {Absent}],
          tidy : BOOLEAN] :      \* nothing but the canonical form
    /\ h.form # "ok" => \A k \in EncodedKeys : h.text[k] = Absent
    /\ h.form = "garbled" => \A k \in Keys : h.text[k] = Absent}

\* The constructor refuses maps that share a key (validateKeyOverlap).
ASSUME KeysAssumption ==
  EncodedKeys \cap PlainKeys = {} /\ Keys # {} /\ Stateful \subseteq Keys
ASSUME TextsAssumption ==
  /\ Values \subseteq Texts /\ Absent \notin Texts /\ NoValue \notin Values
  /\ Decode \in [Texts -> Values \cup {NoValue}]
  /\ \A v \in Values : Decode[v] = v
ASSUME LinksAssumption == Links \subseteq Hashes
ASSUME MaxInputsAssumption == MaxInputs \in Nat

VARIABLES
  vals,         \* the Values
  tolerant,     \* onError is given; otherwise errors are thrown
  started,
  listening,    \* to Values and navigation
  pending,      \* updatePending
  callbacks,    \* how many scheduled callbacks have not run
  entries, at,  \* the browser's history; `pushed' if a write pushed the entry
  hashchanges,  \* `hashchange' events that were not delivered yet
  inputs,       \* how often something happened to the page
  touched       \* the page started, or changed a Value, since the last callback

browserVars == <<entries, at, hashchanges>>
vars == <<vals, tolerant, started, listening, pending, callbacks, browserVars, inputs, touched>>

Here == entries[at].hash

Init ==
  /\ vals \in [Keys -> Values]
  /\ tolerant \in BOOLEAN
  /\ started = FALSE /\ listening = FALSE
  /\ pending = FALSE /\ callbacks = 0
  /\ \E h \in Links : entries = <<[hash |-> h, pushed |-> FALSE]>>
  /\ at = 1
  /\ hashchanges = 0
  /\ inputs = 0
  /\ touched = FALSE

-----------------------------------------------------------------------------
(* parseURL: from the hash to the Values *)

Named(h, keys) == {k \in keys : h.text[k] # Absent}
Legible(h, keys) == {k \in Named(h, keys) : Decode[h.text[k]] # NoValue}
Fails(h, keys) == Legible(h, keys) # Named(h, keys)
EncodedFails(h) == (EncodedKeys # {} /\ h.form = "bad") \/ Fails(h, EncodedKeys)

\* A hash that is garbled as a whole is no matter for onError.
ParseThrows(h) ==
  h.form = "garbled" \/ (~tolerant /\ (EncodedFails(h) \/ Fails(h, PlainKeys)))

(***************************************************************************)
(* The keys of one map that are set: those before the first that fails.    *)
(* The others keep their value.                                            *)
(***************************************************************************)
SetIn(h, keys) ==
  IF Fails(h, keys) THEN SUBSET Legible(h, keys) ELSE {Legible(h, keys)}

\* The encoded map goes first; if it throws the other is not reached.
SetBy(h) ==
  {e \cup p : e \in SetIn(h, EncodedKeys),
              p \in IF ~tolerant /\ EncodedFails(h) THEN {{}} ELSE SetIn(h, PlainKeys)}

BadParseEncodedOnly(h) ==
  \E e \in SetIn(h, EncodedKeys) :
    vals' = [k \in Keys |-> IF k \in e THEN Decode[h.text[k]] ELSE vals[k]]

\* The Values emit meanwhile, but applyingHash makes scheduleUpdate deaf.
ParseURL(h) ==
  \E set \in SetBy(h) :
    vals' = [k \in Keys |-> IF k \in set THEN Decode[h.text[k]] ELSE vals[k]]

-----------------------------------------------------------------------------
(* updateURL: from the Values to the hash *)

Written(values) ==
  [form |-> IF EncodedKeys = {} THEN "none" ELSE "ok", text |-> values, tidy |-> TRUE]

UpdateThrows(h) ==
  h.form = "garbled" \/ (~tolerant /\ EncodedKeys # {} /\ h.form = "bad")

BadUpdateAlwaysPushes(values) ==
  IF UpdateThrows(Here) \/ Written(values) = Here
  THEN UNCHANGED <<entries, at>>
  ELSE /\ entries' = Append(SubSeq(entries, 1, at), [hash |-> Written(values), pushed |-> TRUE])
       /\ at' = at + 1

UpdateURL(values) ==
  \/ /\ UpdateThrows(Here) \/ Written(values) = Here
     /\ UNCHANGED <<entries, at>>
  \/ /\ ~UpdateThrows(Here) /\ Written(values) # Here
     /\ \A k \in Stateful : Here.text[k] = values[k]
     /\ entries' = [entries EXCEPT ![at].hash = Written(values)]
     /\ UNCHANGED at
  \/ /\ ~UpdateThrows(Here) /\ Written(values) # Here
     /\ \E k \in Stateful : Here.text[k] # values[k]
     /\ entries' = Append(SubSeq(entries, 1, at), [hash |-> Written(values), pushed |-> TRUE])
     /\ at' = at + 1

BadScheduleAlways ==
  /\ pending' = TRUE
  /\ callbacks' = callbacks + 1

ScheduleUpdate ==
  /\ pending' = TRUE
  /\ callbacks' = IF pending THEN callbacks ELSE callbacks + 1

BadFlagClearedLast ==
  /\ callbacks > 0
  /\ callbacks' = callbacks - 1
  /\ pending' = (pending /\ UpdateThrows(Here))
  /\ UpdateURL(vals)
  /\ touched' = FALSE
  /\ UNCHANGED <<vals, tolerant, started, listening, hashchanges, inputs>>

\* The scheduled callback; stop() does not call it off.
RunCallback ==
  /\ callbacks > 0
  /\ callbacks' = callbacks - 1
  /\ pending' = FALSE
  /\ UpdateURL(vals)
  /\ touched' = FALSE
  /\ UNCHANGED <<vals, tolerant, started, listening, hashchanges, inputs>>

-----------------------------------------------------------------------------
(* What happens to the page *)

Input == inputs < MaxInputs /\ inputs' = inputs + 1

(***************************************************************************)
(* Values replay what they hold to a new subscriber, so start() schedules  *)
(* an update before it makes one itself.  If parseURL throws, start() ends *)
(* there.                                                                  *)
(***************************************************************************)
Start ==
  /\ Input
  /\ ~started
  /\ started' = TRUE
  /\ ParseURL(Here)
  /\ touched' = TRUE
  /\ \/ /\ ParseThrows(Here)
        /\ UNCHANGED <<listening, pending, callbacks, entries, at>>
     \/ /\ ~ParseThrows(Here)
        /\ listening' = TRUE
        /\ ScheduleUpdate
        /\ UpdateURL(vals')
  /\ UNCHANGED <<tolerant, hashchanges>>

Stop ==
  /\ Input
  /\ started
  /\ started' = FALSE /\ listening' = FALSE
  /\ UNCHANGED <<vals, tolerant, pending, callbacks, browserVars, touched>>

\* The application gives a Value another value.
Change(k, v) ==
  /\ Input
  /\ vals[k] # v
  /\ vals' = [vals EXCEPT ![k] = v]
  /\ touched' = TRUE
  /\ \/ listening /\ ScheduleUpdate
     \/ ~listening /\ UNCHANGED <<pending, callbacks>>
  /\ UNCHANGED <<tolerant, started, listening, browserVars>>

BadHandlerSchedules(h) ==
  \/ listening /\ ParseURL(h) /\ ScheduleUpdate
  \/ ~listening /\ UNCHANGED <<vals, pending, callbacks>>

\* handleNavigation, called for both events.
HandleNavigation(h) ==
  /\ \/ listening /\ ParseURL(h)
     \/ ~listening /\ UNCHANGED vals
  /\ UNCHANGED <<pending, callbacks>>

\* The user follows a link to another hash, or types it ...
Visit(h) ==
  /\ Input
  /\ h # Here
  /\ entries' = Append(SubSeq(entries, 1, at), [hash |-> h, pushed |-> FALSE])
  /\ at' = at + 1
  /\ hashchanges' = hashchanges + 1
  /\ HandleNavigation(h)
  /\ UNCHANGED <<tolerant, started, listening, touched>>

\* ... or goes back or forward.
Traverse(i) ==
  /\ Input
  /\ i \in DOMAIN entries \ {at}
  /\ at' = i
  /\ hashchanges' = IF entries[i].hash = Here THEN hashchanges ELSE hashchanges + 1
  /\ HandleNavigation(entries[i].hash)
  /\ UNCHANGED <<tolerant, started, listening, entries, touched>>

HashChange ==
  /\ hashchanges > 0
  /\ hashchanges' = hashchanges - 1
  /\ HandleNavigation(Here)
  /\ UNCHANGED <<tolerant, started, listening, entries, at, inputs, touched>>

Next ==
  \/ Start \/ Stop
  \/ \E k \in Keys, v \in Values : Change(k, v)
  \/ \E h \in Links : Visit(h)
  \/ \E i \in DOMAIN entries : Traverse(i)
  \/ HashChange
  \/ RunCallback

\* The event loop runs every callback it was given, and delivers events.
Fairness == WF_vars(RunCallback) /\ WF_vars(HashChange)

Spec == Init /\ [][Next]_vars
FairSpec == Spec /\ Fairness

-----------------------------------------------------------------------------
(* Properties *)

\* The values the state may take.  No more than one callback is scheduled.
TypeOK ==
  /\ vals \in [Keys -> Values]
  /\ tolerant \in BOOLEAN /\ started \in BOOLEAN /\ listening \in BOOLEAN
  /\ pending \in BOOLEAN /\ touched \in BOOLEAN
  /\ callbacks \in {0, 1}
  /\ entries \in Seq([hash : Hashes, pushed : BOOLEAN])
  /\ at \in DOMAIN entries
  /\ hashchanges \in Nat
  /\ inputs \in 0 .. MaxInputs

(***************************************************************************)
(* While UrlHash listens and owes no write, a complete hash says what the  *)
(* Values are, whichever of the two moved last.                            *)
(***************************************************************************)
Complete(h) == \A k \in Keys : h.text[k] # Absent /\ Decode[h.text[k]] # NoValue
Mirrors(h) == \A k \in Keys : Decode[h.text[k]] = vals[k]
UrlMirrorsValues == listening /\ ~pending /\ Complete(Here) => Mirrors(Here)

(***************************************************************************)
(* An entry that a write pushed differs from the one before it in a        *)
(* stateful key, whatever was replaced, dropped or visited since: Back     *)
(* never leads to the same view.                                           *)
(***************************************************************************)
NoTwinEntries ==
  \A i \in DOMAIN entries : entries[i].pushed =>
    i > 1 /\ \E k \in Stateful : entries[i].hash.text[k] # entries[i - 1].hash.text[k]

(***************************************************************************)
(* Looking around writes nothing: if the page only navigated since the     *)
(* last callback, UrlHash leaves the history alone, also when the hash is  *)
(* incomplete or untidy.                                                   *)
(***************************************************************************)
LookingAroundWritesNothing ==
  [][inputs' = inputs /\ entries' # entries => touched]_vars

(***************************************************************************)
(* A change of a Value reaches the hash, or a navigation overrules it,     *)
(* also after earlier writes failed.                                       *)
(***************************************************************************)
ChangeSettles ==
  (listening /\ Complete(Here) /\ ~Mirrors(Here))
    ~> (~listening \/ ~Complete(Here) \/ Mirrors(Here))
=============================================================================
