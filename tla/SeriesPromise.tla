---------------------------- MODULE SeriesPromise ----------------------------
(***************************************************************************)
(* What the data-fetching core promises the components that ask it for     *)
(* data, without pending maps, timers, requests or handlers.  Each ask of  *)
(* a series waits until it is sent or a newer ask of the same series (or   *)
(* the disposal of the series) replaces it; all that wait are sent at      *)
(* once; what was sent is answered, fails, or is left without an answer,   *)
(* once and for good.                                                      *)
(***************************************************************************)
EXTENDS Integers

CONSTANTS Series, MaxAsks

VARIABLES
  status,   \* of each ask
  newest,   \* the newest ask of each series, or 0
  gone      \* the series that are disposed

Asks == 1 .. MaxAsks

Init ==
  /\ status = [k \in Asks |-> "unasked"]
  /\ newest = [s \in Series |-> 0]
  /\ gone = {}

Turn(from, to) == [k \in Asks |-> IF status[k] = from THEN to ELSE status[k]]

\* The next ask replaces the one of s that waits, and may be sent at once,
\* with all others that wait.
Ask(s, k) ==
  /\ s \notin gone
  /\ \A j \in Asks : status[j] = "unasked" <=> j >= k
  /\ newest' = [newest EXCEPT ![s] = k]
  /\ UNCHANGED gone
  /\ LET replaced(j) == j = newest[s] /\ status[j] = "waiting"
     IN  \E now \in {"waiting", "sent"} :
           status' = [j \in Asks |-> IF j = k THEN now
                                     ELSE IF replaced(j) THEN "dropped"
                                     ELSE IF now = "sent" THEN Turn("waiting", "sent")[j]
                                     ELSE status[j]]

Send ==
  /\ UNCHANGED <<newest, gone>>
  /\ status' = Turn("waiting", "sent")

Hear(k) ==
  /\ UNCHANGED <<newest, gone>>
  /\ status[k] = "sent"
  /\ status' = [status EXCEPT ![k] = "answered"]

\* Some of what was sent ends without an answer.
GiveUp(how) ==
  /\ UNCHANGED <<newest, gone>>
  /\ \E some \in SUBSET {k \in Asks : status[k] = "sent"} :
       status' = [k \in Asks |-> IF k \in some THEN how ELSE status[k]]

Leave(s) ==
  /\ s \notin gone
  /\ gone' = gone \cup {s}
  /\ UNCHANGED newest
  /\ status' = [k \in Asks |-> IF k = newest[s] /\ status[k] = "waiting"
                               THEN "dropped" ELSE status[k]]

Next ==
  \/ Send
  \/ \E k \in Asks : Hear(k)
  \/ GiveUp("failed") \/ GiveUp("dropped")
  \/ \E s \in Series : Leave(s) \/ \E k \in Asks : Ask(s, k)

Spec == Init /\ [][Next]_<<status, newest, gone>>
=============================================================================
