----------------------------- MODULE InternTable -----------------------------
(***************************************************************************)
(* What a string table promises those who build a response with it: each   *)
(* string is turned into its index in one indivisible step, no string has  *)
(* two indices, and an index once given keeps its meaning.  There are no   *)
(* locks, no maps and no second look.                                      *)
(***************************************************************************)
EXTENDS Naturals, Sequences

CONSTANTS
  Users,
  Wants   \* the sequences of strings a user may set out with

VARIABLES
  table,  \* the strings, in the order of their indices
  want,   \* the strings a user has yet to turn into indices
  got     \* the string/index pairs a user has got

Init ==
  /\ table = <<>>
  /\ want = [u \in Users |-> <<>>]
  /\ got = [u \in Users |-> {}]

\* A user sets out to turn some strings into indices, or drops what it got.
Begin(u, strings) ==
  /\ want[u] = <<>>
  /\ want' = [want EXCEPT ![u] = strings]
  /\ UNCHANGED <<table, got>>

Forget(u) ==
  /\ want[u] = <<>>
  /\ got' = [got EXCEPT ![u] = {}]
  /\ UNCHANGED <<table, want>>

\* Position i of the table has index i - 1.
Intern(u) ==
  /\ want[u] # <<>>
  /\ \/ table' = table
     \/ /\ \A i \in DOMAIN table : table[i] # Head(want[u])
        /\ table' = Append(table, Head(want[u]))
  /\ \E i \in DOMAIN table' :
       /\ table'[i] = Head(want[u])
       /\ got' = [got EXCEPT ![u] = got[u] \cup {[string |-> Head(want[u]), index |-> i - 1]}]
  /\ want' = [want EXCEPT ![u] = Tail(want[u])]

Next == \E u \in Users :
  Intern(u) \/ Forget(u) \/ \E strings \in Wants : Begin(u, strings)

Spec == Init /\ [][Next]_<<table, want, got>>
=============================================================================
