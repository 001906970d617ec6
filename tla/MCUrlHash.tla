------------------------------ MODULE MCUrlHash ------------------------------
(* Constants for checking UrlHash: two encoded keys, one of them stateful,   *)
(* and a plain key; two values, a text that is not canonical, and one that   *)
(* cannot be decoded.                                                        *)
EXTENDS UrlHash, TLC

CONSTANTS e1, e2, p, v0, v1, odd, junk

MCEncodedKeys == {e1, e2}
MCPlainKeys == {p}
MCStateful == {e1}
MCValues == {v0, v1}
MCTexts == {v0, v1, odd, junk}
MCDecode == (v0 :> v0) @@ (v1 :> v1) @@ (odd :> v1) @@ (junk :> NoValue)

Link(form, t1, t2, tp, tidy) ==
  [form |-> form, text |-> (e1 :> t1) @@ (e2 :> t2) @@ (p :> tp), tidy |-> tidy]

MCLinks ==
  { Link("none", Absent, Absent, Absent, TRUE),   \* a fresh page
    Link("garbled", Absent, Absent, Absent, FALSE),
    Link("bad", Absent, Absent, v1, TRUE),        \* the field is unreadable
    Link("ok", v1, junk, v1, TRUE),               \* one value is unreadable
    Link("ok", odd, v0, v0, FALSE),               \* complete, not canonical
    Link("ok", v0, v1, Absent, TRUE) }            \* a key is missing
=============================================================================
