----------------------------- MODULE MCDataQuery -----------------------------
(* Constants for checking DataQuery: two series, so that one request carries *)
(* several queries and a handler is re-entered by the other series.          *)
EXTENDS DataQuery, TLC

CONSTANTS s1, s2

MCSeries == {s1, s2}
=============================================================================
