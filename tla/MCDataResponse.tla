--------------------------- MODULE MCDataResponse ---------------------------
(* Constants for checking DataResponse: two goroutines that look up the same *)
(* strings, in the same and in opposite order.                               *)
EXTENDS DataResponse, TLC

CONSTANTS r1, r2, r3, w1, w2, a, b

MCRequests == {r1, r2, r3}
MCSources == {w1, w2}
MCStrings == {a, b}
MCUpdates == {<<a, b>>, <<b, a>>}
=============================================================================
