---------------------------- MODULE MCTransport -----------------------------
(* Two reads and a write over two connections: one in flight, one asleep or *)
(* throttled, one waiting.  A Retry-After near the backoff and one beyond   *)
(* every cap.                                                               *)
EXTENDS Transport, TLC

CONSTANTS r1, r2, w
MCRequests    == {r1, r2, w}
MCIdempotent  == {r1, r2}
MCRetryAfters == {3, 9}
=============================================================================
