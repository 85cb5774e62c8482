--------------------------- MODULE MCFleetExecutor ---------------------------
(* Four servers, two at a time: somebody runs, somebody waits, somebody     *)
(* ended and somebody was told, all at once.                                *)
EXTENDS FleetExecutor

CONSTANTS s1, s2, s3, s4
MCSelected == {s1, s2, s3, s4}
==============================================================================
