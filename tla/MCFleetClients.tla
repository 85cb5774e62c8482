--------------------------- MODULE MCFleetClients ---------------------------
(* An enabled server and a disabled one; two fan-outs and a direct caller   *)
(* race for the enabled one, and two calls of aclose(), either of which may *)
(* be cancelled, close what they find.                                      *)
EXTENDS FleetClients

CONSTANTS s1, off, f1, f2, c1, k1, k2

MCFanOuts    == {f1, f2}
MCCallers    == {c1}
MCServers    == {s1, off}
MCEnabled    == {s1}
MCSelections == [f \in MCFanOuts |-> {{s1}}]
MCClosers    == {k1, k2}
=============================================================================
