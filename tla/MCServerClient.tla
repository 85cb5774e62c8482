---------------------------- MODULE MCServerClient ----------------------------
(* Either one caller calls any method of any namespace, or two of them race *)
(* through the gate and the cache of capabilities while the server changes. *)
EXTENDS ServerClient

CONSTANTS a, b
MCPlans == [
    endpoints |-> [c \in {a, b} |-> IF c = a THEN Endpoints ELSE {}],
    gate      |-> [c \in {a, b} |-> {r \in FleetRows : r.method = "add_sighting"}],
    cache     |-> [c \in {a, b} |-> {r \in FleetRows : r.method # "add_sighting"}]]
=============================================================================
