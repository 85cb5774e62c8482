--------------------------- MODULE MCMariaDBState ---------------------------
(* Two calls on one host or on two, of one method for each kind of statement; *)
(* k and l are names that differ in an accent: the collation of the tables    *)
(* (utf8mb4_unicode_ci) takes them for one.                                   *)
EXTENDS MariaDBState, TLC

CONSTANTS c1, c2, h1, h2, k, l

MCCalls == {c1, c2}
MCHosts == {h1, h2}
Interchangeable == Permutations(MCCalls) \cup Permutations(MCHosts)

Saves == {"save_operation", "save_capabilities"}
Others == {"prune", "read"}
MCRequests == {[method |-> m, key |-> k, time |-> 1] : m \in Saves}
              \cup {[method |-> m, key |-> k, time |-> 2] : m \in Others}
              \cup {[method |-> m, key |-> l, time |-> 2] :
                        m \in {"save_capabilities", "invalidate_capabilities"}}
NamedRequests == {[method |-> "save_capabilities", key |-> n, time |-> 1] : n \in {k, l}}

Binary == (k :> k) @@ (l :> l)
UnicodeCi == (k :> k) @@ (l :> k)
=============================================================================
