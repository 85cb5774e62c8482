---------------------------- MODULE MCSqliteState ----------------------------
(* Two calls of any two methods: a record and the prune that removes it, the *)
(* same record twice, a write and a read.                                    *)
EXTENDS SqliteState

CONSTANTS c1, c2, k

MCCalls == {c1, c2}
Saves == {"save_checkpoint", "save_operation", "save_capabilities", "save_plan",
          "save_query", "save_plugin"}
Others == {"delete_checkpoint", "invalidate_capabilities", "prune", "read"}
MCRequests == {[method |-> m, key |-> k, time |-> 1] : m \in Saves}
              \cup {[method |-> m, key |-> k, time |-> 2] : m \in Others}
==============================================================================
