----------------------------- MODULE StateStore -----------------------------
(***************************************************************************)
(* What a state backend promises (the StateBackend protocol): a call takes *)
(* effect at one moment, entirely or not at all, and the effect is the one *)
(* of the in-memory backend, whose methods this module translates.  What   *)
(* was answered took effect; what was refused did not, and never will, if  *)
(* the database is on this machine (Certain): otherwise its answer may be  *)
(* what was lost.  A call that was cancelled may still take effect.        *)
(*                                                                         *)
(* A record is its table, its key and its instant.  Two queries with the   *)
(* same fingerprint at the same instant are one row.                       *)
(***************************************************************************)
EXTENDS Naturals

CONSTANTS Calls,     \* the calls of the backend's methods
          Requests,  \* what they may ask for: [method, key, time]
          Certain    \* a refusal, or a crash, means that nothing more is written

VARIABLES rows,      \* the records stored
          status,    \* where each call is
          request,   \* what it asked for
          landed,    \* the calls that took effect
          seen       \* the rows each read was given

storeVars == <<rows, status, request, landed, seen>>

Upserts == [save_checkpoint |-> "checkpoints", save_capabilities |-> "capabilities",
            save_plan |-> "plans", save_plugin |-> "plugins"]
Deletes == [delete_checkpoint |-> "checkpoints", invalidate_capabilities |-> "capabilities"]
Inserts == [save_operation |-> "operations", save_query |-> "queries"]

Row(table, q) == [table |-> table, key |-> q.key, time |-> q.time]
Under(db, table, key) == {r \in db : r.table = table /\ r.key = key}

\* checkpoints, plans, operations and queries age; the rest is kept.
Stale(db, time) ==
    {r \in db : r.table \in {"checkpoints", "plans", "operations", "queries"} /\ r.time < time}

Effect(db, q) ==
    CASE q.method \in DOMAIN Upserts ->
            (db \ Under(db, Upserts[q.method], q.key)) \cup {Row(Upserts[q.method], q)}
      [] q.method \in DOMAIN Deletes -> db \ Under(db, Deletes[q.method], q.key)
      [] q.method \in DOMAIN Inserts -> db \cup {Row(Inserts[q.method], q)}
      [] q.method = "prune" -> db \ Stale(db, q.time)
      [] q.method = "read" -> db

\* An operation is recorded once.
Duplicate(db, q) == q.method = "save_operation" /\ Under(db, "operations", q.key) # {}

Init ==
    /\ rows = {}
    /\ status = [c \in Calls |-> "idle"]
    /\ request \in [Calls -> Requests]
    /\ landed = {}
    /\ seen = [c \in Calls |-> {}]

Become(c, s) == status' = [status EXCEPT ![c] = s]

Ask(c) ==
    /\ status[c] = "idle" /\ Become(c, "asked")
    /\ UNCHANGED <<rows, request, landed, seen>>

Land(c) ==
    /\ status[c] \in {"asked", "cancelled"} \cup (IF Certain THEN {} ELSE {"refused", "dead"})
    /\ c \notin landed /\ ~Duplicate(rows, request[c])
    /\ landed' = landed \cup {c}
    /\ rows' = Effect(rows, request[c])
    /\ seen' = IF request[c].method = "read" THEN [seen EXCEPT ![c] = rows] ELSE seen
    /\ UNCHANGED <<status, request>>

Answer(c) ==
    /\ status[c] = "asked" /\ c \in landed
    /\ Become(c, "answered")
    /\ UNCHANGED <<rows, request, landed, seen>>

Refuse(c) ==
    /\ status[c] = "asked" /\ (Certain => c \notin landed)
    /\ Become(c, "refused")
    /\ UNCHANGED <<rows, request, landed, seen>>

Cancel(c) ==
    /\ status[c] = "asked" /\ Become(c, "cancelled")
    /\ UNCHANGED <<rows, request, landed, seen>>

\* A process ends, and with it what it had under way.
Crash ==
    /\ \E home \in SUBSET Calls :
            status' = [c \in Calls |-> IF c \in home /\ status[c] \in {"asked", "cancelled"}
                                       THEN "dead" ELSE status[c]]
    /\ UNCHANGED <<rows, request, landed, seen>>

Next ==
    \/ \E c \in Calls : Ask(c) \/ Land(c) \/ Answer(c) \/ Refuse(c) \/ Cancel(c)
    \/ Crash

Spec == Init /\ [][Next]_storeVars
=============================================================================
