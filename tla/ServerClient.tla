----------------------------- MODULE ServerClient -----------------------------
(***************************************************************************)
(* One MispClient in use: its namespaces' methods, the capability gate     *)
(* that Fleet.add_sighting passes, and Fleet.server_capabilities with its  *)
(* cache in the state backend.                                             *)
(*                                                                         *)
(* What the server can do changes while all of this happens: an upgrade    *)
(* or another role of the key is a new version of it.  A request reads the *)
(* server at one moment and is answered at a later one.  The transport     *)
(* sends an idempotent request again when its answer is lost (Transport    *)
(* has the details) and any other once.                                    *)
(***************************************************************************)
EXTENDS Endpoints, Naturals, FiniteSets

CONSTANTS Callers,      \* coroutines that use the client
          Plans,        \* what they do: plans by name, from callers to sets of operations
          None,         \* nothing
          Versions,     \* 0 .. n: the versions of the server
          Roles,        \* which of them let the key add sightings: the cases
          MaxAttempts,  \* retry.max_attempts
          Ttl,          \* ttl_seconds
          MaxTime,      \* bound: the clock stops there
          MaxCalls      \* bound: operations per caller

\* The fleet's operations that come through here; refresh asks at once.
FleetRows == Rows("fleet", [object |-> {"server_capabilities", "refresh"}],
                           [object |-> {"add_sighting"}])
Operations == Endpoints \cup FleetRows

ASSUME ConstantsAssumption ==
    /\ \A p \in DOMAIN Plans : Plans[p] \in [Callers -> SUBSET Operations]
    /\ Versions \subseteq Nat /\ 0 \in Versions /\ Roles \subseteq SUBSET Versions
    /\ None \notin Versions /\ None \notin Operations
    /\ MaxAttempts \in Nat \ {0} /\ Ttl \in Nat \ {0} /\ MaxTime \in Nat /\ MaxCalls \in Nat

VARIABLES
    plan,      \* the plan that the callers follow
    time,      \* the clock
    version,   \* the server's version
    granting,  \* the versions that let the key add sightings
    ended,     \* history: when each earlier version ended
    cache,     \* MispClient._capabilities, when it was asked
    record,    \* the cached CapabilityRecord of the state backend
    call,      \* the operation of each caller
    calls      \* how many it started

vars == <<plan, time, version, granting, ended, cache, record, call, calls>>

Record == [version : Versions, fetched : 0..MaxTime, expires : 0..(MaxTime + Ttl)]
Phases == {"idle", "gate", "probing", "probed", "sending", "sent", "loading", "asking",
           "asked", "returned", "raised", "refused", "crashed"}
Ends   == {"returned", "raised", "refused", "crashed"}
Call   == [op : Operations \cup {None}, phase : Phases, now : 0..MaxTime,
           got : Versions \cup {None}, attempts : 0..MaxAttempts,
           effects : 0..MaxAttempts]

TypeOK ==
    /\ plan \in DOMAIN Plans /\ time \in 0..MaxTime /\ version \in Versions /\ granting \in Roles
    /\ ended \in [Versions -> 0..MaxTime \cup {None}]
    /\ (cache = None \/ cache \subseteq {"sightings"})
    /\ record \in Record \cup {None}
    /\ call \in [Callers -> Call] /\ calls \in [Callers -> 0..MaxCalls]

\* A call that begins, in its first phase.
Begun(op, phase) == [op |-> op, phase |-> phase, now |-> time, got |-> None,
                     attempts |-> 0, effects |-> 0]

Init ==
    /\ plan \in DOMAIN Plans
    /\ granting \in Roles
    /\ time = 0 /\ version = 0 /\ ended = [v \in Versions |-> None]
    /\ cache = None /\ record = None
    /\ call = [c \in Callers |-> Begun(None, "idle")] /\ calls = [c \in Callers |-> 0]

server == <<time, version, granting, ended>>

Begins(c, op, phase) == call' = [call EXCEPT ![c] = Begun(op, phase)]
\* The caller's next step, and what it keeps for it.
Moves(c, phase) == call' = [call EXCEPT ![c].phase = phase]
Hears(c, phase) == call' = [call EXCEPT ![c].phase = phase, ![c].got = version]

-----------------------------------------------------------------------------
(* Calls begin; server_capabilities() reads the clock before it awaits.    *)

Begin(c, op) ==
    /\ call[c].phase \in {"idle"} \cup Ends /\ calls[c] < MaxCalls /\ op \in Plans[plan][c]
    /\ Begins(c, op,
         IF op \notin FleetRows THEN "sending"
         ELSE CASE op.method = "add_sighting"        -> "gate"
                [] op.method = "server_capabilities" -> "loading"
                [] op.method = "refresh"             -> "asking")
    /\ calls' = [calls EXCEPT ![c] = @ + 1]
    /\ UNCHANGED <<plan, server, cache, record>>

-----------------------------------------------------------------------------
(* require_capability(): probed when nothing is cached, by whoever finds   *)
(* that; the last answer stays.                                            *)

\* capabilities_from_version(), for the one that somebody requires.
Capabilities(v) == IF v \in granting THEN {"sightings"} ELSE {}
Passes(capabilities) == IF "sightings" \in capabilities THEN "sending" ELSE "refused"

Gate(c) ==
    /\ call[c].phase = "gate"
    /\ Moves(c, IF cache = None THEN "probing" ELSE Passes(cache))
    /\ UNCHANGED <<plan, server, cache, record, calls>>

ServeProbe(c) ==
    /\ call[c].phase = "probing" /\ Hears(c, "probed")
    /\ UNCHANGED <<plan, server, cache, record, calls>>

Probe(c) ==
    /\ call[c].phase = "probed"
    /\ cache' = Capabilities(call[c].got)
    /\ Moves(c, Passes(cache'))
    /\ UNCHANGED <<plan, server, record, calls>>

CachesNothing == {}                                             \* mutant
AfterFailedProbe == cache

FailProbe(c) ==
    /\ call[c].phase \in {"probing", "probed"}
    /\ cache' = AfterFailedProbe
    /\ Moves(c, "raised")
    /\ UNCHANGED <<plan, server, record, calls>>

-----------------------------------------------------------------------------
(* AsyncTransport.request() and the reader.                                *)

\* add_sighting() calls sightings.add(), whose row says the same.
Row(c) == call[c].op

\* The server handles the request, or it never arrives.
Send(c) ==
    /\ call[c].phase = "sending"
    /\ \E handled \in {0, 1} :
         call' = [call EXCEPT ![c].phase = "sent", ![c].attempts = @ + 1,
                              ![c].effects = IF Changes(Row(c)) THEN @ + handled ELSE @]
    /\ UNCHANGED <<plan, server, cache, record, calls>>

Answer(c) ==
    /\ call[c].phase = "sent"
    /\ \E answer \in Answers : Moves(c, Outcome(Row(c).reader, answer))
    /\ UNCHANGED <<plan, server, cache, record, calls>>

MayRetry(c) == Row(c).again /\ call[c].attempts < MaxAttempts

\* No answer comes, or one that says that it is worth another attempt.
Lose(c) ==
    /\ call[c].phase = "sent"
    /\ Moves(c, IF MayRetry(c) THEN "sending" ELSE "raised")
    /\ UNCHANGED <<plan, server, cache, record, calls>>

-----------------------------------------------------------------------------
(* Fleet.server_capabilities()                                             *)

NeverExpires(c) == TRUE                                         \* mutant
Valid(c) == call[c].now < record.expires

Load(c) ==
    /\ call[c].phase = "loading"
    /\ IF record # None /\ Valid(c)
       THEN call' = [call EXCEPT ![c].phase = "returned", ![c].got = record.version]
       ELSE Moves(c, "asking")
    /\ UNCHANGED <<plan, server, cache, record, calls>>

Ask(c) ==
    /\ call[c].phase = "asking" /\ Hears(c, "asked")
    /\ UNCHANGED <<plan, server, cache, record, calls>>

WhenSaved(c) == time                                            \* mutant
FetchedAt(c) == call[c].now

\* save_capabilities(), which replaces whatever is there.
Save(c) ==
    /\ call[c].phase = "asked"
    /\ record' = [version |-> call[c].got, fetched |-> FetchedAt(c),
                  expires |-> FetchedAt(c) + Ttl]
    /\ Moves(c, "returned")
    /\ UNCHANGED <<plan, server, cache, calls>>

\* The request, or the state backend before or after it, fails.
FailAsking(c) ==
    /\ call[c].phase \in {"loading", "asking", "asked"}
    /\ Moves(c, "raised")
    /\ UNCHANGED <<plan, server, cache, record, calls>>

-----------------------------------------------------------------------------
(* The world.                                                              *)

Tick ==
    /\ time < MaxTime /\ time' = time + 1
    /\ UNCHANGED <<plan, version, granting, ended, cache, record, call, calls>>

Upgrade ==
    /\ version + 1 \in Versions
    /\ version' = version + 1 /\ ended' = [ended EXCEPT ![version] = time]
    /\ UNCHANGED <<plan, time, granting, cache, record, call, calls>>

Step(c) ==
    \/ \E op \in Plans[plan][c] : Begin(c, op)
    \/ Gate(c) \/ ServeProbe(c) \/ Probe(c) \/ FailProbe(c)
    \/ Send(c) \/ Answer(c) \/ Lose(c)
    \/ Load(c) \/ Ask(c) \/ Save(c) \/ FailAsking(c)

Next == Tick \/ Upgrade \/ \E c \in Callers : Step(c)
Spec == Init /\ [][Next]_vars

-----------------------------------------------------------------------------
(* Properties                                                              *)

\* One call of any method changes the server at most once, whatever is lost and
\* sent again: what the API lets a method change is never sent twice
\* (client/namespaces/*.py, transport.py:148).
ChangesAtMostOnce == \A c \in Callers : call[c].effects <= 1

\* server_capabilities() tells what the server was like no longer than the
\* cache's time to live before the call began, also when several calls ask and
\* save in any order and the answers are late (fleet.py:532).
NothingOlderThanTtl ==
    \A c \in Callers :
        call[c].op \in FleetRows /\ ~Changes(Row(c)) /\ call[c].phase = "returned" =>
            \/ ended[call[c].got] = None
            \/ ended[call[c].got] + Ttl >= call[c].now

\* The gate turns an operation away, or lets it pass, because of what the server
\* has been like at some time: a probe that fails, or whose answer is overtaken
\* by another's, leaves nothing behind that the server never said
\* (client.py:108).
GateTellsTheTruth ==
    \A c \in Callers :
        call[c].op \in FleetRows =>
            /\ call[c].phase = "refused" => \E v \in 0..version : v \notin granting
            /\ call[c].phase \in {"sending", "sent"} => \E v \in 0..version : v \in granting

\* _base.py: a shape nobody promised is "the documented typed error"; common.py:
\* it surfaces as InvalidResponseError, never as a raw error.
UnexpectedShapesAreTyped == \A c \in Callers : call[c].phase # "crashed"
=============================================================================
