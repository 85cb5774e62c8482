-------------------------- MODULE ServerClientProofs --------------------------
(***************************************************************************)
(* The safety properties of ServerClient, for any callers, plans, versions *)
(* of the server, attempts, time to live and bounds.                       *)
(***************************************************************************)
EXTENDS ServerClient, TLAPS

-----------------------------------------------------------------------------
(* What is sent again.                                                     *)

\* No method of any namespace sends a request again that changes the server
\* (the idempotent= arguments in client/namespaces).
LEMMA OnlyReadsAreRetried == \A row \in Endpoints : row.again => ~Changes(row)
<1> DEFINE Safe == {row \in Endpoints : row.again => ~Changes(row)}
<1> USE DEF Rows, Changes, ReadOnly, Endpoints
<1>1. EventsNamespace \subseteq Safe  BY DEF EventsNamespace
<1>2. AttributesNamespace \subseteq Safe  BY DEF AttributesNamespace
<1>3. TagsNamespace \subseteq Safe  BY DEF TagsNamespace
<1>4. SightingsNamespace \subseteq Safe  BY DEF SightingsNamespace
<1>5. ObjectsNamespace \subseteq Safe  BY DEF ObjectsNamespace
<1>6. SystemNamespace \subseteq Safe  BY DEF SystemNamespace
<1>7. ListNamespace \subseteq Safe  BY DEF ListNamespace
<1>8. TaxonomiesNamespace \subseteq Safe  BY DEF TaxonomiesNamespace
<1>9. WarninglistsNamespace \subseteq Safe  BY DEF WarninglistsNamespace
<1>10. NoticelistsNamespace \subseteq Safe  BY DEF NoticelistsNamespace
<1>11. GalaxiesNamespace \subseteq Safe  BY DEF GalaxiesNamespace
<1>12. GalaxyClustersNamespace \subseteq Safe  BY DEF GalaxyClustersNamespace
<1>13. EventReportsNamespace \subseteq Safe  BY DEF EventReportsNamespace
<1>14. AnalystDataNamespace \subseteq Safe  BY DEF AnalystDataNamespace
<1>15. CollectionsNamespace \subseteq Safe  BY DEF CollectionsNamespace
<1>16. LogsNamespace \subseteq Safe  BY DEF LogsNamespace
<1>17. ServersNamespace \subseteq Safe  BY DEF ServersNamespace
<1>18. OrganisationsNamespace \subseteq Safe  BY DEF OrganisationsNamespace
<1>19. UsersNamespace \subseteq Safe  BY DEF UsersNamespace
<1>20. AuthKeysNamespace \subseteq Safe  BY DEF AuthKeysNamespace
<1>21. UserSettingsNamespace \subseteq Safe  BY DEF UserSettingsNamespace
<1>22. FeedsNamespace \subseteq Safe  BY DEF FeedsNamespace
<1>23. SharingGroupsNamespace \subseteq Safe  BY DEF SharingGroupsNamespace
<1>24. SharingGroupBlueprintsNamespace \subseteq Safe  BY DEF SharingGroupBlueprintsNamespace
<1> QED BY <1>1, <1>2, <1>3, <1>4, <1>5, <1>6, <1>7, <1>8, <1>9, <1>10, <1>11, <1>12, <1>13, <1>14, <1>15, <1>16, <1>17, <1>18, <1>19, <1>20, <1>21, <1>22, <1>23, <1>24

-----------------------------------------------------------------------------
(* The inductive invariant.                                                *)

\* A call on its way: it has an operation, it has an answer where it kept one,
\* and another attempt is left when it is about to send.
CallInv(c) ==
    /\ call[c].phase # "idle" => call[c].op \in Operations
    /\ call[c].phase \in {"probed", "asked"} => call[c].got \in Versions
    /\ call[c].phase = "sending" => call[c].attempts < MaxAttempts
    /\ call[c].phase \in {"idle", "gate", "probing", "probed"} => call[c].attempts = 0
    /\ call[c].now <= time

\* What changes the server is sent once, and handled once at most.
EffectInv(c) ==
    /\ call[c].effects <= call[c].attempts /\ call[c].effects <= 1
    /\ call[c].phase = "sending" /\ Changes(Row(c)) => call[c].effects = 0

\* What anybody learnt of the server's capabilities was so at some time.
Was(capabilities) == \E v \in 0..version : capabilities = Capabilities(v)
GateInv ==
    /\ cache = None \/ Was(cache)
    /\ \A c \in Callers :
        /\ call[c].phase = "probed" => call[c].got \in 0..version
        /\ call[c].phase = "refused" => \E v \in 0..version : v \notin granting
        /\ call[c].op \in FleetRows /\ call[c].phase \in {"sending", "sent"} =>
                \E v \in 0..version : v \in granting

\* A version that has not ended by some instant.
Lasted(v, instant) == ended[v] = None \/ ended[v] >= instant
FreshInv ==
    /\ \A v \in Versions : v >= version => ended[v] = None
    /\ record # None => /\ record.fetched <= time
                        /\ record.expires = record.fetched + Ttl
                        /\ Lasted(record.version, record.fetched)
    /\ \A c \in Callers :
        /\ call[c].phase \in {"gate", "probing", "probed", "sending", "sent"} =>
                call[c].op \notin FleetRows \/ Changes(Row(c))
        /\ call[c].phase = "asked" => Lasted(call[c].got, call[c].now)
        /\ call[c].phase = "returned" /\ call[c].op \in FleetRows /\ ~Changes(Row(c)) =>
                /\ call[c].got \in Versions
                /\ \/ ended[call[c].got] = None
                   \/ ended[call[c].got] + Ttl >= call[c].now

IndInv ==
    /\ TypeOK
    /\ \A c \in Callers : CallInv(c) /\ EffectInv(c)
    /\ GateInv /\ FreshInv

LEMMA TypeInit == Init => IndInv
  BY ConstantsAssumption
  DEF Init, IndInv, TypeOK, Begun, Call, Phases, Ends, CallInv, EffectInv, GateInv, FreshInv

\* The methods of the fleet are the three that Begin tells apart.
LEMMA Methods ==
    \A op \in FleetRows : op.method \in {"add_sighting", "server_capabilities", "refresh"}
  BY DEF FleetRows, Rows

LEMMA HeardIsCall ==
    ASSUME NEW r \in Call, NEW p \in Phases, NEW v \in Versions
    PROVE  [r EXCEPT !.phase = p, !.got = v] \in Call
  BY DEF Call

LEMMA BeginsOnce ==
    ASSUME NEW c, NEW op, Begin(c, op)
    PROVE  \/ op \notin FleetRows /\ Begins(c, op, "sending")
           \/ op \in FleetRows /\ op.method = "add_sighting" /\ Begins(c, op, "gate")
           \/ op \in FleetRows /\ op.method # "add_sighting" /\ Begins(c, op, "loading")
           \/ op \in FleetRows /\ op.method # "add_sighting" /\ Begins(c, op, "asking")
<1> DEFINE p == IF op \notin FleetRows THEN "sending"
                 ELSE CASE op.method = "add_sighting"        -> "gate"
                        [] op.method = "server_capabilities" -> "loading"
                        [] op.method = "refresh"             -> "asking"
<1>3. Begins(c, op, p)
  BY DEF Begin
<1>4. op \notin FleetRows => p = "sending"
  OBVIOUS
<1>5. op \in FleetRows /\ op.method = "add_sighting" => p = "gate"
  OBVIOUS
<1>6. op \in FleetRows /\ op.method = "server_capabilities" => p = "loading"
  OBVIOUS
<1>7. op \in FleetRows /\ op.method = "refresh" => p = "asking"
  OBVIOUS
<1> HIDE DEF p
<1> QED BY <1>3, <1>4, <1>5, <1>6, <1>7, Methods

LEMMA CallStep ==
    ASSUME TypeOK, \A c \in Callers : CallInv(c), NEW c \in Callers, Step(c)
    PROVE  TypeOK' /\ \A d \in Callers : CallInv(d)'
<1>0. /\ call \in [Callers -> Call] /\ call[c] \in Call /\ version \in Versions
      /\ [call[c] EXCEPT !.phase = "asked", !.got = version] \in Call
  BY HeardIsCall DEF TypeOK, Phases
<1> USE ConstantsAssumption DEF TypeOK, Record, Phases, Ends, CallInv, Moves, Hears, server
<1>1. ASSUME NEW op \in Plans[plan][c], Begin(c, op)
      PROVE  TypeOK' /\ \A d \in Callers : CallInv(d)'
  <2>1. op \in Operations
    OBVIOUS
  <2>2. PICK p \in {"sending", "gate", "loading", "asking"} : Begins(c, op, p)
    BY <1>1, BeginsOnce
  <2>3. Begun(op, p) \in Call
    BY <2>1 DEF Begun, Call
  <2>4. TypeOK'
    <3>1. call' \in [Callers -> Call]
      BY <1>0, <2>2, <2>3 DEF Begins
    <3>2. calls' \in [Callers -> 0..MaxCalls]
      BY <1>1 DEF Begin
    <3> QED BY <1>1, <3>1, <3>2 DEF Begin
  <2>5. \A d \in Callers : call'[d] = IF d = c THEN Begun(op, p) ELSE call[d]
    BY <2>2 DEF Begins
  <2>6. time' = time /\ MaxAttempts > 0
    BY <1>1 DEF Begin
  <2> QED BY <2>1, <2>4, <2>5, <2>6 DEF Begun
<1>2. CASE Gate(c)
  <2>1. PICK phase \in {"probing", "sending", "refused"} : Moves(c, phase)
    BY <1>2 DEF Gate, Passes
  <2> QED BY <1>2, <2>1 DEF Gate, Call
<1>3. CASE ServeProbe(c)
  <2>1. call' = [call EXCEPT ![c] = [@ EXCEPT !.phase = "probed", !.got = version]]
    BY <1>3 DEF ServeProbe, Call
  <2> QED BY <1>3, <2>1 DEF ServeProbe, Call
<1>4. CASE Probe(c)
  BY <1>4 DEF Probe, Passes, Capabilities, Call
<1>5. CASE FailProbe(c)
  BY <1>5 DEF FailProbe, AfterFailedProbe, Call
<1>6. CASE Send(c)
  BY <1>6 DEF Send, Call
<1>7. CASE Answer(c)
  <2>1. PICK phase \in {"returned", "crashed", "raised"} : Moves(c, phase)
    BY <1>7 DEF Answer, Outcome
  <2> QED BY <1>7, <2>1 DEF Answer, Call
<1>8. CASE Lose(c)
  BY <1>8 DEF Lose, MayRetry, Call
<1>9. CASE Load(c)
  BY <1>9 DEF Load, Valid, Call
<1>10. CASE Ask(c)
  <2>1. call' = [call EXCEPT ![c] = [@ EXCEPT !.phase = "asked", !.got = version]]
    BY <1>10 DEF Ask
  <2> QED BY <1>0, <1>10, <2>1 DEF Ask, Call
<1>11. CASE Save(c)
  BY <1>11 DEF Save, FetchedAt, Call
<1>12. CASE FailAsking(c)
  BY <1>12 DEF FailAsking, Call
<1> QED BY <1>1, <1>2, <1>3, <1>4, <1>5, <1>6, <1>7, <1>8, <1>9, <1>10, <1>11, <1>12 DEF Step

\* A step of the world leaves the calls as they are.
LEMMA WorldStep ==
    ASSUME TypeOK, \A c \in Callers : CallInv(c), Tick \/ Upgrade \/ UNCHANGED vars
    PROVE  TypeOK' /\ \A c \in Callers : CallInv(c)'
<1> USE ConstantsAssumption DEF TypeOK, CallInv
<1>1. CASE Tick
  BY <1>1 DEF Tick, Call
<1>2. CASE Upgrade
  BY <1>2 DEF Upgrade
<1>3. CASE UNCHANGED vars
  BY <1>3 DEF vars
<1> QED BY <1>1, <1>2, <1>3

-----------------------------------------------------------------------------
(* What a step leaves of the calls.                                        *)

\* The call of every other caller stays, and so does what Moves does not name.
LEMMA Moved ==
    ASSUME TypeOK, NEW c \in Callers, NEW phase \in Phases, Moves(c, phase)
    PROVE  /\ \A d \in Callers \ {c} : call'[d] = call[d]
           /\ call'[c].phase = phase /\ call'[c].op = call[c].op /\ call'[c].now = call[c].now
           /\ call'[c].got = call[c].got /\ call'[c].attempts = call[c].attempts
           /\ call'[c].effects = call[c].effects
  BY DEF Moves, TypeOK, Call

\* The same, for a caller that hears what the server is like.
LEMMA Heard ==
    ASSUME TypeOK, NEW c \in Callers, NEW phase \in Phases, Hears(c, phase)
    PROVE  /\ \A d \in Callers \ {c} : call'[d] = call[d]
           /\ call'[c].phase = phase /\ call'[c].op = call[c].op /\ call'[c].now = call[c].now
           /\ call'[c].got = version /\ call'[c].attempts = call[c].attempts
           /\ call'[c].effects = call[c].effects
<1>1. call' = [call EXCEPT ![c] = [call[c] EXCEPT !.phase = phase, !.got = version]]
  BY DEF Hears
<1>2. call[c] \in Call /\ call \in [Callers -> Call]
  BY DEF TypeOK
<1>3. call'[c] = [call[c] EXCEPT !.phase = phase, !.got = version]
  BY <1>1, <1>2
<1>4. \A d \in Callers \ {c} : call'[d] = call[d]
  BY <1>1, <1>2
<1> QED BY <1>2, <1>3, <1>4 DEF Call

\* A call that begins: what it is, and that it starts with nothing.
LEMMA Began ==
    ASSUME TypeOK, NEW c \in Callers, NEW op, Begin(c, op)
    PROVE  /\ \A d \in Callers \ {c} : call'[d] = call[d]
           /\ call'[c].op = op /\ call'[c].now = time /\ call'[c].effects = 0
           /\ call'[c].attempts = 0
           /\ call'[c].phase \in {"sending", "gate", "loading", "asking"}
           /\ call'[c].phase = "sending" => op \notin FleetRows
           /\ call'[c].phase = "gate" => op.method = "add_sighting"
<1>1. PICK p \in {"sending", "gate", "loading", "asking"} :
        /\ Begins(c, op, p)
        /\ p = "sending" => op \notin FleetRows
        /\ p = "gate" => op.method = "add_sighting"
  BY BeginsOnce
<1>2. \A d \in Callers : call'[d] = IF d = c THEN Begun(op, p) ELSE call[d]
  BY <1>1 DEF Begins, TypeOK
<1> QED BY <1>1, <1>2 DEF Begun

\* A call that looks for a valid record.
LEMMA Loaded ==
    ASSUME TypeOK, NEW c \in Callers, Load(c)
    PROVE  /\ \A d \in Callers \ {c} : call'[d] = call[d]
           /\ call'[c].phase \in {"returned", "asking"} /\ call'[c].op = call[c].op
           /\ call'[c].attempts = call[c].attempts /\ call'[c].effects = call[c].effects
<1>1. call[c] \in Call /\ call \in [Callers -> Call]
  BY DEF TypeOK
<1>2. CASE record # None /\ Valid(c)
  <2>1. call' = [call EXCEPT ![c] = [call[c] EXCEPT !.phase = "returned", !.got = record.version]]
    BY <1>2 DEF Load
  <2>2. call'[c] = [call[c] EXCEPT !.phase = "returned", !.got = record.version]
    BY <1>1, <2>1
  <2>3. \A d \in Callers \ {c} : call'[d] = call[d]
    BY <1>1, <2>1
  <2> QED BY <1>1, <2>2, <2>3 DEF Call
<1>3. CASE ~(record # None /\ Valid(c))
  BY <1>3, Moved DEF Load, Phases
<1> QED BY <1>2, <1>3

-----------------------------------------------------------------------------
(* Effects.                                                                *)

LEMMA Retried == \A op \in Operations : op.again => ~Changes(op)
<1>1. \A row \in FleetRows : row.again => ~Changes(row)
  BY DEF FleetRows, Rows, Changes, ReadOnly
<1> QED BY <1>1, OnlyReadsAreRetried DEF Operations

LEMMA EffectStep ==
    ASSUME TypeOK, TypeOK', \A c \in Callers : CallInv(c) /\ EffectInv(c), NEW c \in Callers, Step(c)
    PROVE  \A d \in Callers : EffectInv(d)'
<1> USE ConstantsAssumption DEF TypeOK, CallInv, EffectInv, Row
<1>0. call \in [Callers -> Call] /\ call[c] \in Call
  OBVIOUS
<1>1. ASSUME NEW op \in Plans[plan][c], Begin(c, op)
      PROVE  \A d \in Callers : EffectInv(d)'
  BY <1>1, Began
\* A step after which it sends for the first time, or does not send.
<1>2. ASSUME NEW phase \in Phases, Moves(c, phase) \/ Hears(c, phase),
             phase = "sending" => call[c].attempts = 0
      PROVE  \A d \in Callers : EffectInv(d)'
  <2>1. /\ \A d \in Callers \ {c} : call'[d] = call[d]
        /\ call'[c].phase = phase /\ call'[c].op = call[c].op
        /\ call'[c].effects = call[c].effects /\ call'[c].attempts = call[c].attempts
    BY <1>2, Moved, Heard
  <2> QED BY <1>0, <1>2, <2>1 DEF Call
<1>3. CASE Gate(c)
  BY <1>2, <1>3 DEF Gate, Passes, Phases
<1>4. CASE Probe(c)
  BY <1>2, <1>4 DEF Probe, Passes, Phases
<1>5. CASE ServeProbe(c)
  BY <1>2, <1>5 DEF ServeProbe, Phases
<1>6. CASE Ask(c)
  BY <1>2, <1>6 DEF Ask, Phases
<1>7. CASE FailProbe(c)
  BY <1>2, <1>7 DEF FailProbe, Phases
<1>8. CASE FailAsking(c)
  BY <1>2, <1>8 DEF FailAsking, Phases
<1>9. CASE Save(c)
  BY <1>2, <1>9 DEF Save, Phases
<1>10. CASE Send(c)
  BY <1>10 DEF Send, Call
<1>11. CASE Answer(c)
  BY <1>2, <1>11 DEF Answer, Outcome, Phases
<1>12. CASE Lose(c)
  <2>1. CASE MayRetry(c)
    <3>1. ~Changes(call[c].op)
      BY <1>12, <2>1, Retried DEF Lose, MayRetry
    <3>2. Moves(c, "sending")
      BY <1>12, <2>1 DEF Lose
    <3>3. /\ \A d \in Callers \ {c} : call'[d] = call[d]
          /\ call'[c].op = call[c].op
          /\ call'[c].effects = call[c].effects /\ call'[c].attempts = call[c].attempts
      BY <3>2, Moved DEF Phases
    <3> QED BY <1>0, <3>1, <3>3
  <2>2. CASE ~MayRetry(c)
    BY <1>2, <1>12, <2>2 DEF Lose, Phases
  <2> QED BY <2>1, <2>2
<1>13. CASE Load(c)
  BY <1>0, <1>13, Loaded DEF Call
<1> QED BY <1>1, <1>3, <1>4, <1>5, <1>6, <1>7, <1>8, <1>9, <1>10, <1>11, <1>12, <1>13 DEF Step

-----------------------------------------------------------------------------
(* What is known of the server.                                            *)

LEMMA GateStep ==
    ASSUME TypeOK, TypeOK', \A c \in Callers : CallInv(c), GateInv, FreshInv,
           NEW c \in Callers, Step(c)
    PROVE  GateInv'
<1> USE ConstantsAssumption DEF TypeOK, CallInv, GateInv, Was, server, Capabilities
<1>0. version \in Nat /\ version \in 0..version
  OBVIOUS
<1>1. ASSUME NEW op \in Plans[plan][c], Begin(c, op)
      PROVE  GateInv'
  <2>1. UNCHANGED <<server, cache>>
    BY <1>1 DEF Begin
  <2>2. /\ \A d \in Callers \ {c} : call'[d] = call[d]
        /\ call'[c].phase \in {"sending", "gate", "loading", "asking"}
        /\ call'[c].phase = "sending" => call'[c].op \notin FleetRows
    BY <1>1, Began
  <2> QED BY <2>1, <2>2
\* A step that learns nothing and does not pass the gate.
<1>2. ASSUME NEW phase \in Phases \ {"probed", "refused"}, Moves(c, phase) \/ Hears(c, phase),
             phase \in {"sending", "sent"} => call[c].phase \in {"sending", "sent"},
             UNCHANGED <<server, cache>>
      PROVE  GateInv'
  <2>1. /\ \A d \in Callers \ {c} : call'[d] = call[d]
        /\ call'[c].phase = phase /\ call'[c].op = call[c].op
    BY <1>2, Moved, Heard
  <2> QED BY <1>2, <2>1
\* The gate itself, by what is cached after the step.
<1>3. ASSUME cache' # None => Was(cache'), UNCHANGED server,
             NEW phase \in {"probing", "sending", "refused"}, Moves(c, phase),
             phase = "sending" => Was(cache') /\ "sightings" \in cache',
             phase = "refused" => Was(cache') /\ "sightings" \notin cache'
      PROVE  GateInv'
  <2>1. /\ \A d \in Callers \ {c} : call'[d] = call[d]
        /\ call'[c].phase = phase
    BY <1>3, Moved DEF Phases
  <2>2. phase = "sending" => \E v \in 0..version : v \in granting
    BY <1>3
  <2>3. phase = "refused" => \E v \in 0..version : v \notin granting
    BY <1>3
  <2> QED BY <1>3, <2>1, <2>2, <2>3
<1>4. CASE Gate(c)
  <2>1. UNCHANGED <<server, cache>> /\ (cache # None => Was(cache))
    BY <1>4 DEF Gate
  <2> QED BY <1>3, <1>4, <2>1 DEF Gate, Passes
<1>5. CASE Probe(c)
  <2>1. UNCHANGED server /\ Was(cache')
    BY <1>5 DEF Probe
  <2>3. CASE "sightings" \in cache'
    <3>1. Moves(c, "sending")
      BY <1>5, <2>3 DEF Probe, Passes
    <3> QED BY <1>3, <2>1, <2>3, <3>1
  <2>4. CASE "sightings" \notin cache'
    <3>1. Moves(c, "refused")
      BY <1>5, <2>4 DEF Probe, Passes
    <3> QED BY <1>3, <2>1, <2>4, <3>1
  <2> QED BY <2>3, <2>4
<1>6. CASE ServeProbe(c)
  <2>1. /\ \A d \in Callers \ {c} : call'[d] = call[d]
        /\ call'[c].phase = "probed" /\ call'[c].got = version
    BY <1>6, Heard DEF ServeProbe, Phases
  <2> QED BY <1>0, <1>6, <2>1 DEF ServeProbe
<1>7. CASE Ask(c)
  BY <1>2, <1>7 DEF Ask, Phases
<1>8. CASE FailProbe(c)
  BY <1>2, <1>8 DEF FailProbe, AfterFailedProbe, Phases
<1>9. CASE FailAsking(c)
  BY <1>2, <1>9 DEF FailAsking, Phases
<1>10. CASE Send(c)
  BY <1>10 DEF Send, Call
<1>11. CASE Answer(c)
  BY <1>2, <1>11 DEF Answer, Outcome, Phases
<1>12. CASE Lose(c)
  BY <1>2, <1>12 DEF Lose, Phases
<1>13. CASE Load(c)
  BY <1>13 DEF Load, Moves, Call
<1>14. CASE Save(c)
  <2>1. /\ \A d \in Callers \ {c} : call'[d] = call[d]
        /\ call'[c].phase = "returned"
    BY <1>14, Moved DEF Save, Phases
  <2> QED BY <1>14, <2>1 DEF Save
<1> QED BY <1>1, <1>4, <1>5, <1>6, <1>7, <1>8, <1>9, <1>10, <1>11, <1>12, <1>13, <1>14 DEF Step

LEMMA FreshStep ==
    ASSUME TypeOK, TypeOK', \A c \in Callers : CallInv(c), FreshInv, NEW c \in Callers, Step(c)
    PROVE  FreshInv'
<1> USE ConstantsAssumption DEF TypeOK, CallInv, FreshInv, Lasted, server, Row
<1>0. call \in [Callers -> Call] /\ call[c] \in Call
  OBVIOUS
<1>a. \A op \in FleetRows : op.method = "add_sighting" => Changes(op)
  BY DEF FleetRows, Rows, Changes, ReadOnly
<1>1. ASSUME NEW op \in Plans[plan][c], Begin(c, op)
      PROVE  FreshInv'
  <2>1. UNCHANGED <<server, record>>
    BY <1>1 DEF Begin
  <2> QED BY <1>1, <1>a, <2>1, Began
\* A step that keeps nothing and does not return what was read.
<1>2. ASSUME NEW phase \in Phases, Moves(c, phase) \/ Hears(c, phase),
             UNCHANGED <<server, record>>, phase # "asked",
             phase \in {"gate", "probing", "probed", "sending", "sent", "returned"} =>
                call[c].phase \in {"gate", "probing", "probed", "sending", "sent"}
      PROVE  FreshInv'
  <2>1. /\ \A d \in Callers \ {c} : call'[d] = call[d]
        /\ call'[c].phase = phase /\ call'[c].op = call[c].op
    BY <1>2, Moved, Heard
  <2> QED BY <1>2, <2>1
<1>3. CASE Gate(c)
  BY <1>2, <1>3 DEF Gate, Passes, Phases
<1>4. CASE Probe(c)
  BY <1>2, <1>4 DEF Probe, Passes, Phases
<1>5. CASE ServeProbe(c)
  BY <1>2, <1>5 DEF ServeProbe, Phases
<1>6. CASE Ask(c)
  <2>1. /\ \A d \in Callers \ {c} : call'[d] = call[d]
        /\ call'[c].phase = "asked" /\ call'[c].got = version
    BY <1>6, Heard DEF Ask, Phases
  <2>2. ended[version] = None /\ UNCHANGED <<server, record>>
    BY <1>6 DEF Ask
  <2> QED BY <2>1, <2>2
<1>7. CASE FailProbe(c)
  BY <1>2, <1>7 DEF FailProbe, Phases
<1>8. CASE FailAsking(c)
  BY <1>2, <1>8 DEF FailAsking, Phases
<1>9. CASE Send(c)
  <2>1. /\ \A d \in Callers \ {c} : call'[d] = call[d]
        /\ call'[c].phase = "sent" /\ call'[c].op = call[c].op
    BY <1>9 DEF Send, Call
  <2>2. UNCHANGED <<server, record>>
    BY <1>9 DEF Send
  <2> QED BY <1>9, <2>1, <2>2 DEF Send
<1>10. CASE Answer(c)
  BY <1>2, <1>10 DEF Answer, Outcome, Phases
<1>11. CASE Lose(c)
  BY <1>2, <1>11 DEF Lose, Phases
<1>12. CASE Load(c)
  BY <1>12 DEF Load, Moves, Valid, Call, Record
<1>13. CASE Save(c)
  BY <1>13 DEF Save, Moves, FetchedAt, Call
<1> QED BY <1>1, <1>3, <1>4, <1>5, <1>6, <1>7, <1>8, <1>9, <1>10, <1>11, <1>12, <1>13 DEF Step

LEMMA WorldKnown ==
    ASSUME IndInv, Tick \/ Upgrade \/ UNCHANGED vars
    PROVE  (\A c \in Callers : EffectInv(c)') /\ GateInv' /\ FreshInv'
<1> USE ConstantsAssumption DEF IndInv, TypeOK, CallInv, EffectInv, GateInv, FreshInv, Was, Lasted, Row, Capabilities
<1>1. CASE Tick
  BY <1>1 DEF Tick, Record
<1>2. CASE Upgrade
  <2>1. /\ version \in Nat /\ version' = version + 1 /\ 0..version \subseteq 0..version'
        /\ UNCHANGED <<time, granting, cache, record, call>>
    BY <1>2 DEF Upgrade
  <2>2. \A v \in Versions : ended'[v] = IF v = version THEN time ELSE ended[v]
    BY <1>2 DEF Upgrade
  <2>3. \A c \in Callers : EffectInv(c)'
    BY <2>1
  <2>4. GateInv'
    BY <2>1
  <2>5. \A v \in Versions, t \in 0..time : Lasted(v, t) => Lasted(v, t)'
    BY <2>1, <2>2
  <2>6. FreshInv'
    <3>1. \A v \in Versions : v >= version' => ended'[v] = None
      <4> SUFFICES ASSUME NEW v \in Versions, v >= version' PROVE ended'[v] = None
        OBVIOUS
      <4>1. v # version /\ v >= version
        BY <2>1
      <4> QED BY <2>2, <4>1
    <3>2. record # None => record.fetched <= time /\ record.fetched \in 0..time
                           /\ record.version \in Versions
      BY DEF Record
    <3>3. \A c \in Callers : call[c].phase = "asked" => call[c].now \in 0..time
      BY DEF Call
    <3>4. ASSUME NEW c \in Callers, call[c].phase = "returned", call[c].op \in FleetRows,
                 ~Changes(call[c].op)
          PROVE  ended'[call[c].got] = None \/ ended'[call[c].got] + Ttl >= call[c].now
      <4>1. /\ call[c].got \in Versions /\ call[c].now \in 0..time
            /\ ended[call[c].got] = None \/ ended[call[c].got] + Ttl >= call[c].now
        BY <3>4 DEF Call
      <4>2. time + Ttl >= call[c].now
        BY <4>1
      <4>3. CASE call[c].got = version
        BY <2>2, <4>1, <4>2, <4>3
      <4>4. CASE call[c].got # version
        BY <2>2, <4>1, <4>4
      <4> QED BY <4>3, <4>4
    <3> QED BY <2>1, <2>5, <3>1, <3>2, <3>3, <3>4
  <2> QED BY <2>3, <2>4, <2>6
<1>3. CASE UNCHANGED vars
  BY <1>3 DEF vars
<1> QED BY <1>1, <1>2, <1>3

-----------------------------------------------------------------------------
(* The theorems.                                                           *)

\* The inductive invariant holds of every behaviour.
THEOREM Invariance == Spec => []IndInv
<1>1. Init => IndInv
  BY TypeInit
<1>2. IndInv /\ [Next]_vars => IndInv'
  <2> SUFFICES ASSUME IndInv, [Next]_vars PROVE IndInv'
    OBVIOUS
  <2>1. CASE Tick \/ Upgrade \/ UNCHANGED vars
    BY <2>1, WorldStep, WorldKnown DEF IndInv
  <2>2. ASSUME NEW c \in Callers, Step(c) PROVE IndInv'
    <3>1. TypeOK' /\ \A d \in Callers : CallInv(d)'
      BY <2>2, CallStep DEF IndInv
    <3> QED BY <2>2, <3>1, EffectStep, GateStep, FreshStep DEF IndInv
  <2> QED BY <2>1, <2>2 DEF Next
<1> QED BY <1>1, <1>2, PTL DEF Spec

\* Type correctness, for the code's own range of every value.
THEOREM TypeCorrect == Spec => []TypeOK
<1>1. IndInv => TypeOK
  BY DEF IndInv
<1> QED BY <1>1, Invariance, PTL

\* A call of any method changes the server at most once (transport.py:148).
THEOREM ChangesOnce == Spec => []ChangesAtMostOnce
<1>1. IndInv => ChangesAtMostOnce
  BY DEF IndInv, EffectInv, ChangesAtMostOnce
<1> QED BY <1>1, Invariance, PTL

\* The capability gate acts on what the server has said (client.py:108).
THEOREM GateTruthful == Spec => []GateTellsTheTruth
<1>1. IndInv => GateTellsTheTruth
  BY DEF IndInv, GateInv, GateTellsTheTruth
<1> QED BY <1>1, Invariance, PTL

\* What server_capabilities() returns is no older than the time to live
\* (fleet.py:532).
THEOREM NothingOlder == Spec => []NothingOlderThanTtl
<1>1. IndInv => NothingOlderThanTtl
  BY DEF IndInv, FreshInv, NothingOlderThanTtl
<1> QED BY <1>1, Invariance, PTL
=============================================================================
