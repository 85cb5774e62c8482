------------------------------ MODULE EventCopy ------------------------------
(***************************************************************************)
(* Copying one event between two MISP servers: MispFleet.plan_copy and     *)
(* build_copy_plan, which read both sides into a plan, and MispFleet.apply *)
(* and apply_copy_plan, which check the plan against both sides again and  *)
(* send one write.                                                         *)
(*                                                                         *)
(* Every await is a step boundary: other applications of the same plan and *)
(* the analysts of both servers act in between.  A request may be lost, or *)
(* be served after its sender stopped waiting; a response may be lost; the *)
(* state database may refuse a record; an application may be cancelled at  *)
(* any await.                                                              *)
(*                                                                         *)
(* An event is the set of its members (attributes, objects, galaxies,      *)
(* tags), and its canonical fingerprint is that set.  What the fingerprint *)
(* excludes is left out: sightings, proposals, timestamps.  So are the     *)
(* event's own fields: an update replaces them with its members, a merge   *)
(* keeps the destination's.                                                *)
(***************************************************************************)
EXTENDS Naturals, FiniteSets

CONSTANTS Facts,      \* what an event can hold
          Removed,    \* the facts the policy removes
          Forbidden,  \* the facts that make the policy reject an event
          Original,   \* the event's UUID at the source
          Fresh,      \* the UUIDs uuid4() will give
          Absent,     \* no such event
          Plans,      \* the calls of plan_copy()
          Applies,    \* the calls of apply()
          NoPlan,
          MaxEdits    \* bound: how many edits the analysts make

ASSUME ConstantsAssumption ==
    /\ Removed \subseteq Facts /\ Forbidden \subseteq Facts
    /\ Original \notin Fresh
    /\ \A c \in SUBSET Facts : c # Absent
    /\ NoPlan \notin Plans
    /\ MaxEdits \in Nat

VARIABLES
    source,   \* the source's event
    store,    \* the destination's events
    minted,   \* the UUIDs given so far
    edits,    \* how many edits the analysts made
    plan,     \* the plan of each plan_copy()
    apply,    \* where each apply() is
    request,  \* the write each apply() sent
    log       \* the operation record each apply() left in the state database

servers == <<source, store, edits>>
vars == <<servers, minted, plan, apply, request, log>>

Uuids    == {Original} \cup Fresh
Contents == SUBSET Facts
Events   == {Absent} \cup Contents
Actions  == {"abort", "skip", "update", "create-new-uuid", "merge"}
Rewriting == {"update", "merge"}      \* _REWRITING_ACTIONS

Policies == {"none", "import"}        \* no policy, or the configured one
Issues   == {"policy-violation", "destination-read-only", "destination-unreachable",
             "destination-conflict"}

\* base is what destination_fingerprint stands for, issues the blocking_errors.
Plan == [phase : {"none", "sourced", "built", "ready", "dropped"},
         action : Actions, policy : Policies,
         source : Contents, base : Events, proposed : Contents,
         uuid : Uuids, issues : SUBSET Issues]
Unplanned == [phase |-> "none", action |-> "abort", policy |-> "none",
              source |-> {}, base |-> Absent, proposed |-> {},
              uuid |-> Original, issues |-> {}]

Results == {"none", "applied", "skipped", "failed"}
Apply == [phase : {"idle", "checking", "looking", "waiting", "recording",
                   "returned", "raised", "cancelled"},
          plan : Plans \cup {NoPlan}, seen : Events, result : Results]
Idle == [phase |-> "idle", plan |-> NoPlan, seen |-> Absent, result |-> "none"]

Request == [state : {"none", "sent", "done", "refused"},
            verb : {"add", "edit"}, uuid : Uuids, content : Contents]
Unsent == [state |-> "none", verb |-> "add", uuid |-> Original, content |-> {}]

TypeOK ==
    /\ source \in Events /\ store \in [Uuids -> Events]
    /\ minted \subseteq Fresh /\ edits \in 0..MaxEdits
    /\ plan \in [Plans -> Plan]
    /\ apply \in [Applies -> Apply]
    /\ request \in [Applies -> Request]
    /\ log \in [Applies -> Results]

Init ==
    /\ source \in Contents
    /\ \E e \in Events : store = [u \in Uuids |-> IF u = Original THEN e ELSE Absent]
    /\ minted = {} /\ edits = 0
    /\ plan = [p \in Plans |-> Unplanned]
    /\ apply = [a \in Applies |-> Idle]
    /\ request = [a \in Applies |-> Unsent]
    /\ log = [a \in Applies |-> "none"]

-----------------------------------------------------------------------------
(* plan_copy()                                                             *)

\* The policy engine: whether it rejects an event, and what it makes of it.  A
\* rejected event is proposed as it is, in a plan that is blocked.
Rejects(policy, content) == policy # "none" /\ content \cap Forbidden # {}

PolicySkipped(policy, content) == content                       \* mutant
Transformed(policy, content) ==
    IF policy # "none" /\ ~Rejects(policy, content) THEN content \ Removed ELSE content

\* A read-only destination blocks the plan before anything is asked of it.
PlanSource(p, action, policy, readOnly) ==
    /\ plan[p].phase = "none" /\ source # Absent
    /\ plan' = [plan EXCEPT ![p] =
            [phase |-> "sourced", action |-> action, policy |-> policy,
             source |-> source, base |-> Absent,
             proposed |-> Transformed(policy, source), uuid |-> Original,
             issues |-> {i \in {"policy-violation"} : Rejects(policy, source)}
                        \cup {i \in {"destination-read-only"} : readOnly}]]
    /\ UNCHANGED <<servers, minted, apply, request, log>>

\* /version answered, and the GET found the destination's event or did not.
PlanDestination(p) ==
    LET existing == store[Original]
        renamed  == existing # Absent /\ plan[p].action = "create-new-uuid"
        conflict == existing # Absent /\ plan[p].action = "abort"
    IN
    /\ plan[p].phase = "sourced"
    /\ \E u \in IF renamed THEN Fresh \ minted ELSE {Original} :
        /\ plan' = [plan EXCEPT
                ![p].phase = "built", ![p].uuid = u,
                ![p].base = IF plan[p].action \in Rewriting THEN existing ELSE Absent,
                ![p].issues = @ \cup {i \in {"destination-conflict"} : conflict}]
        /\ minted' = minted \cup ({u} \cap Fresh)
    /\ UNCHANGED <<servers, apply, request, log>>

\* /version failed: the plan is built without a look at the event, and blocked.
PlanUnreachable(p) ==
    /\ plan[p].phase = "sourced"
    /\ plan' = [plan EXCEPT ![p].phase = "built",
                            ![p].issues = @ \cup {"destination-unreachable"}]
    /\ UNCHANGED <<servers, minted, apply, request, log>>

\* save_plan(): the caller gets the plan once its record is stored.
SavePlan(p) ==
    /\ plan[p].phase = "built"
    /\ plan' = [plan EXCEPT ![p].phase = "ready"]
    /\ UNCHANGED <<servers, minted, apply, request, log>>

\* A request or the state database failed: plan_copy() raised.
DropPlan(p) ==
    /\ plan[p].phase \in {"sourced", "built"}
    /\ plan' = [plan EXCEPT ![p].phase = "dropped"]
    /\ UNCHANGED <<servers, minted, apply, request, log>>

-----------------------------------------------------------------------------
(* apply(): apply_copy_plan(), then the audit record.                      *)

PlanOf(a) == plan[apply[a].plan]

\* The plan alone may refuse: it is blocked, or expired, or its destination has
\* become read-only.
BlockedRunsToo(p) == TRUE                                       \* mutant
MayRun(p) == plan[p].issues = {}

StartApply(a, p, refused) ==
    /\ apply[a].phase = "idle" /\ plan[p].phase = "ready"
    /\ apply' = [apply EXCEPT ![a] =
            IF MayRun(p) /\ ~refused
            THEN [Idle EXCEPT !.plan = p, !.phase = "checking"]
            ELSE [Idle EXCEPT !.plan = p, !.phase = "recording", !.result = "failed"]]
    /\ UNCHANGED <<servers, minted, plan, request, log>>

\* apply_copy_plan() raises a MispFleetError: apply() records that and re-raises.
Fail(a) == apply' = [apply EXCEPT ![a].phase = "recording", ![a].result = "failed"]

\* A changed or vanished source is a StalePlanError or a NotFoundError.
CheckSource(a) ==
    /\ apply[a].phase = "checking"
    /\ IF source = PlanOf(a).source
       THEN apply' = [apply EXCEPT ![a].phase = "looking"]
       ELSE Fail(a)
    /\ UNCHANGED <<servers, minted, plan, request, log>>

FailRead(a) ==
    /\ apply[a].phase \in {"checking", "looking"}
    /\ Fail(a)
    /\ UNCHANGED <<servers, minted, plan, request, log>>

\* _destination_event(): the GET of the proposed event, read into seen, and then
\* one of five ways to go on.
Event(a) == store[PlanOf(a).uuid]

Send(a, verb, uuid, content) ==
    /\ apply' = [apply EXCEPT ![a].phase = "waiting", ![a].seen = Event(a)]
    /\ request' = [request EXCEPT ![a] =
            [state |-> "sent", verb |-> verb, uuid |-> uuid, content |-> content]]
    /\ UNCHANGED <<servers, plan, log>>

NeverStale(a) == FALSE                                          \* mutant
Stale(a) == PlanOf(a).action \in Rewriting /\ Event(a) # PlanOf(a).base

AddCopy(a) ==
    /\ apply[a].phase = "looking" /\ Event(a) = Absent
    /\ Send(a, "add", PlanOf(a).uuid, PlanOf(a).proposed)
    /\ UNCHANGED minted

EditEvent(a) ==
    /\ apply[a].phase = "looking" /\ Event(a) # Absent /\ ~Stale(a)
    /\ \/ /\ PlanOf(a).action = "update"
          /\ Send(a, "edit", PlanOf(a).uuid, PlanOf(a).proposed)
       \/ /\ PlanOf(a).action = "merge"
          /\ Send(a, "edit", PlanOf(a).uuid, Event(a) \cup PlanOf(a).proposed)
    /\ UNCHANGED minted

AddRenamed(a) ==
    /\ apply[a].phase = "looking" /\ Event(a) # Absent
    /\ PlanOf(a).action = "create-new-uuid"
    /\ \E u \in Fresh \ minted :
        /\ minted' = minted \cup {u}
        /\ Send(a, "add", u, PlanOf(a).proposed)

SkipEvent(a) ==
    /\ apply[a].phase = "looking" /\ Event(a) # Absent
    /\ PlanOf(a).action = "skip"
    /\ apply' = [apply EXCEPT ![a].phase = "recording", ![a].result = "skipped"]
    /\ UNCHANGED <<servers, minted, plan, request, log>>

\* StalePlanError, or ConflictError: it appeared after planning.
RefuseConflict(a) ==
    /\ apply[a].phase = "looking" /\ Event(a) # Absent
    /\ Stale(a) \/ PlanOf(a).action = "abort"
    /\ Fail(a)
    /\ UNCHANGED <<servers, minted, plan, request, log>>

\* The response says what the server did.
Succeed(a) ==
    /\ apply[a].phase = "waiting" /\ request[a].state = "done"
    /\ apply' = [apply EXCEPT ![a].phase = "recording", ![a].result = "applied"]
    /\ UNCHANGED <<servers, minted, plan, request, log>>

\* 409, 404, a timeout, a lost connection: the write is not sent again.
FailWrite(a) ==
    /\ apply[a].phase = "waiting"
    /\ Fail(a)
    /\ UNCHANGED <<servers, minted, plan, request, log>>

\* _record_apply()
AppliedUnlessRaised(a) ==                                       \* mutant
    IF apply[a].result = "failed" THEN "failed" ELSE "applied"
Recorded(a) == apply[a].result

RecordApply(a) ==
    /\ apply[a].phase = "recording"
    /\ log' = [log EXCEPT ![a] = Recorded(a)]
    /\ apply' = [apply EXCEPT ![a].phase =
            IF apply[a].result = "failed" THEN "raised" ELSE "returned"]
    /\ UNCHANGED <<servers, minted, plan, request>>

\* The state database refuses the record: a StateError, whatever was written.
FailRecord(a) ==
    /\ apply[a].phase = "recording"
    /\ apply' = [apply EXCEPT ![a].phase = "raised"]
    /\ UNCHANGED <<servers, minted, plan, request, log>>

\* CancelledError is no MispFleetError: no record is made of it.
Cancel(a) ==
    /\ apply[a].phase \in {"checking", "looking", "waiting", "recording"}
    /\ apply' = [apply EXCEPT ![a].phase = "cancelled"]
    /\ UNCHANGED <<servers, minted, plan, request, log>>

-----------------------------------------------------------------------------
(* The servers and their analysts.                                         *)

\* A request that is never served stays as it is.
Serve(a) ==
    LET r == request[a]
        accepted == (store[r.uuid] = Absent) <=> (r.verb = "add")
    IN
    /\ r.state = "sent"
    /\ request' = [request EXCEPT ![a].state = IF accepted THEN "done" ELSE "refused"]
    /\ store' = IF accepted THEN [store EXCEPT ![r.uuid] = r.content] ELSE store
    /\ UNCHANGED <<source, edits, minted, plan, apply, log>>

EditSource ==
    /\ edits < MaxEdits /\ edits' = edits + 1
    /\ source' \in Events \ {source}
    /\ UNCHANGED <<store, minted, plan, apply, request, log>>

EditDestination ==
    /\ edits < MaxEdits /\ edits' = edits + 1
    /\ \E e \in Events \ {store[Original]} : store' = [store EXCEPT ![Original] = e]
    /\ UNCHANGED <<source, minted, plan, apply, request, log>>

-----------------------------------------------------------------------------
PlanStep(p) ==
    \/ \E action \in Actions, policy \in Policies, readOnly \in BOOLEAN :
            PlanSource(p, action, policy, readOnly)
    \/ PlanDestination(p) \/ PlanUnreachable(p) \/ SavePlan(p) \/ DropPlan(p)

ApplyStep(a) ==
    \/ \E p \in Plans, refused \in BOOLEAN : StartApply(a, p, refused)
    \/ CheckSource(a) \/ FailRead(a)
    \/ AddCopy(a) \/ EditEvent(a) \/ AddRenamed(a) \/ SkipEvent(a) \/ RefuseConflict(a)
    \/ Succeed(a) \/ FailWrite(a) \/ RecordApply(a) \/ FailRecord(a) \/ Cancel(a)

Next ==
    \/ \E p \in Plans : PlanStep(p)
    \/ \E a \in Applies : ApplyStep(a) \/ Serve(a)
    \/ EditSource \/ EditDestination

Spec == Init /\ [][Next]_vars

-----------------------------------------------------------------------------
(* Properties.                                                             *)

Landed(a) == request[a].state = "done"

\* The destination only ever becomes what a reviewed plan or an analyst made of
\* it, however planning, applying, late requests and edits interleave.
Reviewed == INSTANCE ReviewedCopy WITH
    plans <- {[action |-> plan[p].action, policy |-> plan[p].policy,
               uuid |-> plan[p].uuid, base |-> plan[p].base,
               proposed |-> plan[p].proposed] :
              p \in {q \in Plans : plan[q].phase = "ready" /\ plan[q].issues = {}}}
ImplementsReviewedCopy == Reviewed!Spec

\* What a rewrite overwrites is what the reviewer saw, unless it changed after
\* apply's own read: an edit between review and apply is never lost (copy.md).
OverwritesOnlyInWindow ==
    [][\A a \in Applies :
         ~Landed(a) /\ Landed(a)' /\ request[a].verb = "edit" =>
            \/ store[request[a].uuid] = PlanOf(a).base
            \/ store[request[a].uuid] # apply[a].seen]_vars

\* The audit trail is true of what it says happened, and whoever is handed a
\* result finds it there: "applied" is a write that landed, "skipped" is none.
AuditIsTruthful ==
    \A a \in Applies :
        /\ log[a] = "applied" => Landed(a)
        /\ log[a] = "skipped" => request[a].state = "none"
        /\ apply[a].phase = "returned" => log[a] \in {"applied", "skipped"}

-----------------------------------------------------------------------------
(* What the documentation says and the code does not do.                   *)

\* copy.md: before applying, "the destination conflict situation still matches
\* the plan".  A plan that was reviewed to rewrite an event never creates one.
ConflictSituationHolds ==
    \A a \in Applies : request[a].state # "none" /\ request[a].verb = "add" =>
        ~(PlanOf(a).action \in Rewriting /\ PlanOf(a).base # Absent)

\* apply_copy_plan: "Re-validate and execute a copy plan exactly once."  One plan
\* never puts two copies on its destination.
OneCopyPerPlan ==
    \A a, b \in Applies :
        Landed(a) /\ Landed(b) /\ apply[a].plan = apply[b].plan
        /\ request[a].verb = "add" /\ request[b].verb = "add"
        => request[a].uuid = request[b].uuid

\* copy.md: "Every apply writes a secret-free audit record".  An apply() that is
\* cancelled after its write landed has left one.
EveryApplyIsAudited ==
    \A a \in Applies : Landed(a) /\ apply[a].phase = "cancelled" => log[a] # "none"

-----------------------------------------------------------------------------
(* The inductive invariant behind them, in parts.                          *)

Runnable(p) == plan[p].phase = "ready" /\ plan[p].issues = {}

\* A plan that is not blocked carries only what its policy lets through.
PlansAreClean ==
    \A p \in Plans : plan[p].policy # "none" /\ plan[p].issues = {} =>
        plan[p].proposed \cap (Removed \cup Forbidden) = {}

\* Past its first checks, an apply() runs a plan that was reviewed and is not blocked.
RunsReviewedPlan(a) ==
    apply[a].phase \in {"checking", "looking", "waiting"} =>
        apply[a].plan \in Plans /\ Runnable(apply[a].plan)

\* A write on its way says what its plan says, however long it takes: a creation
\* under the plan's UUID or a new one, or an edit of an event the plan saw.
Says(r, seen, p) ==
    \/ /\ r.verb = "add" /\ r.content = p.proposed
       /\ r.uuid = p.uuid \/ (p.action = "create-new-uuid" /\ r.uuid # Original)
    \/ /\ r.verb = "edit" /\ r.uuid = p.uuid
       /\ p.action \in Rewriting /\ p.base # Absent /\ seen = p.base
       /\ r.content = IF p.action = "update" THEN p.proposed ELSE p.base \cup p.proposed

SendsWhatThePlanSays(a) ==
    request[a].state # "none" =>
        /\ apply[a].plan \in Plans /\ Runnable(apply[a].plan)
        /\ Says(request[a], apply[a].seen, PlanOf(a))

\* What an application is about to record, or recorded, is true of its write.
Consistent(phase, result, sent, record) ==
    /\ phase \in {"idle", "checking", "looking"} => sent = "none"
    /\ phase \in {"idle", "checking", "looking", "waiting"} => result = "none"
    /\ phase \in {"idle", "checking", "looking", "waiting", "recording"} => record = "none"
    /\ phase \in {"recording", "returned"} => result # "none"
    /\ phase = "returned" => result # "failed" /\ record = result
    /\ result = "applied" => sent = "done"
    /\ result = "skipped" => sent = "none"
    /\ record \in {"none", result}

ResultIsTrue(a) == Consistent(apply[a].phase, apply[a].result, request[a].state, log[a])

IndInv ==
    /\ TypeOK /\ PlansAreClean
    /\ \A a \in Applies :
            RunsReviewedPlan(a) /\ SendsWhatThePlanSays(a) /\ ResultIsTrue(a)
=============================================================================
