--------------------------- MODULE EventCopyProofs ---------------------------
(***************************************************************************)
(* Proofs about EventCopy, for any facts, policy, number of plans and of   *)
(* applications, and any number of edits: IndInv is an invariant, so the   *)
(* audit trail is truthful and a rewrite overwrites only what its plan saw *)
(* or what changed in apply()'s last window; and the destination's events  *)
(* evolve as ReviewedCopy says.                                            *)
(***************************************************************************)
EXTENDS EventCopy, TLAPS

Sound(a) == RunsReviewedPlan(a) /\ SendsWhatThePlanSays(a) /\ ResultIsTrue(a)

LEMMA InitInv == Init => IndInv
<1> SUFFICES ASSUME Init PROVE IndInv
  OBVIOUS
<1>1. TypeOK
  BY ConstantsAssumption
     DEF Init, TypeOK, Uuids, Contents, Events, Actions, Policies, Issues, Plan, Unplanned,
         Results, Apply, Idle, Request, Unsent
<1>2. PlansAreClean
  BY DEF Init, PlansAreClean, Unplanned
<1>3. \A a \in Applies : Sound(a)
  BY DEF Init, Sound, RunsReviewedPlan, SendsWhatThePlanSays, ResultIsTrue, Consistent,
         Idle, Unsent
<1> QED BY <1>1, <1>2, <1>3 DEF IndInv, Sound

-----------------------------------------------------------------------------
(* What a step leaves alone.                                               *)

\* An application that a step does not touch stays sound, as long as the step
\* leaves the reviewed plans as they are.
LEMMA OthersKeep ==
    ASSUME NEW b \in Applies, Sound(b),
           \A p \in Plans : plan[p].phase = "ready" => plan'[p] = plan[p],
           apply'[b] = apply[b], request'[b] = request[b], log'[b] = log[b]
    PROVE  Sound(b)'
<1>1. RunsReviewedPlan(b)'
  BY DEF Sound, RunsReviewedPlan, Runnable
<1>2. SendsWhatThePlanSays(b)'
  BY DEF Sound, SendsWhatThePlanSays, Runnable, PlanOf
<1>3. ResultIsTrue(b)'
  BY DEF Sound, ResultIsTrue
<1> QED BY <1>1, <1>2, <1>3 DEF Sound

\* Between its start and its record an application only changes its phase and its
\* result; what it sent stays as its plan says.
LEMMA MoveKeeps ==
    ASSUME NEW a \in Applies, Sound(a), plan' = plan, request' = request,
           apply'[a].plan = apply[a].plan, apply'[a].seen = apply[a].seen,
           apply'[a].phase \in {"checking", "looking", "waiting"} =>
                apply[a].phase \in {"checking", "looking", "waiting"},
           Consistent(apply'[a].phase, apply'[a].result, request[a].state, log'[a])
    PROVE  Sound(a)'
<1>1. RunsReviewedPlan(a)'
  BY DEF Sound, RunsReviewedPlan, Runnable
<1>2. SendsWhatThePlanSays(a)'
  BY DEF Sound, SendsWhatThePlanSays, Runnable, PlanOf
<1>3. ResultIsTrue(a)'
  BY DEF ResultIsTrue
<1> QED BY <1>1, <1>2, <1>3 DEF Sound

\* It stays an application.
LEMMA ApplyRecord ==
    ASSUME NEW r \in Apply, NEW re \in Results,
           NEW ph \in {"looking", "recording", "returned", "raised", "cancelled"}
    PROVE  [r EXCEPT !.phase = ph, !.result = re] \in Apply
BY DEF Apply

\* Such a move keeps the whole invariant.
LEMMA MoveKeepsInv ==
    ASSUME IndInv, NEW a \in Applies, NEW ph, NEW re,
           apply' = [apply EXCEPT ![a].phase = ph, ![a].result = re],
           ph \in {"looking", "recording", "returned", "raised", "cancelled"},
           re \in Results,
           ph = "looking" => apply[a].phase = "checking",
           UNCHANGED <<servers, minted, plan, request>>,
           log' = log \/ log' = [log EXCEPT ![a] = re],
           Consistent(ph, re, request[a].state, log'[a])
    PROVE  IndInv'
<1>1. apply \in [Applies -> Apply] /\ log \in [Applies -> Results]
  BY DEF IndInv, TypeOK
<1>2. apply'[a] = [apply[a] EXCEPT !.phase = ph, !.result = re]
  BY <1>1
<1>3. \A b \in Applies : b # a => apply'[b] = apply[b] /\ log'[b] = log[b]
  BY <1>1
<1>4. apply' \in [Applies -> Apply]
  <2>1. apply'[a] \in Apply
    BY <1>1, <1>2, ApplyRecord
  <2> QED BY <1>1, <1>3, <2>1
<1>5. TypeOK'
  BY <1>1, <1>4 DEF IndInv, TypeOK, servers
<1>6. PlansAreClean'
  BY DEF IndInv, PlansAreClean
<1>7. ASSUME NEW b \in Applies PROVE Sound(b)'
  <2>1. Sound(b)
    BY DEF IndInv, Sound
  <2>2. CASE b = a
    <3>1. /\ apply'[a].phase = ph /\ apply'[a].result = re
          /\ apply'[a].plan = apply[a].plan /\ apply'[a].seen = apply[a].seen
      BY <1>1, <1>2 DEF Apply
    <3>2. Sound(a) /\ plan' = plan /\ request' = request
      BY <2>1, <2>2
    <3>3. Consistent(apply'[a].phase, apply'[a].result, request[a].state, log'[a])
      BY <3>1
    <3>4. Sound(a)'
      BY <3>1, <3>2, <3>3, MoveKeeps
    <3> QED BY <3>4, <2>2
  <2>3. CASE b # a
    BY <2>1, <2>3, <1>3, OthersKeep
  <2> QED BY <2>2, <2>3
<1> QED BY <1>5, <1>6, <1>7 DEF IndInv, Sound

\* A step that only moves the phase leaves the result as it was.
LEMMA PhaseOnly ==
    ASSUME NEW a \in Applies, NEW ph, apply \in [Applies -> Apply],
           apply' = [apply EXCEPT ![a].phase = ph]
    PROVE  /\ apply' = [apply EXCEPT ![a].phase = ph, ![a].result = apply[a].result]
           /\ apply[a].result \in Results
BY DEF Apply

-----------------------------------------------------------------------------
(* The steps of apply() that neither start nor send.                       *)

LEMMA AtSound ==
    ASSUME IndInv, NEW a \in Applies
    PROVE  /\ apply \in [Applies -> Apply]
           /\ Consistent(apply[a].phase, apply[a].result, request[a].state, log[a])
BY DEF IndInv, TypeOK, ResultIsTrue

LEMMA FailKeepsInv ==
    ASSUME IndInv, NEW a \in Applies, Fail(a),
           apply[a].phase \in {"checking", "looking", "waiting"},
           UNCHANGED <<servers, minted, plan, request, log>>
    PROVE  IndInv'
<1>1. Consistent("recording", "failed", request[a].state, log'[a])
  BY AtSound DEF Consistent
<1> QED BY <1>1, MoveKeepsInv DEF Fail, Results

LEMMA CheckSourceKeepsInv ==
    ASSUME IndInv, NEW a \in Applies, CheckSource(a) PROVE IndInv'
<1>1. CASE source = PlanOf(a).source
  <2>1. apply' = [apply EXCEPT ![a].phase = "looking", ![a].result = apply[a].result]
        /\ apply[a].result \in Results
    BY <1>1, AtSound, PhaseOnly DEF CheckSource
  <2>2. Consistent("looking", apply[a].result, request[a].state, log'[a])
    BY AtSound DEF CheckSource, Consistent
  <2> QED BY <2>1, <2>2, MoveKeepsInv DEF CheckSource
<1>2. CASE source # PlanOf(a).source
  BY <1>2, FailKeepsInv DEF CheckSource
<1> QED BY <1>1, <1>2

LEMMA FailuresKeepInv ==
    ASSUME IndInv, NEW a \in Applies, FailRead(a) \/ RefuseConflict(a) \/ FailWrite(a)
    PROVE  IndInv'
BY FailKeepsInv DEF FailRead, RefuseConflict, FailWrite

LEMMA SkipEventKeepsInv ==
    ASSUME IndInv, NEW a \in Applies, SkipEvent(a) PROVE IndInv'
<1>1. Consistent("recording", "skipped", request[a].state, log'[a])
  BY AtSound DEF SkipEvent, Consistent
<1> QED BY <1>1, MoveKeepsInv DEF SkipEvent, Results

LEMMA SucceedKeepsInv ==
    ASSUME IndInv, NEW a \in Applies, Succeed(a) PROVE IndInv'
<1>1. Consistent("recording", "applied", request[a].state, log'[a])
  BY AtSound DEF Succeed, Consistent
<1> QED BY <1>1, MoveKeepsInv DEF Succeed, Results

LEMMA RecordApplyKeepsInv ==
    ASSUME IndInv, NEW a \in Applies, RecordApply(a) PROVE IndInv'
<1> DEFINE ph == IF apply[a].result = "failed" THEN "raised" ELSE "returned"
<1>1. apply' = [apply EXCEPT ![a].phase = ph, ![a].result = apply[a].result]
      /\ apply[a].result \in Results
  BY AtSound, PhaseOnly DEF RecordApply
<1>2. log' = [log EXCEPT ![a] = apply[a].result] /\ log'[a] = apply[a].result
  BY DEF RecordApply, Recorded, IndInv, TypeOK
<1>3. Consistent(ph, apply[a].result, request[a].state, log'[a])
  BY <1>2, AtSound DEF RecordApply, Consistent
<1>4. ph \in {"returned", "raised"}
  OBVIOUS
<1> HIDE DEF ph
<1> QED BY <1>1, <1>2, <1>3, <1>4, MoveKeepsInv DEF RecordApply

LEMMA EndsKeepInv ==
    ASSUME IndInv, NEW a \in Applies, FailRecord(a) \/ Cancel(a) PROVE IndInv'
<1>1. PICK ph \in {"raised", "cancelled"} :
        /\ apply' = [apply EXCEPT ![a].phase = ph]
        /\ apply[a].phase \in {"checking", "looking", "waiting", "recording"}
        /\ UNCHANGED <<servers, minted, plan, request, log>>
  BY DEF FailRecord, Cancel
<1>2. apply' = [apply EXCEPT ![a].phase = ph, ![a].result = apply[a].result]
      /\ apply[a].result \in Results
  BY <1>1, AtSound, PhaseOnly
<1>3. Consistent(ph, apply[a].result, request[a].state, log'[a])
  BY <1>1, AtSound DEF Consistent
<1> QED BY <1>1, <1>2, <1>3, MoveKeepsInv

-----------------------------------------------------------------------------
(* Starting, and the three ways to send.                                   *)

LEMMA StartApplyKeepsInv ==
    ASSUME IndInv, NEW a \in Applies, NEW p \in Plans, NEW refused \in BOOLEAN,
           StartApply(a, p, refused)
    PROVE  IndInv'
<1> DEFINE new == IF MayRun(p) /\ ~refused
                  THEN [Idle EXCEPT !.plan = p, !.phase = "checking"]
                  ELSE [Idle EXCEPT !.plan = p, !.phase = "recording", !.result = "failed"]
<1>1. apply \in [Applies -> Apply] /\ Sound(a)
  BY DEF IndInv, TypeOK, Sound
<1>2. apply' = [apply EXCEPT ![a] = new]
  BY DEF StartApply
<1>3. new \in Apply
  BY DEF Apply, Idle, Events, Results
<1>4. TypeOK'
  BY <1>1, <1>2, <1>3 DEF IndInv, TypeOK, StartApply, servers
<1>5. PlansAreClean'
  BY DEF IndInv, PlansAreClean, StartApply
<1>6. Sound(a)'
  <2>1. apply'[a] = new /\ request'[a].state = "none" /\ log'[a] = "none"
    BY <1>1, <1>2 DEF StartApply, Sound, ResultIsTrue, Consistent
  <2>2. RunsReviewedPlan(a)'
    <3>1. CASE MayRun(p) /\ ~refused
      <4>1. Runnable(p)'
        BY <3>1 DEF StartApply, MayRun, Runnable
      <4>2. apply'[a].plan = p
        BY <2>1, <3>1 DEF Idle
      <4> QED BY <4>1, <4>2 DEF RunsReviewedPlan, Runnable
    <3>2. CASE ~(MayRun(p) /\ ~refused)
      BY <2>1, <3>2 DEF RunsReviewedPlan, Idle
    <3> QED BY <3>1, <3>2
  <2>3. SendsWhatThePlanSays(a)'
    BY <2>1 DEF SendsWhatThePlanSays
  <2>4. ResultIsTrue(a)'
    BY <2>1 DEF ResultIsTrue, Consistent, Idle
  <2> QED BY <2>2, <2>3, <2>4 DEF Sound
<1>7. ASSUME NEW b \in Applies, b # a PROVE Sound(b)'
  <2>1. Sound(b) /\ apply'[b] = apply[b]
    BY <1>1, <1>2, <1>7 DEF IndInv, Sound
  <2> QED BY <2>1, OthersKeep DEF StartApply
<1> QED BY <1>4, <1>5, <1>6, <1>7 DEF IndInv, Sound

\* Whatever says what its plan says may be sent.
LEMMA SendKeepsInv ==
    ASSUME IndInv, NEW a \in Applies, NEW verb \in {"add", "edit"},
           NEW uuid \in Uuids, NEW content \in Contents,
           apply[a].phase = "looking", Send(a, verb, uuid, content),
           minted' \subseteq Fresh,
           Says([state |-> "sent", verb |-> verb, uuid |-> uuid, content |-> content],
                Event(a), PlanOf(a))
    PROVE  IndInv'
<1> DEFINE r == [state |-> "sent", verb |-> verb, uuid |-> uuid, content |-> content]
<1> DEFINE new == [apply[a] EXCEPT !.phase = "waiting", !.seen = Event(a)]
<1>1. /\ apply \in [Applies -> Apply] /\ request \in [Applies -> Request]
      /\ Sound(a) /\ Runnable(apply[a].plan) /\ apply[a].plan \in Plans
  BY DEF IndInv, TypeOK, Sound, RunsReviewedPlan
<1>2. Event(a) \in Events
  BY <1>1 DEF IndInv, TypeOK, Event, PlanOf, Plan
<1>3. new \in Apply
  BY <1>1, <1>2 DEF Apply
<1>4. r \in Request
  BY DEF Request
<1>5. apply' = [apply EXCEPT ![a] = new] /\ request' = [request EXCEPT ![a] = r]
  BY <1>1 DEF Send
<1>6. TypeOK'
  BY <1>1, <1>3, <1>4, <1>5 DEF IndInv, TypeOK, Send, servers
<1>7. PlansAreClean'
  BY DEF IndInv, PlansAreClean, Send
<1>8. Sound(a)'
  <2>1. /\ apply'[a].phase = "waiting" /\ apply'[a].seen = Event(a)
        /\ apply'[a].plan = apply[a].plan /\ apply'[a].result = apply[a].result
        /\ request'[a] = r
    BY <1>1, <1>5 DEF Apply
  <2>2. RunsReviewedPlan(a)'
    BY <1>1, <2>1 DEF RunsReviewedPlan, Runnable, Send
  <2>3. SendsWhatThePlanSays(a)'
    BY <1>1, <2>1 DEF SendsWhatThePlanSays, Runnable, PlanOf, Send
  <2>4. ResultIsTrue(a)'
    BY <1>1, <2>1 DEF Sound, ResultIsTrue, Consistent, Send
  <2> QED BY <2>2, <2>3, <2>4 DEF Sound
<1>9. ASSUME NEW b \in Applies, b # a PROVE Sound(b)'
  <2>1. Sound(b) /\ apply'[b] = apply[b] /\ request'[b] = request[b]
    BY <1>1, <1>5, <1>9 DEF IndInv, Sound
  <2> QED BY <2>1, OthersKeep DEF Send
<1> QED BY <1>6, <1>7, <1>8, <1>9 DEF IndInv, Sound

LEMMA LookingPlan ==
    ASSUME IndInv, NEW a \in Applies, apply[a].phase = "looking"
    PROVE  PlanOf(a) \in Plan /\ Event(a) \in Events /\ minted \subseteq Fresh
<1>1. apply[a].plan \in Plans
  BY DEF IndInv, RunsReviewedPlan
<1> QED BY <1>1 DEF IndInv, TypeOK, PlanOf, Event, Plan

LEMMA AddCopyKeepsInv ==
    ASSUME IndInv, NEW a \in Applies, AddCopy(a) PROVE IndInv'
<1>1. PlanOf(a).uuid \in Uuids /\ PlanOf(a).proposed \in Contents /\ minted' \subseteq Fresh
  BY LookingPlan DEF AddCopy, Plan
<1>2. Says([state |-> "sent", verb |-> "add", uuid |-> PlanOf(a).uuid,
            content |-> PlanOf(a).proposed], Event(a), PlanOf(a))
  BY DEF Says
<1> QED BY <1>1, <1>2, SendKeepsInv DEF AddCopy

LEMMA EditEventKeepsInv ==
    ASSUME IndInv, NEW a \in Applies, EditEvent(a) PROVE IndInv'
<1> DEFINE merged == Event(a) \cup PlanOf(a).proposed
<1>1. /\ PlanOf(a).uuid \in Uuids /\ PlanOf(a).proposed \in Contents
      /\ merged \in Contents /\ minted' \subseteq Fresh
  BY LookingPlan DEF EditEvent, Plan, Events, Contents
<1>2. CASE PlanOf(a).action = "update"
           /\ Send(a, "edit", PlanOf(a).uuid, PlanOf(a).proposed)
  <2>1. Says([state |-> "sent", verb |-> "edit", uuid |-> PlanOf(a).uuid,
              content |-> PlanOf(a).proposed], Event(a), PlanOf(a))
    BY <1>2 DEF Says, EditEvent, Stale, Rewriting
  <2> QED BY <1>1, <1>2, <2>1, SendKeepsInv DEF EditEvent
<1>3. CASE PlanOf(a).action = "merge" /\ Send(a, "edit", PlanOf(a).uuid, merged)
  <2>1. Says([state |-> "sent", verb |-> "edit", uuid |-> PlanOf(a).uuid,
              content |-> merged], Event(a), PlanOf(a))
    BY <1>3 DEF Says, EditEvent, Stale, Rewriting
  <2> QED BY <1>1, <1>3, <2>1, SendKeepsInv DEF EditEvent
<1> QED BY <1>2, <1>3 DEF EditEvent

LEMMA AddRenamedKeepsInv ==
    ASSUME IndInv, NEW a \in Applies, AddRenamed(a) PROVE IndInv'
<1>1. PICK u \in Fresh \ minted :
        minted' = minted \cup {u} /\ Send(a, "add", u, PlanOf(a).proposed)
  BY DEF AddRenamed
<1>2. u \in Uuids /\ u # Original /\ PlanOf(a).proposed \in Contents /\ minted' \subseteq Fresh
  BY <1>1, LookingPlan, ConstantsAssumption DEF AddRenamed, Plan, Uuids
<1>3. Says([state |-> "sent", verb |-> "add", uuid |-> u,
            content |-> PlanOf(a).proposed], Event(a), PlanOf(a))
  BY <1>2 DEF Says, AddRenamed
<1> QED BY <1>1, <1>2, <1>3, SendKeepsInv DEF AddRenamed

-----------------------------------------------------------------------------
(* plan_copy(): a plan is built before it is reviewed, and never changed   *)
(* after.                                                                  *)

LEMMA PlanChangeKeepsInv ==
    ASSUME IndInv, NEW p \in Plans, NEW new \in Plan, plan[p].phase # "ready",
           plan' = [plan EXCEPT ![p] = new],
           new.policy # "none" /\ new.issues = {} =>
                new.proposed \cap (Removed \cup Forbidden) = {},
           minted' \subseteq Fresh,
           UNCHANGED <<servers, apply, request, log>>
    PROVE  IndInv'
<1>1. TypeOK'
  BY DEF IndInv, TypeOK, servers
<1>2. PlansAreClean'
  BY DEF IndInv, TypeOK, PlansAreClean
<1>3. \A q \in Plans : plan[q].phase = "ready" => plan'[q] = plan[q]
  BY DEF IndInv, TypeOK
<1>4. \A a \in Applies : Sound(a)'
  BY <1>3, OthersKeep DEF IndInv, Sound
<1> QED BY <1>1, <1>2, <1>4 DEF IndInv, Sound

LEMMA PlanSourceKeepsInv ==
    ASSUME IndInv, NEW p \in Plans, NEW action \in Actions, NEW policy \in Policies,
           NEW readOnly \in BOOLEAN, PlanSource(p, action, policy, readOnly)
    PROVE  IndInv'
<1> DEFINE new == [phase |-> "sourced", action |-> action, policy |-> policy,
                   source |-> source, base |-> Absent,
                   proposed |-> Transformed(policy, source), uuid |-> Original,
                   issues |-> {i \in {"policy-violation"} : Rejects(policy, source)}
                              \cup {i \in {"destination-read-only"} : readOnly}]
<1>1. source \in Contents /\ Transformed(policy, source) \in Contents
  BY DEF IndInv, TypeOK, PlanSource, Events, Contents, Transformed
<1>2. new \in Plan
  BY <1>1 DEF Plan, Issues, Events, Uuids
<1>3. new.policy # "none" /\ new.issues = {} =>
        new.proposed \cap (Removed \cup Forbidden) = {}
  BY DEF Transformed, Rejects
<1>4. plan[p].phase # "ready" /\ plan' = [plan EXCEPT ![p] = new] /\ minted' \subseteq Fresh
  BY DEF PlanSource, IndInv, TypeOK
<1> HIDE DEF new
<1> QED BY <1>2, <1>3, <1>4, PlanChangeKeepsInv DEF PlanSource

LEMMA PlanFields ==
    ASSUME IndInv, NEW p \in Plans
    PROVE  /\ plan \in [Plans -> Plan] /\ plan[p] \in Plan /\ minted \subseteq Fresh
           /\ store[Original] \in Events
           /\ plan[p].policy # "none" /\ plan[p].issues = {} =>
                plan[p].proposed \cap (Removed \cup Forbidden) = {}
BY DEF IndInv, TypeOK, PlansAreClean, Uuids

LEMMA PlanDestinationKeepsInv ==
    ASSUME IndInv, NEW p \in Plans, PlanDestination(p) PROVE IndInv'
<1> DEFINE existing == store[Original]
<1> DEFINE conflict == existing # Absent /\ plan[p].action = "abort"
<1> DEFINE base == IF plan[p].action \in Rewriting THEN existing ELSE Absent
<1> DEFINE issues == plan[p].issues \cup {i \in {"destination-conflict"} : conflict}
<1>1. PICK u \in Uuids :
        /\ plan' = [plan EXCEPT ![p].phase = "built", ![p].uuid = u, ![p].base = base,
                                ![p].issues = issues]
        /\ minted' = minted \cup ({u} \cap Fresh)
  BY DEF PlanDestination, Uuids
<1> DEFINE new == [plan[p] EXCEPT !.phase = "built", !.uuid = u, !.base = base,
                                  !.issues = issues]
<1>2. plan' = [plan EXCEPT ![p] = new] /\ minted' \subseteq Fresh /\ plan[p].phase # "ready"
  BY <1>1, PlanFields DEF PlanDestination
<1>3. base \in Events /\ issues \in SUBSET Issues
  BY PlanFields DEF Plan, Events, Issues
<1> HIDE DEF base, issues
<1>4. new \in Plan
  BY <1>3, PlanFields DEF Plan
<1>5. new.policy = plan[p].policy /\ new.proposed = plan[p].proposed /\ new.issues = issues
  BY PlanFields DEF Plan
<1>6. issues = {} => plan[p].issues = {}
  BY DEF issues
<1> HIDE DEF new
<1> QED BY <1>2, <1>4, <1>5, <1>6, PlanFields, PlanChangeKeepsInv DEF PlanDestination

LEMMA PlanUnreachableKeepsInv ==
    ASSUME IndInv, NEW p \in Plans, PlanUnreachable(p) PROVE IndInv'
<1> DEFINE issues == plan[p].issues \cup {"destination-unreachable"}
<1> DEFINE new == [plan[p] EXCEPT !.phase = "built", !.issues = issues]
<1>1. plan' = [plan EXCEPT ![p] = new] /\ minted' \subseteq Fresh /\ plan[p].phase # "ready"
  BY PlanFields DEF PlanUnreachable
<1>2. new \in Plan
  BY PlanFields DEF Plan, Issues
<1>3. new.issues # {}
  BY PlanFields DEF Plan
<1> HIDE DEF new
<1> QED BY <1>1, <1>2, <1>3, PlanChangeKeepsInv DEF PlanUnreachable

LEMMA PlanEndsKeepInv ==
    ASSUME IndInv, NEW p \in Plans, SavePlan(p) \/ DropPlan(p) PROVE IndInv'
<1>1. PICK ph \in {"ready", "dropped"} : plan' = [plan EXCEPT ![p].phase = ph]
  BY DEF SavePlan, DropPlan
<1> DEFINE new == [plan[p] EXCEPT !.phase = ph]
<1>2. plan' = [plan EXCEPT ![p] = new] /\ minted' \subseteq Fresh /\ plan[p].phase # "ready"
  BY <1>1, PlanFields DEF SavePlan, DropPlan
<1>3. new \in Plan
  BY PlanFields DEF Plan
<1>4. new.policy = plan[p].policy /\ new.proposed = plan[p].proposed /\ new.issues = plan[p].issues
  BY PlanFields DEF Plan
<1> HIDE DEF new
<1> QED BY <1>2, <1>3, <1>4, PlanFields, PlanChangeKeepsInv DEF SavePlan, DropPlan

-----------------------------------------------------------------------------
(* The servers and their analysts.                                         *)

LEMMA ServeKeepsInv ==
    ASSUME IndInv, NEW a \in Applies, Serve(a) PROVE IndInv'
<1> DEFINE r == request[a]
<1>0. request \in [Applies -> Request] /\ r \in Request /\ Sound(a)
  BY DEF IndInv, TypeOK, Sound
<1>1. PICK st \in {"done", "refused"} : request' = [request EXCEPT ![a].state = st]
  BY DEF Serve
<1> DEFINE new == [r EXCEPT !.state = st]
<1>2. request' = [request EXCEPT ![a] = new]
  BY <1>0, <1>1
<1>3. /\ new \in Request /\ new.state = st /\ new.verb = r.verb
      /\ new.uuid = r.uuid /\ new.content = r.content
  BY <1>0 DEF Request
<1>4. store' \in [Uuids -> Events]
  BY <1>0 DEF Serve, IndInv, TypeOK, Request, Events
<1>5. TypeOK'
  BY <1>0, <1>2, <1>3, <1>4 DEF IndInv, TypeOK, Serve
<1>6. PlansAreClean'
  BY DEF IndInv, PlansAreClean, Serve
<1>7. Sound(a)'
  <2>1. request'[a] = new
    BY <1>0, <1>2
  <2>2. RunsReviewedPlan(a)'
    BY <1>0 DEF Sound, RunsReviewedPlan, Runnable, Serve
  <2>3. SendsWhatThePlanSays(a)'
    BY <1>0, <1>3, <2>1 DEF Sound, SendsWhatThePlanSays, Says, Runnable, PlanOf, Serve
  <2>4. ResultIsTrue(a)'
    BY <1>0, <1>3, <2>1 DEF Sound, ResultIsTrue, Consistent, Serve
  <2> QED BY <2>2, <2>3, <2>4 DEF Sound
<1>8. ASSUME NEW b \in Applies, b # a PROVE Sound(b)'
  <2>1. Sound(b) /\ request'[b] = request[b]
    BY <1>0, <1>2, <1>8 DEF IndInv, Sound
  <2> QED BY <2>1, OthersKeep DEF Serve
<1> QED BY <1>5, <1>6, <1>7, <1>8 DEF IndInv, Sound

\* A step that leaves plans and applications alone keeps what is said of them.
LEMMA ServersKeepInv ==
    ASSUME IndInv, TypeOK', UNCHANGED <<plan, apply, request, log>>
    PROVE  IndInv'
<1>1. PlansAreClean'
  BY DEF IndInv, PlansAreClean
<1>2. \A b \in Applies : Sound(b)'
  BY OthersKeep DEF IndInv, Sound
<1> QED BY <1>1, <1>2 DEF IndInv, Sound

LEMMA EditSourceKeepsInv == IndInv /\ EditSource => IndInv'
<1> SUFFICES ASSUME IndInv, EditSource PROVE IndInv'
  OBVIOUS
<1>1. edits' \in 0..MaxEdits
  BY ConstantsAssumption DEF EditSource, IndInv, TypeOK
<1>2. TypeOK'
  BY <1>1 DEF EditSource, IndInv, TypeOK
<1> QED BY <1>2, ServersKeepInv DEF EditSource

LEMMA EditDestinationKeepsInv == IndInv /\ EditDestination => IndInv'
<1> SUFFICES ASSUME IndInv, EditDestination PROVE IndInv'
  OBVIOUS
<1>1. edits' \in 0..MaxEdits
  BY ConstantsAssumption DEF EditDestination, IndInv, TypeOK
<1>2. TypeOK'
  BY <1>1 DEF EditDestination, IndInv, TypeOK
<1> QED BY <1>2, ServersKeepInv DEF EditDestination

-----------------------------------------------------------------------------
(* The invariant.                                                          *)

LEMMA PlanStepKeepsInv ==
    ASSUME IndInv, NEW p \in Plans, PlanStep(p) PROVE IndInv'
BY PlanSourceKeepsInv, PlanDestinationKeepsInv, PlanUnreachableKeepsInv, PlanEndsKeepInv
   DEF PlanStep

LEMMA ApplyStepKeepsInv ==
    ASSUME IndInv, NEW a \in Applies, ApplyStep(a) PROVE IndInv'
BY StartApplyKeepsInv, CheckSourceKeepsInv, FailuresKeepInv, AddCopyKeepsInv,
   EditEventKeepsInv, AddRenamedKeepsInv, SkipEventKeepsInv, SucceedKeepsInv,
   RecordApplyKeepsInv, EndsKeepInv
   DEF ApplyStep

LEMMA StepKeepsInv == IndInv /\ [Next]_vars => IndInv'
<1> SUFFICES ASSUME IndInv, [Next]_vars PROVE IndInv'
  OBVIOUS
<1>1. CASE Next
  BY <1>1, PlanStepKeepsInv, ApplyStepKeepsInv, ServeKeepsInv, EditSourceKeepsInv,
     EditDestinationKeepsInv DEF Next
<1>2. CASE UNCHANGED vars
  <2>1. TypeOK'
    BY <1>2 DEF IndInv, TypeOK, vars, servers
  <2> QED BY <1>2, <2>1, ServersKeepInv DEF vars
<1> QED BY <1>1, <1>2

\* In every behaviour of planning and applying, plans stay clean, applications run
\* reviewed plans, requests say what their plans say and results are true.
THEOREM Invariance == Spec => []IndInv
BY InitInv, StepKeepsInv, PTL DEF Spec

\* What the operation log says of an application is true of its write, and an
\* application that returned is in the log (_record_apply).
THEOREM AuditTruthful == Spec => []AuditIsTruthful
<1>1. IndInv => AuditIsTruthful
  BY DEF IndInv, TypeOK, ResultIsTrue, Consistent, AuditIsTruthful, Landed, Results, Apply
<1> QED BY <1>1, Invariance, PTL

\* A write that was not on its way cannot land.
LEMMA OnlySentLands ==
    ASSUME IndInv, [Next]_vars, NEW a \in Applies, ~Landed(a), Landed(a)'
    PROVE  request[a].state # "none"
<1>1. CASE \E b \in Applies : Serve(b)
  <2>1. PICK b \in Applies : Serve(b)
    BY <1>1
  <2> QED BY <2>1 DEF Serve, Landed, IndInv, TypeOK
<1>2. ASSUME NEW b \in Applies, NEW verb, NEW uuid, NEW content, Send(b, verb, uuid, content)
      PROVE  FALSE
  BY <1>2 DEF Send, Landed, IndInv, TypeOK
<1>3. CASE request' = request
  BY <1>3 DEF Landed
<1>4. \/ \E b \in Applies : Serve(b)
      \/ \E b \in Applies : AddCopy(b) \/ EditEvent(b) \/ AddRenamed(b)
      \/ request' = request
  BY DEF Next, PlanStep, PlanSource, PlanDestination, PlanUnreachable, SavePlan, DropPlan,
         ApplyStep, StartApply, CheckSource, FailRead, SkipEvent, RefuseConflict, Succeed,
         FailWrite, RecordApply, FailRecord, Cancel, EditSource, EditDestination, vars
<1> QED BY <1>1, <1>2, <1>3, <1>4 DEF AddCopy, EditEvent, AddRenamed

\* A rewrite that lands overwrites what its plan showed, or what changed after the
\* last read of apply_copy_plan: an edit between review and apply is never lost.
THEOREM OverwritesInWindow == Spec => OverwritesOnlyInWindow
<1>1. ASSUME IndInv, [Next]_vars, NEW a \in Applies, ~Landed(a), Landed(a)',
             request[a].verb = "edit"
      PROVE  store[request[a].uuid] = PlanOf(a).base \/ store[request[a].uuid] # apply[a].seen
  <2>1. SendsWhatThePlanSays(a) /\ request[a].state # "none"
    BY <1>1, OnlySentLands DEF IndInv
  <2> QED BY <1>1, <2>1 DEF SendsWhatThePlanSays, Says
<1>2. IndInv /\ [Next]_vars =>
        [\A a \in Applies :
             ~Landed(a) /\ Landed(a)' /\ request[a].verb = "edit" =>
                \/ store[request[a].uuid] = PlanOf(a).base
                \/ store[request[a].uuid] # apply[a].seen]_vars
  BY <1>1
<1> QED BY <1>2, Invariance, PTL DEF Spec, OverwritesOnlyInWindow

-----------------------------------------------------------------------------
(* The destination evolves as ReviewedCopy says.                           *)

\* What the reviewer of plan p saw, and the plans that passed.
Shown(p) == [action |-> plan[p].action, policy |-> plan[p].policy, uuid |-> plan[p].uuid,
             base |-> plan[p].base, proposed |-> plan[p].proposed]
Passed == {Shown(p) : p \in {q \in Plans : plan[q].phase = "ready" /\ plan[q].issues = {}}}

LEMMA PlanStepMaps ==
    ASSUME IndInv, IndInv', store' = store,
           \A p \in Plans : plan[p].phase = "ready" => plan'[p] = plan[p]
    PROVE  Reviewed!Review
<1>1. Passed \subseteq Passed'
  BY DEF Passed, Shown
<1>2. Passed' \subseteq Reviewed!Plan
  BY DEF Passed, Shown, IndInv, TypeOK, Plan, Reviewed!Plan, Reviewed!Uuids, Uuids,
         Reviewed!Events, Events, Reviewed!Contents, Contents, Actions, Policies
<1>3. \A r \in Passed' : r.policy # "none" => r.proposed \cap (Removed \cup Forbidden) = {}
  BY DEF Passed, Shown, IndInv, PlansAreClean
<1> QED BY <1>1, <1>2, <1>3 DEF Reviewed!Review, Passed, Shown

LEMMA ServeMaps ==
    ASSUME IndInv, NEW a \in Applies, Serve(a)
    PROVE  Reviewed!Next \/ UNCHANGED <<store, Passed>>
<1> DEFINE r == request[a]
<1> DEFINE q == apply[a].plan
<1>1. /\ r \in Request /\ store \in [Uuids -> Events] /\ r.state = "sent"
      /\ q \in Plans /\ Runnable(q) /\ Says(r, apply[a].seen, plan[q])
  BY DEF IndInv, TypeOK, Serve, SendsWhatThePlanSays, PlanOf
<1>2. Passed' = Passed
  BY DEF Passed, Shown, Serve
<1>3. Shown(q) \in Passed
  BY <1>1 DEF Passed, Runnable
<1>4. CASE r.verb = "add" /\ store[r.uuid] = Absent
  <2>1. store' = [store EXCEPT ![r.uuid] = Shown(q).proposed]
    BY <1>1, <1>4 DEF Serve, Says, Shown
  <2>2. r.uuid = Shown(q).uuid \/ (Shown(q).action = "create-new-uuid" /\ r.uuid # Original)
    BY <1>1, <1>4 DEF Says, Shown
  <2>3. Reviewed!Create(Shown(q), r.uuid)
    BY <1>2, <1>4, <2>1, <2>2 DEF Reviewed!Create, Passed, Shown
  <2>4. r.uuid \in Reviewed!Uuids
    BY <1>1 DEF Request, Uuids, Reviewed!Uuids
  <2> QED BY <1>3, <2>3, <2>4 DEF Reviewed!Next, Passed, Shown
<1>5. CASE r.verb = "edit" /\ store[r.uuid] # Absent
  <2>1. /\ Shown(q).action \in {"update", "merge"} /\ Shown(q).base # Absent
        /\ Shown(q).uuid = r.uuid
        /\ r.content = IF Shown(q).action = "update" THEN Shown(q).proposed
                       ELSE Shown(q).base \cup Shown(q).proposed
    BY <1>1, <1>5 DEF Says, Shown, Rewriting
  <2>2. store' = [store EXCEPT ![r.uuid] = r.content]
    BY <1>5 DEF Serve
  <2>3. Reviewed!Rewrite(Shown(q))
    BY <1>2, <1>5, <2>1, <2>2 DEF Reviewed!Rewrite, Passed, Shown
  <2> QED BY <1>3, <2>3 DEF Reviewed!Next, Passed, Shown
<1>6. CASE ~((store[r.uuid] = Absent) <=> (r.verb = "add"))
  BY <1>2, <1>6 DEF Serve
<1> QED BY <1>1, <1>4, <1>5, <1>6 DEF Request

LEMMA EditDestinationMaps ==
    ASSUME IndInv, EditDestination
    PROVE  Reviewed!Analyst
BY DEF EditDestination, Reviewed!Analyst, Events, Contents, Reviewed!Events, Reviewed!Contents

LEMMA InitMaps == Init => Reviewed!Init
<1> SUFFICES ASSUME Init PROVE Reviewed!Init
  OBVIOUS
<1>1. store \in [Uuids -> Events]
  BY DEF Init, Events
<1>2. Passed = {}
  BY DEF Init, Unplanned, Passed
<1> QED BY <1>1, <1>2 DEF Reviewed!Init, Reviewed!Uuids, Reviewed!Events, Reviewed!Contents,
                          Uuids, Events, Contents, Passed, Shown

LEMMA StepMaps ==
    ASSUME IndInv, IndInv', [Next]_vars
    PROVE  [Reviewed!Next]_(Reviewed!abstractVars)
<1>1. CASE \E p \in Plans : PlanStep(p)
  <2>1. store' = store /\ \A p \in Plans : plan[p].phase = "ready" => plan'[p] = plan[p]
    <3>1. PICK p \in Plans : PlanStep(p)
      BY <1>1
    <3>2. store' = store /\ plan[p].phase # "ready"
      BY <3>1 DEF PlanStep, PlanSource, PlanDestination, PlanUnreachable, SavePlan, DropPlan,
                  servers
    <3>3. \A q \in Plans \ {p} : plan'[q] = plan[q]
      BY <3>1 DEF PlanStep, PlanSource, PlanDestination, PlanUnreachable, SavePlan, DropPlan,
                  IndInv, TypeOK
    <3> QED BY <3>2, <3>3
  <2> QED BY <2>1, PlanStepMaps DEF Reviewed!Next
<1>2. CASE \E a \in Applies : Serve(a)
  BY <1>2, ServeMaps DEF Reviewed!abstractVars, Passed, Shown
<1>3. CASE EditDestination
  BY <1>3, EditDestinationMaps DEF Reviewed!Next
<1>4. CASE UNCHANGED <<store, plan>>
  BY <1>4 DEF Reviewed!abstractVars
<1>5. \/ \E p \in Plans : PlanStep(p)
      \/ \E a \in Applies : Serve(a)
      \/ EditDestination
      \/ UNCHANGED <<store, plan>>
  BY DEF Next, ApplyStep, StartApply, CheckSource, FailRead, AddCopy, EditEvent, AddRenamed,
         SkipEvent, RefuseConflict, Succeed, FailWrite, RecordApply, FailRecord, Cancel,
         EditSource, Send, servers, vars
<1> QED BY <1>1, <1>2, <1>3, <1>4, <1>5

\* Outside its analysts' edits the destination changes only to what a reviewed plan
\* says, however planning, applying, late requests and cancellations interleave.
THEOREM Refinement == Spec => ImplementsReviewedCopy
BY InitMaps, StepMaps, Invariance, PTL DEF Spec, ImplementsReviewedCopy, Reviewed!Spec
=============================================================================
