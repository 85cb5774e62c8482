---------------------------- MODULE CopyPipeline ----------------------------
(***************************************************************************)
(* What happens to the content of one event that is copied again and again *)
(* between two servers: plan_copy() puts the source's event through the    *)
(* policy, apply() writes the proposal, merges it into the destination's   *)
(* event, or writes it under a fresh identity, and the analysts of both    *)
(* sides go on editing in between.  EventCopy has the protocol of one such *)
(* copy, with the checks that make a plan fail when an event has changed:  *)
(* here a changed event only makes the plan void.                          *)
(***************************************************************************)
EXTENDS PolicyRules, MergeEvents, EventDiff, Sequences

CONSTANTS Cases,      \* what is copied: events, and the policies for them
          Known,      \* the UUIDs in them
          Copied,     \* uuid4(): what the n-th copy has for each of them
          Given,      \* bound: the UUIDs that a server has to give
          MaxCopies,  \* bound: how many copies get an identity of their own
          MaxEdits    \* bound: how many edits the analysts make

Original == Blank.uuid

ASSUME CasesAssumption ==
    /\ \A c \in Cases :
        /\ DOMAIN c = {"name", "sources", "destinations", "specs"}
        /\ \A e \in c.sources \cup c.destinations :
            /\ IsEvent(e) /\ OneOfEach(e) /\ InOnePlace(e)
            /\ OwnUuids(e) \subseteq Known \cup {Null} /\ e.uuid = Original
            /\ IsABag(e.sightings) /\ IsABag(e.proposals)
        /\ \A s \in c.specs : {s.maximum, s.maxAttachment} \subseteq Nat
    /\ MaxCopies \in Nat /\ MaxEdits \in Nat
    /\ DOMAIN Copied = (1..MaxCopies) \X (Known \cup {Null}) /\ IsInjective(Copied)
    /\ Original \in Known /\ Null \notin Known \cup Given \cup Range(Copied)
    /\ Known \cap (Given \cup Range(Copied)) = {} /\ Given \cap Range(Copied) = {}

VARIABLES
    case,     \* which of them this is
    spec,     \* the policy
    source,   \* the source's event
    held,     \* the destination's events: the original's, then the copies
    plan,     \* what plan_copy() proposes, if anything is planned
    done,     \* what apply() did with it
    edits     \* how many edits the analysts made

vars == <<case, spec, source, held, plan, done, edits>>

Unplanned == [accepted |-> FALSE, event |-> Blank, told |-> {}]

Init ==
    /\ case \in {c.name : c \in Cases}
    /\ \E c \in Cases :
        /\ c.name = case
        /\ spec \in c.specs /\ source \in c.sources
        /\ held \in {<<d>> : d \in c.destinations} \cup {<<>>}
    /\ plan = Unplanned /\ done = "none" /\ edits = 0

This == CHOOSE c \in Cases : c.name = case

-----------------------------------------------------------------------------
(* The analysts.                                                           *)

Edited == edits < MaxEdits /\ edits' = edits + 1

EditSource ==
    /\ Edited /\ source' \in This.sources \ {source}
    /\ plan' = Unplanned /\ done' = "none"
    /\ UNCHANGED <<case, spec, held>>

\* They edit what they have: no member gets a UUID that another one had.
EditDestination ==
    /\ Edited /\ held # <<>>
    /\ \E d \in This.destinations \ {held[1]} : held' = [held EXCEPT ![1] = d]
    /\ plan' = Unplanned /\ done' = "none"
    /\ UNCHANGED <<case, spec, source>>

-----------------------------------------------------------------------------
(* plan_copy(), and the writes of apply().                                 *)

Plan ==
    /\ plan = Unplanned
    /\ plan' = Evaluate(spec, source)
    /\ UNCHANGED <<case, spec, source, held, done, edits>>

\* The server gives a UUID of its own to what comes without one.
Placed(event) == ({event} \X event.attributes)
                    \cup UNION {{o} \X o.attributes : o \in event.objects}
Nameless(event) == {x \in Placed(event) : x[2].uuid = Null}
Unused(event) ==
    Given \ UNION {Uuids(AllAttributes(e)) : e \in {event} \cup Range(held)}
Namings(event) == [Nameless(event) -> Unused(event)]

Stored(event) ==
    LET name == CHOOSE f \in Namings(event) : IsInjective(f)
        Whole(holder, a) == IF a.uuid = Null THEN [a EXCEPT !.uuid = name[<<holder, a>>]] ELSE a
    IN  [event EXCEPT
            !.attributes = {Whole(event, a) : a \in @},
            !.objects = {[o EXCEPT !.attributes = {Whole(o, a) : a \in @}] : o \in @}]

\* A server has UUIDs enough.
Takes(event) == \E f \in Namings(event) : IsInjective(f)

\* A plan is applied once: a second application would find its own write.
Ready == plan.accepted /\ done = "none"

Add ==
    /\ Ready /\ held = <<>> /\ Takes(plan.event)
    /\ held' = <<Stored(plan.event)>> /\ done' = "add"
    /\ UNCHANGED <<case, spec, source, plan, edits>>

Merge ==
    /\ Ready /\ held # <<>>
    /\ LET merged == MergedEvent(held[1], plan.event)
       IN  Takes(merged) /\ held' = [held EXCEPT ![1] = Stored(merged)]
    /\ done' = "merge"
    /\ UNCHANGED <<case, spec, source, plan, edits>>

\* The UUIDs that the n-th copy gives.
Fresh(n) == [u \in Known \cup {Null} |-> Copied[<<n, u>>]]

CreateNewUuid ==
    /\ Ready /\ held # <<>> /\ Len(held) <= MaxCopies
    /\ LET copy == RenumberedEvent(plan.event, Fresh(Len(held)))
       IN  Takes(copy) /\ held' = Append(held, Stored(copy))
    /\ done' = "create-new-uuid"
    /\ UNCHANGED <<case, spec, source, plan, edits>>

\* The next copy of what the source has by then.
Again ==
    /\ done # "none"
    /\ plan' = Unplanned /\ done' = "none"
    /\ UNCHANGED <<case, spec, source, held, edits>>

Next == EditSource \/ EditDestination \/ Plan \/ Add \/ Merge \/ CreateNewUuid \/ Again
Spec == Init /\ [][Next]_vars

-----------------------------------------------------------------------------
(* What the policy promises.                                               *)

\* What a policy forbids does not leave: whatever the order of its rules, an
\* accepted proposal has no marking, type, object, audience, text or attachment
\* that one of them bans, and a rename neither launders a marking that arrived
\* nor hands back one that is stripped.  The body of an attachment goes with the
\* value or the comment that named it, unless that comment is removed before the
\* texts are looked at (BodiesGoWithComments).  (PolicySpec, docs/copy.md, Policies.)
NothingForbiddenLeaves ==
    plan.accepted =>
        LET event  == plan.event
            all    == AllAttributes(event)
            leaves == Folded(CarriedTags(event))
            Scaled(level) == level \in 0..3 => level <= spec.maximum
        IN  /\ leaves \cap (spec.removeTags \ Folded(spec.addTags)) = {}
            /\ (leaves \cup Folded(CarriedTags(source))) \cap spec.rejectIfTags = {}
            /\ spec.requiredTags \subseteq Folded(event.tags)
            /\ ~Matches(spec, event.info) /\ Scaled(event.distribution)
            /\ \A a \in all :
                /\ a.type \notin spec.removeTypes \cup spec.rejectTypes \cup spec.rejectIfTypes
                /\ a.data <= spec.maxAttachment /\ Scaled(a.distribution)
                /\ ~Matches(spec, a.value) /\ ~Matches(spec, a.comment)
            /\ \A o \in event.objects : Scaled(o.distribution) /\ ~Matches(spec, o.comment)
            /\ spec.allowedObjects # {} => {o.name : o \in event.objects} \subseteq spec.allowedObjects
            /\ \A was \in AllAttributes(source), a \in all :
                /\ was.uuid = a.uuid
                /\ Matches(spec, was.value) \/ (Matches(spec, was.comment) /\ ~spec.removeComments)
                => a.data = 0

\* A body is "just as secret" when only the attachment's comment matched
\* (policies/builtins.py:239-241), whatever other rules the policy has.
BodiesGoWithComments ==
    plan.accepted =>
        \A was \in AllAttributes(source), a \in AllAttributes(plan.event) :
            was.uuid = a.uuid /\ Matches(spec, was.comment) => a.data = 0

\* The plan that an operator reviews says which tags the policy took from the
\* event and from each attribute, and which it put there instead.
NoSilentMarking ==
    plan.accepted =>
        LET Told(actions, holder, t) == \E a \in actions : <<a, <<holder, t>>>> \in plan.told
            event == plan.event
        IN  /\ \A t \in source.tags \ event.tags : Told({"remove-tag", "rename-tag"}, "", t)
            /\ \A t \in event.tags \ source.tags :
                \/ Told({"add-tag"}, "", t)
                \/ \E old \in source.tags : Told({"rename-tag"}, "", old)
            /\ \A was \in AllAttributes(source), a \in AllAttributes(event) :
                was.uuid = a.uuid => \A t \in was.tags \ a.tags :
                                        Told({"remove-tag", "rename-tag"}, was.type, t)

-----------------------------------------------------------------------------
(* What a merge and a renumbered copy promise.                             *)

ClustersOf(galaxies, id) == UNION {g.clusters : g \in {h \in galaxies : h.uuid = id}}

\* One event holds at least what another does: the same indicators where they
\* were, in the same objects, with their references; the same markings,
\* clusters, sightings and proposals.
Holds(event, other) ==
    LET Keys(attributes) == {Key(a) : a \in attributes}
        Targets(o) == {<<r.target, r.kind>> : r \in o.references}
    IN  /\ Keys(other.attributes) \subseteq Keys(AllAttributes(event))
        /\ \A o \in other.objects : \E p \in event.objects :
            /\ p.uuid = o.uuid
            /\ Keys(o.attributes) \subseteq Keys(p.attributes)
            /\ Targets(o) \subseteq Targets(p)
        /\ Folded(other.tags) \subseteq Folded(event.tags)
        /\ \A g \in other.galaxies : g.clusters \subseteq ClustersOf(event.galaxies, g.uuid)
        /\ other.sightings \sqsubseteq event.sightings
        /\ other.proposals \sqsubseteq event.proposals

\* Nothing is ever removed from the destination by a merge, not a tag's spelling
\* nor an attribute's UUID, and everything the reviewed plan proposed is carried
\* over.  (merge_events.)
MergeUnites ==
    [][done' = "merge" /\ done = "none" =>
        LET before == held[1]  after == held'[1]
        IN  /\ Holds(after, before) /\ Holds(after, plan.event)
            /\ before.attributes \subseteq after.attributes
            /\ AllAttributes(before) \subseteq AllAttributes(after)
            /\ before.tags \subseteq after.tags]_vars

\* Merging what was merged changes nothing: a job that is planned again and
\* again does not make the destination's event grow, whatever UUIDs the
\* destination gave to attributes that came without.  (merge_events.)
MergeSettles == done = "merge" => MergedEvent(held[1], plan.event) = held[1]

\* The UUIDs of an event that a server keeps, and those that it points to.
Inside(event) == {event.uuid} \cup {o.uuid : o \in event.objects}
                    \cup Uuids(AllAttributes(event))
Targets(event) == {r.target : r \in UNION {o.references : o \in event.objects}}
                    \cup {s.attribute : s \in BagToSet(event.sightings)}

\* What the destination holds are events, and MISP keeps a UUID once on a server:
\* no two attributes and no two objects that the destination has been sent share
\* one, in one event or across events, and a copy with a fresh identity has
\* nothing of the original's.
IdentitiesHold ==
    /\ \A n \in DOMAIN held : IsEvent(held[n]) /\ OneOfEach(held[n]) /\ InOnePlace(held[n])
    /\ \A m, n \in DOMAIN held : m # n => Inside(held[m]) \cap Inside(held[n]) = {}
    /\ done = "create-new-uuid" => Targets(held[Len(held)]) \cap Inside(plan.event) = {}

\* The references and the sightings of a renumbered copy point inside it, if they
\* pointed inside the event it is a copy of.  (renumber_event's docstring and its
\* comment on sightings.)
CopyPointsInside ==
    done = "create-new-uuid" => Targets(held[Len(held)]) \cap Inside(source) = {}

-----------------------------------------------------------------------------
(* What the diff promises.                                                 *)

\* "event diff" calls two events equivalent exactly when their fingerprints,
\* which decide whether a sync job copies, and their observations are the same.
DiffAgreesWithFingerprint ==
    \A left \in {source, plan.event}, u \in DOMAIN held :
        LET right == held[u]
        IN  Equivalent(left, right) <=>
                /\ Fingerprint(left) = Fingerprint(right)
                /\ left.sightings = right.sightings /\ left.proposals = right.proposals
=============================================================================
