----------------------------- MODULE PolicyRules -----------------------------
(***************************************************************************)
(* ConfigPolicy.evaluate(): what a policy makes of an event before it is   *)
(* written anywhere, and the plan's account of it.                         *)
(*                                                                         *)
(* Of the account, the transformations of tags are kept, <<action, holder  *)
(* and tag>>: the others are made in the statement that makes the change.  *)
(* Rules that name tags do it in no particular spelling.                   *)
(***************************************************************************)
EXTENDS EventContent

Unlimited == 9   \* no maximum_distribution, and no max_attachment_bytes

\* PolicySpec(): a policy without rules.
NoRules == [maximum |-> Unlimited, addTags |-> {}, removeTags |-> {},
            renameTags |-> [t \in {} |-> t], requiredTags |-> {},
            removeTypes |-> {}, rejectTypes |-> {}, removeComments |-> FALSE,
            setPublished |-> {}, setToIds |-> {}, redact |-> {},
            organisations |-> [o \in {} |-> o], groups |-> [g \in {} |-> g],
            allowedObjects |-> {}, maxAttachment |-> Unlimited,
            rejectIfTags |-> {}, rejectIfTypes |-> {}]

\* A map that leaves what it does not name as it is.
Through(map, x) == IF x \in DOMAIN map THEN map[x] ELSE x

\* One change of every attribute, wherever it is, and of every object.
EachAttribute(event, F(_)) ==
    [event EXCEPT !.attributes = {F(a) : a \in @},
                  !.objects = {[o EXCEPT !.attributes = {F(a) : a \in @}] : o \in @}]
EachObject(event, F(_)) == [event EXCEPT !.objects = {F(o) : o \in @}]

-----------------------------------------------------------------------------
(* Tags, on the event and on each attribute.                               *)

\* The rule for a tag: of two that differ in spelling, the first in sort order.
RuleFor(renames, tag) ==
    LET rules == {old \in DOMAIN renames : old[1] = tag[1]}
    IN  IF Shout(tag[1]) \in rules THEN {Shout(tag[1])} ELSE rules

\* Every rename as <<old, new>>, resolved before any of them is made.
Renames(renames, tags) ==
    UNION {{<<t, renames[r]>> : r \in RuleFor(renames, t)} : t \in tags}

\* Of the renames that would add one tag, the first does.  None adds a tag that is
\* removed, or one that is there in some spelling.
Made(removed, rest, renames) ==
    {CHOOSE p \in renames : p[2][1] = n :
        n \in {p[2][1] : p \in renames} \ (removed \cup Folded(rest))}

SkipsQuietly(renames, made) == {}                               \* mutant
\* The others only remove.
Dropped(renames, made) == renames \ made

GovernTags(spec, tags) ==
    LET kept    == {t \in tags : t[1] \notin spec.removeTags}
        renames == Renames(spec.renameTags, kept)
        rest    == kept \ {p[1] : p \in renames}
        made    == Made(spec.removeTags, rest, renames)
    IN  [tags |-> rest \cup {p[2] : p \in made},
         told |-> {<<"rename-tag", p[1]>> : p \in made}
                    \cup {<<"remove-tag", p[1]>> : p \in Dropped(renames, made)}
                    \cup {<<"remove-tag", t>> : t \in tags \ kept}]

CarriedTags(event) == event.tags \cup UNION {a.tags : a \in AllAttributes(event)}

\* Of two spellings of one tag, the first in sort order.
AddTags(spec, tags) ==
    {t \in spec.addTags : /\ t[1] \notin Folded(tags)
                          /\ Shout(t[1]) \in spec.addTags => t = Shout(t[1])}

\* An attribute's tags are told under its type.
Governed(spec, event) ==
    LET own  == GovernTags(spec, event.tags)
        Inner(a) == GovernTags(spec, a.tags)
        more == AddTags(spec, own.tags)
    IN  [event |-> [EachAttribute(event, LAMBDA a : [a EXCEPT !.tags = Inner(a).tags])
                        EXCEPT !.tags = own.tags \cup more],
         told  |-> {<<t[1], <<"", t[2]>>>> : t \in own.told}
                    \cup {<<"add-tag", <<"", t>>>> : t \in more}
                    \cup UNION {{<<t[1], <<a.type, t[2]>>>> : t \in Inner(a).told} :
                                    a \in AllAttributes(event)}]

-----------------------------------------------------------------------------
(* The gates.                                                              *)

JudgesWhatLeaves(spec, event, incoming) ==                      \* mutant
    spec.rejectIfTags \cap Folded(CarriedTags(event)) # {}
\* reject_if judges what arrived and what leaves.
CarriesRejected(spec, event, incoming) ==
    spec.rejectIfTags \cap Folded(incoming \cup CarriedTags(event)) # {}

Violated(spec, event, incoming) ==
    \/ CarriesRejected(spec, event, incoming)
    \/ spec.rejectIfTypes \cap {a.type : a \in AllAttributes(event)} # {}
    \/ ~(spec.requiredTags \subseteq Folded(event.tags))
    \/ /\ spec.allowedObjects # {}
       /\ ~({o.name : o \in event.objects} \subseteq spec.allowedObjects)

-----------------------------------------------------------------------------
(* The transformations of an event that passed.                            *)

DropTypes(event, types) ==
    LET Kept(attributes) == {a \in attributes : a.type \notin types}
    IN  [event EXCEPT !.attributes = Kept(@),
                      !.objects = {[o EXCEPT !.attributes = Kept(@)] : o \in @}]

RemoveComments(spec, event) ==
    LET Blanked(r) == IF spec.removeComments THEN [r EXCEPT !.comment = ""] ELSE r
    IN  EachObject(EachAttribute(event, Blanked), Blanked)

SetPublished(spec, event) ==
    IF spec.setPublished = {} THEN event
    ELSE [event EXCEPT !.published = CHOOSE b \in spec.setPublished : TRUE]

\* Only the levels 0 to 3 are a scale.
Clamped(spec, level) == IF level <= 3 /\ level > spec.maximum THEN spec.maximum ELSE level

ClampDistribution(spec, event) ==
    LET Lowered(r) == [r EXCEPT !.distribution = Clamped(spec, @)]
    IN  Lowered(EachObject(EachAttribute(event, Lowered), Lowered))

MapOrganisation(spec, event) == [event EXCEPT !.org = Through(spec.organisations, @)]

MapSharingGroups(spec, event) ==
    LET Moved(r) == [r EXCEPT !.sharing = Through(spec.groups, @)]
    IN  Moved(EachObject(EachAttribute(event, Moved), Moved))

SetToIds(spec, event) ==
    EachAttribute(event, LAMBDA a :
        IF spec.setToIds = {} THEN a
        ELSE [a EXCEPT !.toIds = CHOOSE b \in spec.setToIds : TRUE])

Redacted == "REDACTED"
Matches(spec, text) == text \in spec.redact \ {Redacted, ""}
Redact(spec, text) == IF Matches(spec, text) THEN Redacted ELSE text

KeepsTheBody(spec, a) ==                                        \* mutant
    [a EXCEPT !.value = Redact(spec, @), !.comment = Redact(spec, @)]
\* An attachment's body goes with its name.
RedactAttribute(spec, a) ==
    [a EXCEPT !.value = Redact(spec, @), !.comment = Redact(spec, @),
              !.data = IF Matches(spec, a.value) \/ Matches(spec, a.comment) THEN 0 ELSE @]

ApplyRedactions(spec, event) ==
    [EachObject(EachAttribute(event, LAMBDA a : RedactAttribute(spec, a)),
                LAMBDA o : [o EXCEPT !.comment = Redact(spec, @)])
        EXCEPT !.info = Redact(spec, @)]

LimitAttachments(spec, event) ==
    EachAttribute(event, LAMBDA a :
        IF a.data > spec.maxAttachment THEN [a EXCEPT !.data = 0] ELSE a)

Transformed(spec, event) ==
    LET commented == RemoveComments(spec, DropTypes(event, spec.removeTypes))
        published == SetPublished(spec, commented)
        clamped   == ClampDistribution(spec, published)
        mapped    == MapSharingGroups(spec, MapOrganisation(spec, clamped))
        redacted  == ApplyRedactions(spec, SetToIds(spec, mapped))
    IN  LimitAttachments(spec, DropTypes(redacted, spec.rejectTypes))

\* Without a policy an event goes as it is.
Evaluate(spec, event) ==
    LET governed == Governed(spec, event)
        accepted == ~Violated(spec, governed.event, CarriedTags(event))
    IN  [accepted |-> accepted,
         event    |-> IF accepted THEN Transformed(spec, governed.event) ELSE event,
         told     |-> IF accepted THEN governed.told ELSE {}]
=============================================================================
