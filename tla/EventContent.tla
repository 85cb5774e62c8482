---------------------------- MODULE EventContent ----------------------------
(***************************************************************************)
(* MISP events as the copy services see them, and the canonical content    *)
(* that decides whether two of them are the same.                          *)
(*                                                                         *)
(* A list of the program is a set here (members that are alike in every    *)
(* field, UUID included, are one), sightings and proposals are bags, and a *)
(* canonical sort is an order that CHOOSE fixes.  A tag is a name in some  *)
(* spelling.  Timestamps and event ids, which no operation here reads, are *)
(* left out; the fields that all of them treat alike are one, "rest".      *)
(***************************************************************************)
EXTENDS Naturals, FiniteSets, Bags, TLC

Null == "null"   \* None, as a UUID and as any other optional text
NoLevel == 6     \* no distribution

\* The fields that an event, an attribute and an object have.
Blank     == [uuid |-> "e", info |-> "plain", rest |-> "r", published |-> FALSE,
              distribution |-> 0, sharing |-> Null, org |-> "org", tags |-> {},
              attributes |-> {}, objects |-> {}, galaxies |-> {},
              sightings |-> EmptyBag, proposals |-> EmptyBag]
Attribute == [uuid |-> Null, type |-> "ip", value |-> "plain", toIds |-> FALSE,
              comment |-> "", data |-> 0, distribution |-> 5, sharing |-> Null,
              tags |-> {}, rest |-> "r"]
Object    == [uuid |-> Null, name |-> "file", comment |-> "", distribution |-> 5,
              sharing |-> Null, rest |-> Null, attributes |-> {}, references |-> {}]

\* A record with these fields, whatever is in them.
HasFields(record, fields) == record = [f \in fields |-> record[f]]
IsAttribute(a) == HasFields(a, DOMAIN Attribute) /\ {a.data, a.distribution} \subseteq Nat
IsObject(o) ==
    /\ HasFields(o, DOMAIN Object) /\ o.distribution \in Nat
    /\ IsFiniteSet(o.attributes) /\ \A a \in o.attributes : IsAttribute(a)
    /\ \A r \in o.references : HasFields(r, {"uuid", "target", "kind"})
IsEvent(e) ==
    /\ HasFields(e, DOMAIN Blank) /\ e.distribution \in Nat
    /\ IsFiniteSet(e.attributes) /\ \A a \in e.attributes : IsAttribute(a)
    /\ IsFiniteSet(e.objects) /\ \A o \in e.objects : IsObject(o)
    /\ \A g \in e.galaxies : HasFields(g, {"name", "uuid", "clusters"})
    /\ \A s \in BagToSet(e.sightings) : HasFields(s, {"uuid", "attribute"})

\* A tag in its usual spelling, and in another one.
Tag(name)   == <<name, "lower">>
Shout(name) == <<name, "UPPER">>

Folded(tags) == {t[1] : t \in tags}
FoldTags(tags) == [n \in Folded(tags) |-> Cardinality({t \in tags : t[1] = n})]

Key(attribute) == <<attribute.type, attribute.value>>
AllAttributes(event) == event.attributes \cup UNION {o.attributes : o \in event.objects}

Uuids(attributes) == {a.uuid : a \in attributes} \ {Null}

\* Each attribute with the UUID of its object, if it is in one.
Members(event) == ({Null} \X event.attributes)
                    \cup UNION {{o.uuid} \X o.attributes : o \in event.objects}

\* As a server keeps its events: no two attributes and no two objects share a UUID ...
OneOfEach(event) ==
    /\ \A a, b \in AllAttributes(event) : a.uuid = b.uuid => a = b
    /\ \A o, p \in event.objects : o.uuid = p.uuid => o = p
\* ... all of them have one, and no attribute is at two places.
InOnePlace(event) ==
    /\ Null \notin {a.uuid : a \in AllAttributes(event)} \cup {o.uuid : o \in event.objects}
    /\ \A x, y \in Members(event) : x[2].uuid = y[2].uuid => x[1] = y[1]

-----------------------------------------------------------------------------
(* canonical_fingerprint(): everything but the observations.               *)

Canonical(attribute) == [attribute EXCEPT !.tags = FoldTags(@)]

Fingerprint(event) ==
    [event EXCEPT !.tags = FoldTags(@),
                  !.attributes = {Canonical(a) : a \in @},
                  !.objects = {[o EXCEPT !.attributes = {Canonical(a) : a \in @}] : o \in @},
                  !.sightings = EmptyBag, !.proposals = EmptyBag]
=============================================================================
