------------------------------ MODULE EventDiff ------------------------------
(***************************************************************************)
(* diff_events(): the paths at which two versions of an event differ.      *)
(*                                                                         *)
(* Members are grouped by a key; the groups of one key are sorted and      *)
(* compared member by member, field by field: no pair differs exactly when *)
(* the fields that are compared make the same groups.  The operation and   *)
(* the two values of a difference are left out.                            *)
(***************************************************************************)
EXTENDS EventContent

Restricted(record, fields) == [f \in fields |-> record[f]]

MetadataFields  == {"uuid", "info", "rest", "published", "distribution", "sharing", "org"}
NoUuid          == {"toIds", "comment", "distribution", "sharing", "rest", "data"}  \* mutant
AttributeFields == {"uuid", "toIds", "comment", "distribution", "sharing", "rest", "data"}
ObjectFields    == {"name", "comment", "distribution", "sharing", "rest"}

DiffMetadata(left, right) == {<<f>> : f \in {g \in MetadataFields : left[g] # right[g]}}

-----------------------------------------------------------------------------

\* The fields of an attribute that a pair is compared by.
Compared(attribute) ==
    <<Restricted(attribute, AttributeFields), FoldTags(attribute.tags)>>

DiffAttributes(left, right) ==
    LET Group(members, k) == {a \in members : Key(a) = k}
    IN  {k \in {Key(a) : a \in left \cup right} :
            \/ Cardinality(Group(left, k)) # Cardinality(Group(right, k))
            \/ {Compared(a) : a \in Group(left, k)} # {Compared(a) : a \in Group(right, k)}}

\* An object without a UUID goes by its name.
ObjectKey(object) ==
    IF object.uuid = Null THEN <<"name", object.name>> ELSE <<"uuid", object.uuid>>

SamePair(l, r) ==
    /\ Restricted(l, ObjectFields) = Restricted(r, ObjectFields)
    /\ DiffAttributes(l.attributes, r.attributes) = {}
    /\ l.references = r.references

DiffObjects(left, right) ==
    LET Group(members, k) == {o \in members : ObjectKey(o) = k}
    IN  {k \in {ObjectKey(o) : o \in left \cup right} :
            \/ Cardinality(Group(left, k)) # Cardinality(Group(right, k))
            \/ \E o \in Group(left, k) : \A p \in Group(right, k) : ~SamePair(o, p)
            \/ \E p \in Group(right, k) : \A o \in Group(left, k) : ~SamePair(o, p)}

\* A galaxy's own entry has its clusters, and each of them has another.
GalaxyEntries(galaxies) ==
    {<<g.name, g.uuid, "set", g.clusters>> : g \in galaxies}
        \cup UNION {{<<g.name, g.uuid, "cluster", c>> : c \in g.clusters} : g \in galaxies}

Paths(dimension, keys) == {<<dimension, k>> : k \in keys}

\* Entries, with all their fields, as often as they occur.
Changed(dimension, left, right) == IF left = right THEN {} ELSE {<<dimension>>}

Differences(left, right) ==
    DiffMetadata(left, right)
        \cup Changed("tags", FoldTags(left.tags), FoldTags(right.tags))
        \cup Paths("attributes", DiffAttributes(left.attributes, right.attributes))
        \cup Paths("objects", DiffObjects(left.objects, right.objects))
        \cup Changed("galaxies", GalaxyEntries(left.galaxies), GalaxyEntries(right.galaxies))
        \cup Changed("sightings", left.sightings, right.sightings)
        \cup Changed("proposals", left.proposals, right.proposals)

Equivalent(left, right) == Differences(left, right) = {}
=============================================================================
