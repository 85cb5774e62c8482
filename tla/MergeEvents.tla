----------------------------- MODULE MergeEvents -----------------------------
(***************************************************************************)
(* merge_events(), the union that on_conflict=merge writes, and            *)
(* renumber_event(), the fresh identity of on_conflict=create-new-uuid.    *)
(***************************************************************************)
EXTENDS EventContent, Functions

(* An attribute that is merged is an offer: itself, with its holder, which  *)
(* is the event or an object.                                               *)

TakesAnyway(a, taken) == a                                      \* mutant
UuidSafe(a, taken) == IF a.uuid \in taken THEN [a EXCEPT !.uuid = Null] ELSE a

\* What becomes of each offer: the first of those with one UUID claims it.
Reserve(offers, taken) ==
    LET First(u) == CHOOSE x \in offers : x[2].uuid = u
    IN  [x \in offers |->
            UuidSafe(x[2], taken \cup IF x = First(x[2].uuid) THEN {} ELSE {x[2].uuid})]

Claimed(offers) == Uuids({x[2] : x \in offers})

\* Those whose type and value are not there yet.
NewTo(known, attributes) == {a \in attributes : Key(a) \notin {Key(k) : k \in known}}

LooseOffers(destination, proposed) ==
    {destination} \X NewTo(AllAttributes(destination), proposed.attributes)

-----------------------------------------------------------------------------
(* Objects: twins by UUID, the others adopted.                             *)

NewReferences(known, references) ==
    {r \in references : <<r.target, r.kind>> \notin {<<k.target, k.kind>> : k \in known}}

\* OBJECT_METADATA_FIELDS
WithMetadata(object, Value(_, _)) ==
    [object EXCEPT !.comment = Value("comment", ""), !.sharing = Value("sharing", Null),
                   !.distribution = Value("distribution", NoLevel), !.rest = Value("rest", Null)]

KeepsItsCopy(object, twin, gained) == object                    \* mutant
\* What one object gains from its twin; its own metadata wins.
MergeObject(object, twin, gained) ==
    [WithMetadata(object, LAMBDA f, empty : IF object[f] = empty THEN twin[f] ELSE object[f])
        EXCEPT !.attributes = @ \cup gained,
               !.references = @ \cup NewReferences(@, twin.references)]

\* The proposals with one UUID become one twin: the first in the canonical order, and
\* what each of the others adds to those before it.  An attribute that is added claims
\* its UUID here, and so goes without it where the twin does.
Twin(objects) ==
    LET rank == CHOOSE r \in [objects -> 1..Cardinality(objects)] : IsInjective(r)
        Before(o) == {p \in objects : rank[p] < rank[o]}
        first == CHOOSE o \in objects : Before(o) = {}
        more  == objects \ {first}
        Added(o) == NewTo(UNION {p.attributes : p \in Before(o)}, o.attributes)
        Value(f, empty) ==
            LET filled == {o \in objects : o[f] # empty}
            IN  IF filled = {} THEN empty
                ELSE (CHOOSE o \in filled : Before(o) \cap filled = {})[f]
    IN  [object |-> [WithMetadata(first, Value) EXCEPT
            !.attributes = @ \cup {[a EXCEPT !.uuid = Null] : a \in UNION {Added(o) : o \in more}},
            !.references = @ \cup UNION {
                NewReferences(UNION {p.references : p \in Before(o)}, o.references) : o \in more}],
         claimed |-> Uuids(UNION {Added(o) : o \in more})]

Named(objects, u) == {o \in objects : o.uuid = u}
NamesOf(objects)  == {o.uuid : o \in objects} \ {Null}
TwinOf(proposed, u) == Twin(Named(proposed.objects, u))
\* Of the destination's own duplicates the canonically first one.
Mine(destination, u) == CHOOSE o \in Named(destination.objects, u) : TRUE

ClaimedByTwins(proposed) == UNION {TwinOf(proposed, u).claimed : u \in NamesOf(proposed.objects)}

Paired(destination, proposed) == NamesOf(proposed.objects) \cap NamesOf(destination.objects)
PairedOffers(destination, proposed) ==
    UNION {LET mine == Mine(destination, u)
           IN  {mine} \X NewTo(mine.attributes, TwinOf(proposed, u).object.attributes) :
                u \in Paired(destination, proposed)}

PairedObjects(destination, proposed, taken) ==
    LET kept == Reserve(PairedOffers(destination, proposed), taken)
        Gain(object) == {kept[x] : x \in {y \in DOMAIN kept : y[1] = object}}
        Mines == {Mine(destination, u) : u \in Paired(destination, proposed)}
    IN  (destination.objects \ Mines)
            \cup {MergeObject(o, TwinOf(proposed, o.uuid).object, Gain(o)) : o \in Mines}

\* Blind to the UUIDs that Reserve may take from attributes.
AdoptionKey(object) == [object EXCEPT !.attributes = {[a EXCEPT !.uuid = Null] : a \in @}]

Leftovers(destination, proposed) ==
    {TwinOf(proposed, u).object : u \in NamesOf(proposed.objects) \ NamesOf(destination.objects)}
        \cup Named(proposed.objects, Null)

AdoptedObjects(objects, taken) ==
    LET kept == Reserve(UNION {{o} \X o.attributes : o \in objects}, taken)
    IN  {[o EXCEPT !.attributes = {kept[<<o, a>>] : a \in @}] : o \in objects}

MergeObjects(destination, proposed, taken) ==
    LET known  == taken \cup ClaimedByTwins(proposed)
        merged == PairedObjects(destination, proposed, known)
        others == {o \in Leftovers(destination, proposed) :
                    AdoptionKey(o) \notin {AdoptionKey(p) : p \in merged}}
    IN  merged \cup AdoptedObjects(others, known \cup Claimed(PairedOffers(destination, proposed)))

-----------------------------------------------------------------------------
(* The other dimensions.                                                   *)

MergeGalaxies(destination, proposed) ==
    LET Identity(g) == IF g.uuid = Null THEN <<"name", g.name>> ELSE <<"uuid", g.uuid>>
        Sharing(galaxies, id) == {g \in galaxies : Identity(g) = id}
        Whole(id) ==
            LET mine == Sharing(destination, id) \cup Sharing(proposed, id)
                own  == IF Sharing(destination, id) # {} THEN Sharing(destination, id)
                        ELSE Sharing(proposed, id)
            IN  [CHOOSE g \in own : TRUE EXCEPT !.clusters = UNION {g.clusters : g \in mine}]
    IN  {Whole(Identity(g)) : g \in destination \cup proposed}

MergeTags(destination, proposed) ==
    destination \cup {t \in proposed : t[1] \notin Folded(destination)}

\* _united(): as many of each as the side that has more.
AddsAll(destination, proposed) == destination (+) proposed      \* mutant
United(destination, proposed) == destination (+) (proposed (-) destination)

MergedEvent(destination, proposed) ==
    LET taken == Uuids(AllAttributes(destination))
        loose == LooseOffers(destination, proposed)
    IN  [destination EXCEPT
            !.attributes = @ \cup Range(Reserve(loose, taken)),
            !.objects = MergeObjects(destination, proposed, taken \cup Claimed(loose)),
            !.galaxies = MergeGalaxies(@, proposed.galaxies),
            !.tags = MergeTags(@, proposed.tags),
            !.sightings = United(@, proposed.sightings),
            !.proposals = United(@, proposed.proposals)]

-----------------------------------------------------------------------------
(* renumber_event(): what had the UUID u gets fresh[u], and what had none   *)
(* gets one too; those alike in every field get the same.                  *)

OwnUuids(event) ==
    {event.uuid} \cup {a.uuid : a \in AllAttributes(event)} \cup {o.uuid : o \in event.objects}
        \cup {s.uuid : s \in BagToSet(event.sightings)}
        \cup {p.uuid : p \in BagToSet(event.proposals)}
        \cup {r.uuid : r \in UNION {o.references : o \in event.objects}}

RenumberedEvent(event, fresh) ==
    LET Mapped(u) == IF u \in OwnUuids(event) \ {Null} THEN fresh[u] ELSE u
        Renamed(attributes) == {[a EXCEPT !.uuid = fresh[@]] : a \in attributes}
    IN  [event EXCEPT
            !.uuid = fresh[@],
            !.attributes = Renamed(@),
            !.objects = {[o EXCEPT !.uuid = fresh[@], !.attributes = Renamed(@),
                            !.references = {[r EXCEPT !.uuid = fresh[@],
                                                      !.target = Mapped(@)] : r \in @}] : o \in @},
            !.sightings = BagOfAll(LAMBDA s : [s EXCEPT !.uuid = fresh[@],
                                                        !.attribute = Mapped(@)], @),
            !.proposals = BagOfAll(LAMBDA p : [p EXCEPT !.uuid = fresh[@]], @)]
=============================================================================
