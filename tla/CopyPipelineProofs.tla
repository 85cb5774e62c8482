------------------------- MODULE CopyPipelineProofs -------------------------
(***************************************************************************)
(* What the policy engine lets out and tells, what the diff calls          *)
(* equivalent, and what merges and renumbered copies make of a server's    *)
(* events, for any policies and any events as a server keeps them.         *)
(***************************************************************************)
EXTENDS CopyPipeline, FiniteSetTheorems, TLAPS

-----------------------------------------------------------------------------
(* What a rule of a policy may make of an event.                           *)

IsPolicy(rules) == {rules.maximum, rules.maxAttachment} \subseteq Nat

\* A level that is on the scale is no wider than the policy's maximum.
Narrow(rules, level) == level \in 0..3 => level <= rules.maximum

\* An attribute that a rule made of another: it is the same one, with its markings,
\* and nothing that another rule took away is back.
FromAttribute(rules, a, b) ==
    /\ IsAttribute(a)
    /\ a.uuid = b.uuid /\ a.type = b.type /\ a.tags = b.tags
    /\ a.value = b.value \/ (~Matches(rules, a.value) /\ a.data = 0)
    /\ \/ a.comment = b.comment
       \/ ~Matches(rules, a.comment) /\ (rules.removeComments \/ a.data = 0)
    /\ a.data \in {b.data, 0}
    /\ a.distribution = b.distribution \/ Narrow(rules, a.distribution)

FromAttributes(rules, after, before) ==
    \A a \in after : \E b \in before : FromAttribute(rules, a, b)

FromObject(rules, o, p) ==
    /\ HasFields(o, DOMAIN Object) /\ o.distribution \in Nat
    /\ o.uuid = p.uuid /\ o.name = p.name /\ o.references = p.references
    /\ o.comment = p.comment \/ ~Matches(rules, o.comment)
    /\ o.distribution = p.distribution \/ Narrow(rules, o.distribution)
    /\ FromAttributes(rules, o.attributes, p.attributes)

\* What no rule touches.
SameBeside(after, before) ==
    /\ after.uuid = before.uuid /\ after.galaxies = before.galaxies
    /\ after.sightings = before.sightings /\ after.proposals = before.proposals

Follows(rules, after, before) ==
    /\ HasFields(after, DOMAIN Blank) /\ after.distribution \in Nat
    /\ OneOfEach(after)
    /\ after.tags = before.tags /\ SameBeside(after, before)
    /\ after.info = before.info \/ ~Matches(rules, after.info)
    /\ after.distribution = before.distribution \/ Narrow(rules, after.distribution)
    /\ FromAttributes(rules, after.attributes, before.attributes)
    /\ \A o \in after.objects : \E p \in before.objects : FromObject(rules, o, p)

\* What the rules are there for.
Without(event, types) == \A a \in AllAttributes(event) : a.type \notin types
Narrowed(rules, event) ==
    /\ Narrow(rules, event.distribution)
    /\ \A m \in AllAttributes(event) \cup event.objects : Narrow(rules, m.distribution)
Censored(rules, event) ==
    /\ ~Matches(rules, event.info)
    /\ \A a \in AllAttributes(event) : ~Matches(rules, a.value)
    /\ \A m \in AllAttributes(event) \cup event.objects : ~Matches(rules, m.comment)

\* Everything is where it was, under the UUID that it had.
Stays(after, before) ==
    /\ SameBeside(after, before)
    /\ \A o \in after.objects : \E p \in before.objects : o.uuid = p.uuid /\ o.references = p.references
    /\ \A x \in Members(after) : \E y \in Members(before) : x[1] = y[1] /\ x[2].uuid = y[2].uuid

\* The attributes of an event are those of its members.
LEMMA MembersAll ==
    ASSUME NEW e
    PROVE  /\ \A a \in AllAttributes(e) : \E x \in Members(e) : x[2] = a
           /\ \A x \in Members(e) : x[2] \in AllAttributes(e) /\ x = <<x[1], x[2]>>
<1>1. ASSUME NEW a \in AllAttributes(e) PROVE \E x \in Members(e) : x[2] = a
  <2>1. CASE a \in e.attributes
    <3>1. <<Null, a>> \in Members(e)
      BY <2>1 DEF Members
    <3> QED BY <3>1
  <2>2. ASSUME NEW o \in e.objects, a \in o.attributes PROVE \E x \in Members(e) : x[2] = a
    <3>1. <<o.uuid, a>> \in Members(e)
      BY <2>2 DEF Members
    <3> QED BY <3>1
  <2> QED BY <2>1, <2>2 DEF AllAttributes
<1> QED BY <1>1 DEF Members, AllAttributes

\* What follows from what follows from an event follows from it.
LEMMA FollowsOn ==
    ASSUME NEW rules, NEW x, NEW y, NEW z, Follows(rules, y, x), Follows(rules, z, y)
    PROVE  Follows(rules, z, x)
<1>1. ASSUME NEW a, NEW b, NEW c, FromAttribute(rules, a, b), FromAttribute(rules, b, c)
      PROVE  FromAttribute(rules, a, c)
  BY <1>1 DEF FromAttribute
<1>2. ASSUME NEW a, NEW b, NEW c, FromAttributes(rules, a, b), FromAttributes(rules, b, c)
      PROVE  FromAttributes(rules, a, c)
  BY <1>1, <1>2 DEF FromAttributes
<1>3. ASSUME NEW a, NEW b, NEW c, FromObject(rules, a, b), FromObject(rules, b, c)
      PROVE  FromObject(rules, a, c)
  BY <1>2, <1>3 DEF FromObject
<1> QED BY <1>2, <1>3 DEF Follows, SameBeside

\* What keeps its UUID is no more than what it was made of.
LEMMA NoMore ==
    ASSUME NEW S, NEW T, IsFiniteSet(T),
           \A a \in S : \E b \in T : a.uuid = b.uuid,
           \A a, b \in S : a.uuid = b.uuid => a = b
    PROVE  IsFiniteSet(S) /\ Cardinality(S) <= Cardinality(T)
<1> DEFINE f == [a \in S |-> CHOOSE b \in T : a.uuid = b.uuid]
<1>1. \A a \in S : f[a] \in T /\ f[a].uuid = a.uuid
  OBVIOUS
<1>2. f \in [S -> T]
  BY <1>1
<1> HIDE DEF f
<1>3. f \in Injection(S, T)
  BY <1>1, <1>2 DEF Injection, IsInjective
<1> QED BY <1>3, FS_Injection

\* What follows from an event is an event, with everything where it was.
LEMMA FollowsAll ==
    ASSUME NEW rules, NEW e, IsEvent(e), NEW r, Follows(rules, r, e)
    PROVE  /\ IsEvent(r) /\ OneOfEach(r) /\ Stays(r, e)
           /\ FromAttributes(rules, AllAttributes(r), AllAttributes(e))
<1>1. FromAttributes(rules, AllAttributes(r), AllAttributes(e))
  BY DEF Follows, FromObject, FromAttributes, AllAttributes
<1>2. \A a, b \in AllAttributes(r) : a.uuid = b.uuid => a = b
  BY DEF Follows, OneOfEach
<1>3. ASSUME NEW S, NEW T, S \subseteq AllAttributes(r), IsFiniteSet(T), FromAttributes(rules, S, T)
      PROVE  IsFiniteSet(S) /\ \A a \in S : IsAttribute(a)
  BY <1>2, <1>3, NoMore DEF FromAttributes, FromAttribute
<1>4. IsFiniteSet(r.attributes) /\ \A a \in r.attributes : IsAttribute(a)
  BY <1>3 DEF Follows, IsEvent, AllAttributes
<1>5. ASSUME NEW o \in r.objects PROVE IsObject(o)
  <2>1. PICK p \in e.objects : FromObject(rules, o, p)
    BY DEF Follows
  <2>2. IsFiniteSet(o.attributes) /\ \A a \in o.attributes : IsAttribute(a)
    BY <1>3, <2>1 DEF IsEvent, IsObject, FromObject, AllAttributes
  <2> QED BY <2>1, <2>2 DEF FromObject, IsObject, IsEvent
<1>6. IsFiniteSet(r.objects)
  <2>1. \A o \in r.objects : \E p \in e.objects : o.uuid = p.uuid
    BY DEF Follows, FromObject
  <2> QED BY <2>1, NoMore DEF Follows, OneOfEach, IsEvent
<1>7. Stays(r, e)
  <2>1. ASSUME NEW x \in Members(r)
        PROVE  \E y \in Members(e) : x[1] = y[1] /\ x[2].uuid = y[2].uuid
    <3>1. CASE x \in {Null} \X r.attributes
      <4>1. PICK b \in e.attributes : x[2].uuid = b.uuid
        BY <3>1 DEF Follows, FromAttributes, FromAttribute
      <4>2. <<Null, b>> \in Members(e)
        BY DEF Members
      <4> QED BY <3>1, <4>1, <4>2
    <3>2. ASSUME NEW o \in r.objects, x \in {o.uuid} \X o.attributes
          PROVE  \E y \in Members(e) : x[1] = y[1] /\ x[2].uuid = y[2].uuid
      <4>1. PICK p \in e.objects : FromObject(rules, o, p)
        BY DEF Follows
      <4>2. PICK b \in p.attributes : x[2].uuid = b.uuid
        BY <3>2, <4>1 DEF FromObject, FromAttributes, FromAttribute
      <4>3. <<p.uuid, b>> \in Members(e)
        BY DEF Members
      <4> QED BY <3>2, <4>1, <4>2, <4>3 DEF FromObject
    <3> QED BY <3>1, <3>2 DEF Members
  <2> QED BY <2>1 DEF Stays, Follows, FromObject
<1> QED BY <1>1, <1>4, <1>5, <1>6, <1>7 DEF Follows, IsEvent, SameBeside

\* What a rule took away stays away under the rules after it.
LEMMA Inherits ==
    ASSUME NEW rules, NEW e, IsEvent(e), NEW r, Follows(rules, r, e)
    PROVE  /\ \A types : Without(e, types) => Without(r, types)
           /\ Narrowed(rules, e) => Narrowed(rules, r)
           /\ Censored(rules, e) => Censored(rules, r)
<1>1. \A a \in AllAttributes(r) : \E b \in AllAttributes(e) : FromAttribute(rules, a, b)
  BY FollowsAll DEF FromAttributes
<1>2. \A o \in r.objects : \E p \in e.objects : FromObject(rules, o, p)
  BY DEF Follows
<1>3. \A types : Without(e, types) => Without(r, types)
  BY <1>1 DEF Without, FromAttribute
<1>4. Narrowed(rules, e) => Narrowed(rules, r)
  BY <1>1, <1>2 DEF Narrowed, FromAttribute, FromObject, Follows
<1>5. Censored(rules, e) => Censored(rules, r)
  BY <1>1, <1>2 DEF Censored, FromAttribute, FromObject, Follows
<1> QED BY <1>3, <1>4, <1>5

-----------------------------------------------------------------------------
(* The rules one by one.                                                   *)

\* An attribute that is left alone.
LEMMA SameAttribute == ASSUME NEW rules, NEW a, IsAttribute(a) PROVE FromAttribute(rules, a, a)
BY DEF FromAttribute

\* No attribute of a dropped type is left.
LEMMA TypesDropped ==
    ASSUME NEW rules, NEW e, IsEvent(e), OneOfEach(e), NEW types
    PROVE  Follows(rules, DropTypes(e, types), e) /\ Without(DropTypes(e, types), types)
<1> DEFINE r == DropTypes(e, types)
           Kept(attributes) == {a \in attributes : a.type \notin types}
           O(o) == [o EXCEPT !.attributes = Kept(o.attributes)]
<1>1. /\ r.attributes = Kept(e.attributes) /\ r.objects = {O(o) : o \in e.objects}
      /\ HasFields(r, DOMAIN Blank) /\ r.tags = e.tags /\ SameBeside(r, e)
      /\ r.info = e.info /\ r.distribution = e.distribution
  BY DEF DropTypes, IsEvent, Blank, HasFields, SameBeside
<1>2. ASSUME NEW o, IsObject(o) PROVE FromObject(rules, O(o), o) /\ O(o).attributes = Kept(o.attributes)
  BY <1>2, SameAttribute DEF IsObject, Object, HasFields, FromObject, FromAttributes
<1> HIDE DEF r, O
<1>o. OneOfEach(r)
  <2>1. AllAttributes(r) \subseteq AllAttributes(e)
    BY <1>1, <1>2 DEF AllAttributes, IsEvent
  <2>2. ASSUME NEW o \in e.objects, NEW p \in e.objects, O(o).uuid = O(p).uuid PROVE o = p
    BY <1>2, <2>2 DEF OneOfEach, IsEvent, FromObject
  <2> QED BY <1>1, <2>1, <2>2 DEF OneOfEach
<1>3. Follows(rules, r, e)
  BY <1>o, <1>1, <1>2, SameAttribute DEF Follows, FromAttributes, IsEvent
<1>4. Without(r, types)
  BY <1>1, <1>2 DEF Without, AllAttributes, IsEvent
<1> QED BY <1>3, <1>4 DEF r

\* Removing comments brings nothing back.
LEMMA CommentsRemoved ==
    ASSUME NEW rules, NEW e, IsEvent(e), OneOfEach(e)
    PROVE  Follows(rules, RemoveComments(rules, e), e)
<1> DEFINE r == RemoveComments(rules, e)
           F(x) == IF rules.removeComments THEN [x EXCEPT !.comment = ""] ELSE x
           O(o) == F([o EXCEPT !.attributes = {F(a) : a \in o.attributes}])
<1>1. /\ r.attributes = {F(a) : a \in e.attributes} /\ r.objects = {O(o) : o \in e.objects}
      /\ HasFields(r, DOMAIN Blank) /\ r.tags = e.tags /\ SameBeside(r, e)
      /\ r.info = e.info /\ r.distribution = e.distribution
  <2> DEFINE x == EachAttribute(e, F)
  <2>1. /\ x.attributes = {F(a) : a \in e.attributes}
        /\ x.objects = {[o EXCEPT !.attributes = {F(a) : a \in o.attributes}] : o \in e.objects}
        /\ HasFields(x, DOMAIN Blank) /\ x.tags = e.tags /\ SameBeside(x, e)
        /\ x.info = e.info /\ x.distribution = e.distribution
    BY DEF EachAttribute, IsEvent, Blank, HasFields, SameBeside
  <2>2. r = EachObject(x, F)
    BY DEF RemoveComments
  <2> HIDE DEF x, r
  <2>3. /\ r.attributes = x.attributes /\ r.objects = {F(o) : o \in x.objects}
        /\ HasFields(r, DOMAIN Blank) /\ r.tags = x.tags /\ SameBeside(r, x)
        /\ r.info = x.info /\ r.distribution = x.distribution
    BY <2>1, <2>2 DEF EachObject, Blank, HasFields, SameBeside
  <2>4. r.objects = {O(o) : o \in e.objects}
    <3> HIDE DEF F
    <3> QED BY <2>1, <2>3
  <2> QED BY <2>1, <2>3, <2>4 DEF SameBeside
<1>2. ASSUME NEW a, IsAttribute(a) PROVE FromAttribute(rules, F(a), a)
  BY <1>2 DEF IsAttribute, Attribute, HasFields, FromAttribute, Matches
<1>3. ASSUME NEW o, IsObject(o)
      PROVE  /\ HasFields(O(o), DOMAIN Object) /\ O(o).uuid = o.uuid /\ O(o).references = o.references
             /\ O(o).attributes = {F(a) : a \in o.attributes}
             /\ O(o).name = o.name /\ O(o).distribution = o.distribution
             /\ O(o).comment = o.comment \/ ~Matches(rules, O(o).comment)
  BY <1>3 DEF IsObject, Object, HasFields, Matches
<1> HIDE DEF F, r, O
<1>4. ASSUME NEW o, IsObject(o) PROVE FromObject(rules, O(o), o)
  BY <1>2, <1>3, <1>4 DEF FromObject, FromAttributes, IsObject
<1>u. AllAttributes(r) = {F(a) : a \in AllAttributes(e)} /\ \A a \in AllAttributes(e) : IsAttribute(a)
  BY <1>1, <1>3 DEF AllAttributes, IsEvent, IsObject
<1>o. OneOfEach(r)
  BY <1>1, <1>3, <1>2, <1>u DEF OneOfEach, FromAttribute, IsEvent
<1>5. Follows(rules, r, e)
  BY <1>o, <1>1, <1>2, <1>4 DEF Follows, FromAttributes, IsEvent
<1> QED BY <1>5 DEF r

\* Setting the published flag brings nothing back.
LEMMA PublishedSet ==
    ASSUME NEW rules, NEW e, IsEvent(e), OneOfEach(e)
    PROVE  Follows(rules, SetPublished(rules, e), e)
<1> DEFINE r == SetPublished(rules, e)
<1>1. /\ r.attributes = e.attributes /\ r.objects = e.objects
      /\ HasFields(r, DOMAIN Blank) /\ r.tags = e.tags /\ SameBeside(r, e)
      /\ r.info = e.info /\ r.distribution = e.distribution
  BY DEF SetPublished, IsEvent, Blank, HasFields, SameBeside
<1> HIDE DEF r
<1>o. OneOfEach(r)
  BY <1>1 DEF OneOfEach, AllAttributes
<1>2. Follows(rules, r, e)
  BY <1>o, <1>1, SameAttribute DEF Follows, FromAttributes, FromObject, IsEvent, IsObject
<1> QED BY <1>2 DEF r

\* Mapping the organisation brings nothing back.
LEMMA OrganisationMapped ==
    ASSUME NEW rules, NEW e, IsEvent(e), OneOfEach(e)
    PROVE  Follows(rules, MapOrganisation(rules, e), e)
<1> DEFINE r == MapOrganisation(rules, e)
<1>1. /\ r.attributes = e.attributes /\ r.objects = e.objects
      /\ HasFields(r, DOMAIN Blank) /\ r.tags = e.tags /\ SameBeside(r, e)
      /\ r.info = e.info /\ r.distribution = e.distribution
  BY DEF MapOrganisation, IsEvent, Blank, HasFields, SameBeside
<1> HIDE DEF r
<1>o. OneOfEach(r)
  BY <1>1 DEF OneOfEach, AllAttributes
<1>2. Follows(rules, r, e)
  BY <1>o, <1>1, SameAttribute DEF Follows, FromAttributes, FromObject, IsEvent, IsObject
<1> QED BY <1>2 DEF r

\* No level on the scale is wider than the maximum.
LEMMA DistributionClamped ==
    ASSUME NEW rules, NEW e, IsEvent(e), OneOfEach(e), rules.maximum \in Nat
    PROVE  Follows(rules, ClampDistribution(rules, e), e) /\ Narrowed(rules, ClampDistribution(rules, e))
<1> DEFINE r == ClampDistribution(rules, e)
           F(x) == [x EXCEPT !.distribution = Clamped(rules, x.distribution)]
           O(o) == F([o EXCEPT !.attributes = {F(a) : a \in o.attributes}])
<1>1. /\ r.attributes = {F(a) : a \in e.attributes} /\ r.objects = {O(o) : o \in e.objects}
      /\ HasFields(r, DOMAIN Blank) /\ r.tags = e.tags /\ SameBeside(r, e)
      /\ r.info = e.info /\ r.distribution = Clamped(rules, e.distribution)
  <2> DEFINE x == EachAttribute(e, F)
             y == EachObject(x, F)
  <2>1. /\ x.attributes = {F(a) : a \in e.attributes}
        /\ x.objects = {[o EXCEPT !.attributes = {F(a) : a \in o.attributes}] : o \in e.objects}
        /\ HasFields(x, DOMAIN Blank) /\ x.tags = e.tags /\ SameBeside(x, e)
        /\ x.info = e.info /\ x.distribution = e.distribution
    BY DEF EachAttribute, IsEvent, Blank, HasFields, SameBeside
  <2>2. /\ y.attributes = x.attributes
        /\ y.objects = {F(o) : o \in x.objects}
        /\ HasFields(y, DOMAIN Blank) /\ y.tags = x.tags /\ SameBeside(y, x)
        /\ y.info = x.info /\ y.distribution = x.distribution
    BY <2>1 DEF EachObject, IsEvent, Blank, HasFields, SameBeside
  <2>3. y.objects = {O(o) : o \in e.objects}
    <3> HIDE DEF x, y, r, F
    <3> QED BY <2>1, <2>2
  <2>4. r = F(y)
    BY DEF ClampDistribution
  <2> HIDE DEF x, y, r, O
  <2> QED BY <2>1, <2>2, <2>3, <2>4 DEF IsEvent, Blank, HasFields, SameBeside
<1>2. ASSUME NEW level \in Nat
      PROVE  Clamped(rules, level) \in Nat /\ Narrow(rules, Clamped(rules, level))
  BY DEF Clamped, Narrow
<1>3. ASSUME NEW a, IsAttribute(a)
      PROVE  FromAttribute(rules, F(a), a) /\ Narrow(rules, F(a).distribution)
  BY <1>2, <1>3 DEF IsAttribute, Attribute, HasFields, FromAttribute
<1>4. ASSUME NEW o, IsObject(o)
      PROVE  /\ HasFields(O(o), DOMAIN Object) /\ O(o).uuid = o.uuid /\ O(o).references = o.references
             /\ O(o).attributes = {F(a) : a \in o.attributes}
             /\ O(o).name = o.name /\ O(o).comment = o.comment
             /\ O(o).distribution = Clamped(rules, o.distribution)
  BY <1>4 DEF IsObject, Object, HasFields
<1> HIDE DEF F, r, O
<1>5. ASSUME NEW o, IsObject(o)
      PROVE  /\ FromObject(rules, O(o), o) /\ Narrow(rules, O(o).distribution)
             /\ \A a \in O(o).attributes : Narrow(rules, a.distribution)
  BY <1>2, <1>3, <1>4, <1>5 DEF FromObject, FromAttributes, IsObject
<1>u. AllAttributes(r) = {F(a) : a \in AllAttributes(e)} /\ \A a \in AllAttributes(e) : IsAttribute(a)
  BY <1>1, <1>4 DEF AllAttributes, IsEvent, IsObject
<1>o. OneOfEach(r)
  BY <1>1, <1>4, <1>3, <1>u DEF OneOfEach, FromAttribute, IsEvent
<1>6. Follows(rules, r, e)
  BY <1>o, <1>1, <1>2, <1>3, <1>5 DEF Follows, FromAttributes, IsEvent
<1>7. Narrowed(rules, r)
  BY <1>1, <1>2, <1>3, <1>5 DEF Narrowed, AllAttributes, IsEvent
<1> QED BY <1>6, <1>7 DEF r

\* Mapping sharing groups brings nothing back.
LEMMA SharingGroupsMapped ==
    ASSUME NEW rules, NEW e, IsEvent(e), OneOfEach(e)
    PROVE  Follows(rules, MapSharingGroups(rules, e), e)
<1> DEFINE r == MapSharingGroups(rules, e)
           F(x) == [x EXCEPT !.sharing = Through(rules.groups, x.sharing)]
           O(o) == F([o EXCEPT !.attributes = {F(a) : a \in o.attributes}])
<1>1. /\ r.attributes = {F(a) : a \in e.attributes} /\ r.objects = {O(o) : o \in e.objects}
      /\ HasFields(r, DOMAIN Blank) /\ r.tags = e.tags /\ SameBeside(r, e)
      /\ r.info = e.info /\ r.distribution = e.distribution
  <2> DEFINE x == EachAttribute(e, F)
             y == EachObject(x, F)
  <2>1. /\ x.attributes = {F(a) : a \in e.attributes}
        /\ x.objects = {[o EXCEPT !.attributes = {F(a) : a \in o.attributes}] : o \in e.objects}
        /\ HasFields(x, DOMAIN Blank) /\ x.tags = e.tags /\ SameBeside(x, e)
        /\ x.info = e.info /\ x.distribution = e.distribution
    BY DEF EachAttribute, IsEvent, Blank, HasFields, SameBeside
  <2>2. /\ y.attributes = x.attributes
        /\ y.objects = {F(o) : o \in x.objects}
        /\ HasFields(y, DOMAIN Blank) /\ y.tags = x.tags /\ SameBeside(y, x)
        /\ y.info = x.info /\ y.distribution = x.distribution
    BY <2>1 DEF EachObject, IsEvent, Blank, HasFields, SameBeside
  <2>3. y.objects = {O(o) : o \in e.objects}
    <3> HIDE DEF x, y, r, F
    <3> QED BY <2>1, <2>2
  <2>4. r = F(y)
    BY DEF MapSharingGroups
  <2> HIDE DEF x, y, r, O
  <2> QED BY <2>1, <2>2, <2>3, <2>4 DEF IsEvent, Blank, HasFields, SameBeside
<1>2. ASSUME NEW a, IsAttribute(a) PROVE FromAttribute(rules, F(a), a)
  BY <1>2 DEF IsAttribute, Attribute, HasFields, FromAttribute
<1>3. ASSUME NEW o, IsObject(o)
      PROVE  /\ HasFields(O(o), DOMAIN Object) /\ O(o).uuid = o.uuid /\ O(o).references = o.references
             /\ O(o).attributes = {F(a) : a \in o.attributes}
             /\ O(o).name = o.name /\ O(o).comment = o.comment
             /\ O(o).distribution = o.distribution
  BY <1>3 DEF IsObject, Object, HasFields
<1> HIDE DEF F, r, O
<1>4. ASSUME NEW o, IsObject(o) PROVE FromObject(rules, O(o), o)
  BY <1>2, <1>3, <1>4 DEF FromObject, FromAttributes, IsObject
<1>u. AllAttributes(r) = {F(a) : a \in AllAttributes(e)} /\ \A a \in AllAttributes(e) : IsAttribute(a)
  BY <1>1, <1>3 DEF AllAttributes, IsEvent, IsObject
<1>o. OneOfEach(r)
  BY <1>1, <1>3, <1>2, <1>u DEF OneOfEach, FromAttribute, IsEvent
<1>5. Follows(rules, r, e)
  BY <1>o, <1>1, <1>2, <1>4 DEF Follows, FromAttributes, IsEvent
<1> QED BY <1>5 DEF r

\* Setting to_ids brings nothing back.
LEMMA ToIdsSet ==
    ASSUME NEW rules, NEW e, IsEvent(e), OneOfEach(e)
    PROVE  Follows(rules, SetToIds(rules, e), e)
<1> DEFINE r == SetToIds(rules, e)
           F(a) == IF rules.setToIds = {} THEN a
                   ELSE [a EXCEPT !.toIds = CHOOSE b \in rules.setToIds : TRUE]
           O(o) == [o EXCEPT !.attributes = {F(a) : a \in o.attributes}]
<1>1. /\ r.attributes = {F(a) : a \in e.attributes} /\ r.objects = {O(o) : o \in e.objects}
      /\ HasFields(r, DOMAIN Blank) /\ r.tags = e.tags /\ SameBeside(r, e)
      /\ r.info = e.info /\ r.distribution = e.distribution
  BY DEF SetToIds, EachAttribute, IsEvent, Blank, HasFields, SameBeside
<1>2. ASSUME NEW a, IsAttribute(a) PROVE FromAttribute(rules, F(a), a)
  BY <1>2 DEF IsAttribute, Attribute, HasFields, FromAttribute
<1>3. ASSUME NEW o, IsObject(o)
      PROVE  /\ HasFields(O(o), DOMAIN Object) /\ O(o).uuid = o.uuid /\ O(o).references = o.references
             /\ O(o).attributes = {F(a) : a \in o.attributes}
             /\ O(o).name = o.name /\ O(o).comment = o.comment
             /\ O(o).distribution = o.distribution
  BY <1>3 DEF IsObject, Object, HasFields
<1> HIDE DEF F, r, O
<1>4. ASSUME NEW o, IsObject(o) PROVE FromObject(rules, O(o), o)
  BY <1>2, <1>3, <1>4 DEF FromObject, FromAttributes, IsObject
<1>u. AllAttributes(r) = {F(a) : a \in AllAttributes(e)} /\ \A a \in AllAttributes(e) : IsAttribute(a)
  BY <1>1, <1>3 DEF AllAttributes, IsEvent, IsObject
<1>o. OneOfEach(r)
  BY <1>1, <1>3, <1>2, <1>u DEF OneOfEach, FromAttribute, IsEvent
<1>5. Follows(rules, r, e)
  BY <1>o, <1>1, <1>2, <1>4 DEF Follows, FromAttributes, IsEvent
<1> QED BY <1>5 DEF r

\* Whatever is redacted loses its body, as the value that named it was.
LEMMA RedactionsApplied ==
    ASSUME NEW rules, NEW e, IsEvent(e), OneOfEach(e)
    PROVE  LET r == ApplyRedactions(rules, e)
           IN  /\ Follows(rules, r, e) /\ Censored(rules, r)
               /\ \A a \in AllAttributes(r) : \E b \in AllAttributes(e) :
                    /\ FromAttribute(rules, a, b)
                    /\ Matches(rules, b.value) \/ Matches(rules, b.comment) => a.data = 0
<1> DEFINE r == ApplyRedactions(rules, e)
           F(a) == RedactAttribute(rules, a)
           G(o) == [o EXCEPT !.attributes = {F(a) : a \in o.attributes}]
           O(o) == [G(o) EXCEPT !.comment = Redact(rules, @)]
<1>1. /\ r.attributes = {F(a) : a \in e.attributes} /\ r.objects = {O(o) : o \in e.objects}
      /\ HasFields(r, DOMAIN Blank) /\ r.tags = e.tags /\ SameBeside(r, e)
      /\ r.info = Redact(rules, e.info) /\ r.distribution = e.distribution
  <2> DEFINE x == EachAttribute(e, F)
             y == EachObject(x, LAMBDA o : [o EXCEPT !.comment = Redact(rules, @)])
  <2>1. /\ x.attributes = {F(a) : a \in e.attributes}
        /\ x.objects = {[o EXCEPT !.attributes = {F(a) : a \in o.attributes}] : o \in e.objects}
        /\ HasFields(x, DOMAIN Blank) /\ x.tags = e.tags /\ SameBeside(x, e)
        /\ x.info = e.info /\ x.distribution = e.distribution
    BY DEF EachAttribute, IsEvent, Blank, HasFields, SameBeside
  <2>2. /\ y.attributes = x.attributes
        /\ y.objects = {[o EXCEPT !.comment = Redact(rules, @)] : o \in x.objects}
        /\ HasFields(y, DOMAIN Blank) /\ y.tags = x.tags /\ SameBeside(y, x)
        /\ y.info = x.info /\ y.distribution = x.distribution
    BY <2>1 DEF EachObject, IsEvent, Blank, HasFields, SameBeside
  <2>3. y.objects = {O(o) : o \in e.objects}
    <3> HIDE DEF x, y, r, F
    <3> QED BY <2>1, <2>2
  <2>4. r = [y EXCEPT !.info = Redact(rules, @)]
    BY DEF ApplyRedactions
  <2> HIDE DEF x, y, r, O
  <2> QED BY <2>1, <2>2, <2>3, <2>4 DEF IsEvent, Blank, HasFields, SameBeside
<1>2. ASSUME NEW text
      PROVE  /\ ~Matches(rules, Redact(rules, text))
             /\ ~Matches(rules, text) => Redact(rules, text) = text
  BY DEF Redact, Matches
<1>3. ASSUME NEW a, IsAttribute(a)
      PROVE  /\ FromAttribute(rules, F(a), a)
             /\ Matches(rules, a.value) \/ Matches(rules, a.comment) => F(a).data = 0
             /\ ~Matches(rules, F(a).value) /\ ~Matches(rules, F(a).comment)
  <2>1. /\ HasFields(F(a), DOMAIN Attribute) /\ F(a).uuid = a.uuid /\ F(a).type = a.type
        /\ F(a).tags = a.tags /\ F(a).distribution = a.distribution
        /\ F(a).value = Redact(rules, a.value) /\ F(a).comment = Redact(rules, a.comment)
        /\ F(a).data = IF Matches(rules, a.value) \/ Matches(rules, a.comment) THEN 0 ELSE a.data
    BY <1>3 DEF RedactAttribute, IsAttribute, Attribute, HasFields
  <2> HIDE DEF F
  <2> QED BY <1>2, <1>3, <2>1 DEF IsAttribute, FromAttribute, HasFields
<1>4. ASSUME NEW o, IsObject(o)
      PROVE  /\ HasFields(O(o), DOMAIN Object) /\ O(o).uuid = o.uuid /\ O(o).references = o.references
             /\ O(o).attributes = {F(a) : a \in o.attributes}
             /\ O(o).name = o.name /\ O(o).comment = Redact(rules, o.comment)
             /\ O(o).distribution = o.distribution
  BY <1>4 DEF IsObject, Object, HasFields
<1> HIDE DEF F, r, O
<1>5. ASSUME NEW o, IsObject(o) PROVE FromObject(rules, O(o), o) /\ ~Matches(rules, O(o).comment)
  BY <1>2, <1>3, <1>4, <1>5 DEF FromObject, FromAttributes, IsObject
<1>u. AllAttributes(r) = {F(a) : a \in AllAttributes(e)} /\ \A a \in AllAttributes(e) : IsAttribute(a)
  BY <1>1, <1>4 DEF AllAttributes, IsEvent, IsObject
<1>o. OneOfEach(r)
  BY <1>1, <1>4, <1>3, <1>u DEF OneOfEach, FromAttribute, IsEvent
<1>6. Follows(rules, r, e)
  BY <1>o, <1>1, <1>2, <1>3, <1>5 DEF Follows, FromAttributes, IsEvent
<1>7. AllAttributes(r) = {F(a) : a \in AllAttributes(e)}
  BY <1>1, <1>4 DEF AllAttributes, IsEvent
<1>8. \A a \in AllAttributes(e) : IsAttribute(a)
  BY DEF AllAttributes, IsEvent, IsObject
<1>9. Censored(rules, r)
  BY <1>1, <1>2, <1>3, <1>5, <1>7, <1>8 DEF Censored, IsEvent
<1>10. \A a \in AllAttributes(r) : \E b \in AllAttributes(e) :
            /\ FromAttribute(rules, a, b)
            /\ Matches(rules, b.value) \/ Matches(rules, b.comment) => a.data = 0
  BY <1>3, <1>7, <1>8
<1> QED BY <1>6, <1>9, <1>10 DEF r

\* No attachment is larger than the limit.
LEMMA AttachmentsLimited ==
    ASSUME NEW rules, NEW e, IsEvent(e), OneOfEach(e), rules.maxAttachment \in Nat
    PROVE  /\ Follows(rules, LimitAttachments(rules, e), e)
           /\ \A a \in AllAttributes(LimitAttachments(rules, e)) : a.data <= rules.maxAttachment
<1> DEFINE r == LimitAttachments(rules, e)
           F(a) == IF a.data > rules.maxAttachment THEN [a EXCEPT !.data = 0] ELSE a
           O(o) == [o EXCEPT !.attributes = {F(a) : a \in o.attributes}]
<1>1. /\ r.attributes = {F(a) : a \in e.attributes} /\ r.objects = {O(o) : o \in e.objects}
      /\ HasFields(r, DOMAIN Blank) /\ r.tags = e.tags /\ SameBeside(r, e)
      /\ r.info = e.info /\ r.distribution = e.distribution
  BY DEF LimitAttachments, EachAttribute, IsEvent, Blank, HasFields, SameBeside
<1>2. ASSUME NEW a, IsAttribute(a)
      PROVE  FromAttribute(rules, F(a), a) /\ F(a).data <= rules.maxAttachment
  BY <1>2 DEF IsAttribute, Attribute, HasFields, FromAttribute
<1>3. ASSUME NEW o, IsObject(o)
      PROVE  /\ HasFields(O(o), DOMAIN Object) /\ O(o).uuid = o.uuid /\ O(o).references = o.references
             /\ O(o).attributes = {F(a) : a \in o.attributes}
             /\ O(o).name = o.name /\ O(o).comment = o.comment
             /\ O(o).distribution = o.distribution
  BY <1>3 DEF IsObject, Object, HasFields
<1> HIDE DEF F, r, O
<1>4. ASSUME NEW o, IsObject(o) PROVE FromObject(rules, O(o), o)
  BY <1>2, <1>3, <1>4 DEF FromObject, FromAttributes, IsObject
<1>u. AllAttributes(r) = {F(a) : a \in AllAttributes(e)} /\ \A a \in AllAttributes(e) : IsAttribute(a)
  BY <1>1, <1>3 DEF AllAttributes, IsEvent, IsObject
<1>o. OneOfEach(r)
  BY <1>1, <1>3, <1>2, <1>u DEF OneOfEach, FromAttribute, IsEvent
<1>5. Follows(rules, r, e)
  BY <1>o, <1>1, <1>2, <1>4 DEF Follows, FromAttributes, IsEvent
<1>6. AllAttributes(r) = {F(a) : a \in AllAttributes(e)}
  BY <1>1, <1>3 DEF AllAttributes, IsEvent
<1>7. \A a \in AllAttributes(e) : IsAttribute(a)
  BY DEF AllAttributes, IsEvent, IsObject
<1> QED BY <1>2, <1>5, <1>6, <1>7 DEF r

-----------------------------------------------------------------------------
(* Tags.                                                                   *)

\* The renames that are made are among the renames, and add nothing that is removed.
LEMMA MadeIs ==
    ASSUME NEW removed, NEW rest, NEW renames, NEW p \in Made(removed, rest, renames)
    PROVE  p \in renames /\ p[2][1] \notin removed
<1>1. PICK q \in renames : q[2][1] \notin removed /\ p = CHOOSE s \in renames : s[2][1] = q[2][1]
  BY DEF Made
<1> QED BY <1>1

\* Nothing is left of what is removed, and what went or came is told.
LEMMA TagsGoverned ==
    ASSUME NEW rules, NEW tags
    PROVE  LET g == GovernTags(rules, tags)
           IN  /\ \A t \in g.tags : t[1] \notin rules.removeTags
               /\ \A t \in tags \ g.tags : \E act \in {"remove-tag", "rename-tag"} : <<act, t>> \in g.told
               /\ \A t \in g.tags \ tags : \E old \in tags : <<"rename-tag", old>> \in g.told
<1> DEFINE g       == GovernTags(rules, tags)
           kept    == {t \in tags : t[1] \notin rules.removeTags}
           renames == Renames(rules.renameTags, kept)
           rest    == kept \ {p[1] : p \in renames}
           made    == Made(rules.removeTags, rest, renames)
<1>1. /\ g.tags = rest \cup {p[2] : p \in made}
      /\ g.told = {<<"rename-tag", p[1]>> : p \in made}
                    \cup {<<"remove-tag", p[1]>> : p \in renames \ made}
                    \cup {<<"remove-tag", t>> : t \in tags \ kept}
  BY DEF GovernTags, Dropped
<1>2. \A p \in renames : p[1] \in kept
  BY DEF Renames
<1>3. \A p \in made : p \in renames /\ p[2][1] \notin rules.removeTags
  BY MadeIs
<1> HIDE DEF g, renames, made
<1>4. \A t \in g.tags : t[1] \notin rules.removeTags
  BY <1>1, <1>3
<1>5. ASSUME NEW t \in tags \ g.tags
      PROVE  \E act \in {"remove-tag", "rename-tag"} : <<act, t>> \in g.told
  <2>1. CASE t \notin kept
    BY <1>1, <2>1
  <2>2. CASE t \in kept
    <3>1. PICK p \in renames : p[1] = t
      BY <1>1, <1>5, <2>2
    <3> QED BY <1>1, <3>1
  <2> QED BY <2>1, <2>2
<1>6. ASSUME NEW t \in g.tags \ tags PROVE \E old \in tags : <<"rename-tag", old>> \in g.told
  <2>1. PICK p \in made : p[2] = t
    BY <1>1
  <2> QED BY <1>1, <1>2, <1>3, <2>1
<1> QED BY <1>4, <1>5, <1>6 DEF g

\* The tag rules change the tags of the event and of its attributes, and nothing else.
LEMMA EventGoverned ==
    ASSUME NEW rules, NEW e, IsEvent(e), OneOfEach(e)
    PROVE  LET g == Governed(rules, e).event
           IN  /\ IsEvent(g) /\ OneOfEach(g) /\ Stays(g, e)
               /\ g.tags = GovernTags(rules, e.tags).tags
                            \cup AddTags(rules, GovernTags(rules, e.tags).tags)
               /\ AllAttributes(g) = {[a EXCEPT !.tags = GovernTags(rules, a.tags).tags] :
                                        a \in AllAttributes(e)}
<1> DEFINE g == Governed(rules, e).event
           own  == GovernTags(rules, e.tags)
           more == AddTags(rules, own.tags)
           F(a) == [a EXCEPT !.tags = GovernTags(rules, a.tags).tags]
           O(o) == [o EXCEPT !.attributes = {F(a) : a \in o.attributes}]
           each == EachAttribute(e, F)
<1>1. /\ each.attributes = {F(a) : a \in e.attributes} /\ each.objects = {O(o) : o \in e.objects}
      /\ HasFields(each, DOMAIN Blank) /\ each.distribution = e.distribution /\ SameBeside(each, e)
  BY DEF EachAttribute, IsEvent, Blank, HasFields, SameBeside
<1>2. g = [each EXCEPT !.tags = own.tags \cup more]
  BY DEF Governed
<1>3. ASSUME NEW a, IsAttribute(a) PROVE IsAttribute(F(a)) /\ F(a).uuid = a.uuid
  BY <1>3 DEF IsAttribute, Attribute, HasFields
<1>4. ASSUME NEW o, IsObject(o)
      PROVE  /\ HasFields(O(o), DOMAIN Object) /\ O(o).uuid = o.uuid /\ O(o).references = o.references
             /\ O(o).attributes = {F(a) : a \in o.attributes} /\ O(o).distribution = o.distribution
  BY <1>4 DEF IsObject, Object, HasFields
<1> HIDE DEF g, own, more, F, O, each
<1>5. /\ g.attributes = {F(a) : a \in e.attributes} /\ g.objects = {O(o) : o \in e.objects}
      /\ HasFields(g, DOMAIN Blank) /\ g.distribution = e.distribution
      /\ g.tags = own.tags \cup more /\ SameBeside(g, e)
  BY <1>1, <1>2 DEF Blank, HasFields, SameBeside
<1>6. AllAttributes(g) = {F(a) : a \in AllAttributes(e)} /\ \A a \in AllAttributes(e) : IsAttribute(a)
  BY <1>4, <1>5 DEF AllAttributes, IsEvent, IsObject
<1>7. OneOfEach(g)
  BY <1>3, <1>4, <1>5, <1>6 DEF OneOfEach, IsEvent
<1>8. ASSUME NEW S \in SUBSET AllAttributes(e), IsFiniteSet(S)
      PROVE  IsFiniteSet({F(a) : a \in S}) /\ \A a \in {F(b) : b \in S} : IsAttribute(a)
  <2> DEFINE T == {F(a) : a \in S}
  <2>1. \A a \in T : \E b \in S : a.uuid = b.uuid
    BY <1>3, <1>6
  <2>2. \A a, b \in T : a.uuid = b.uuid => a = b
    BY <1>6, <1>7 DEF OneOfEach
  <2>3. \A a \in T : IsAttribute(a)
    BY <1>3, <1>6
  <2> HIDE DEF T
  <2>4. IsFiniteSet(T)
    BY <1>8, <2>1, <2>2, NoMore
  <2> QED BY <2>3, <2>4 DEF T
<1>9. ASSUME NEW o \in e.objects PROVE IsObject(O(o))
  <2>1. IsObject(o) /\ o.attributes \in SUBSET AllAttributes(e) /\ IsFiniteSet(o.attributes)
    BY DEF IsEvent, IsObject, AllAttributes
  <2> QED BY <1>4, <1>8, <2>1 DEF IsObject
<1>10. IsFiniteSet(g.objects)
  <2>1. \A o \in g.objects : \E p \in e.objects : o.uuid = p.uuid
    BY <1>4, <1>5 DEF IsEvent
  <2> QED BY <1>7, <2>1, NoMore DEF OneOfEach, IsEvent
<1>11. IsFiniteSet(g.attributes) /\ \A a \in g.attributes : IsAttribute(a)
  <2>1. e.attributes \in SUBSET AllAttributes(e) /\ IsFiniteSet(e.attributes)
    BY DEF AllAttributes, IsEvent
  <2> QED BY <1>5, <1>8, <2>1
<1>12. IsEvent(g)
  BY <1>5, <1>9, <1>10, <1>11 DEF IsEvent, SameBeside
<1>13. Stays(g, e)
  <2>1. ASSUME NEW x \in Members(g)
        PROVE  \E y \in Members(e) : x[1] = y[1] /\ x[2].uuid = y[2].uuid
    <3>1. CASE x \in {Null} \X g.attributes
      <4>1. PICK b \in e.attributes : x[2].uuid = b.uuid
        BY <1>3, <1>5, <3>1 DEF IsEvent
      <4>2. <<Null, b>> \in Members(e)
        BY DEF Members
      <4> QED BY <3>1, <4>1, <4>2
    <3>2. ASSUME NEW o \in g.objects, x \in {o.uuid} \X o.attributes
          PROVE  \E y \in Members(e) : x[1] = y[1] /\ x[2].uuid = y[2].uuid
      <4>1. PICK p \in e.objects : o = O(p)
        BY <1>5
      <4>2. PICK b \in p.attributes : x[2].uuid = b.uuid
        BY <1>3, <1>4, <3>2, <4>1 DEF IsEvent, IsObject
      <4>3. <<p.uuid, b>> \in Members(e)
        BY DEF Members
      <4> QED BY <1>4, <3>2, <4>1, <4>2, <4>3 DEF IsEvent
    <3> QED BY <3>1, <3>2 DEF Members
  <2> QED BY <1>4, <1>5, <2>1 DEF Stays, IsEvent
<1> QED BY <1>5, <1>6, <1>7, <1>12, <1>13 DEF g, own, more, F

-----------------------------------------------------------------------------
(* The policy as a whole.                                                  *)

\* What redact_values names in an attribute, as long as it is there to be looked at.
Redactable(rules, b) == Matches(rules, b.value) \/ (Matches(rules, b.comment) /\ ~rules.removeComments)

\* Each rule keeps what the ones before it ensured.
LEMMA EventTransformed ==
    ASSUME NEW rules, IsPolicy(rules), NEW e, IsEvent(e), OneOfEach(e)
    PROVE  LET r == Transformed(rules, e)
           IN  /\ Follows(rules, r, e) /\ IsEvent(r)
               /\ Without(r, rules.removeTypes) /\ Without(r, rules.rejectTypes)
               /\ Narrowed(rules, r) /\ Censored(rules, r)
               /\ \A a \in AllAttributes(r) : a.data <= rules.maxAttachment
               /\ \A a \in AllAttributes(r) : \E b \in AllAttributes(e) :
                    FromAttribute(rules, a, b) /\ (Redactable(rules, b) => a.data = 0)
<1> DEFINE e1 == DropTypes(e, rules.removeTypes)
           e2 == RemoveComments(rules, e1)
           e3 == SetPublished(rules, e2)
           e4 == ClampDistribution(rules, e3)
           e5 == MapOrganisation(rules, e4)
           e6 == MapSharingGroups(rules, e5)
           e7 == SetToIds(rules, e6)
           e8 == ApplyRedactions(rules, e7)
           e9 == DropTypes(e8, rules.rejectTypes)
           r  == LimitAttachments(rules, e9)
<1>0. r = Transformed(rules, e)
  BY DEF Transformed
<1>m. rules.maximum \in Nat /\ rules.maxAttachment \in Nat
  BY DEF IsPolicy
<1>1. Follows(rules, e1, e) /\ Without(e1, rules.removeTypes) /\ IsEvent(e1) /\ OneOfEach(e1)
  BY TypesDropped, FollowsAll
<1>2. Follows(rules, e2, e1) /\ IsEvent(e2) /\ OneOfEach(e2)
  BY <1>1, CommentsRemoved, FollowsAll
<1>3. Follows(rules, e3, e2) /\ IsEvent(e3) /\ OneOfEach(e3)
  BY <1>2, PublishedSet, FollowsAll
<1>4. Follows(rules, e4, e3) /\ Narrowed(rules, e4) /\ IsEvent(e4) /\ OneOfEach(e4)
  BY <1>3, <1>m, DistributionClamped, FollowsAll
<1>5. Follows(rules, e5, e4) /\ IsEvent(e5) /\ OneOfEach(e5)
  BY <1>4, OrganisationMapped, FollowsAll
<1>6. Follows(rules, e6, e5) /\ IsEvent(e6) /\ OneOfEach(e6)
  BY <1>5, SharingGroupsMapped, FollowsAll
<1>7. Follows(rules, e7, e6) /\ IsEvent(e7) /\ OneOfEach(e7)
  BY <1>6, ToIdsSet, FollowsAll
<1>8. /\ Follows(rules, e8, e7) /\ Censored(rules, e8) /\ IsEvent(e8) /\ OneOfEach(e8)
      /\ \A a \in AllAttributes(e8) : \E b \in AllAttributes(e7) :
            /\ FromAttribute(rules, a, b)
            /\ Matches(rules, b.value) \/ Matches(rules, b.comment) => a.data = 0
  BY <1>7, RedactionsApplied, FollowsAll
<1>9. Follows(rules, e9, e8) /\ Without(e9, rules.rejectTypes) /\ IsEvent(e9) /\ OneOfEach(e9)
  BY <1>8, TypesDropped, FollowsAll
<1>10. Follows(rules, r, e9) /\ IsEvent(r) /\ \A a \in AllAttributes(r) : a.data <= rules.maxAttachment
  BY <1>9, <1>m, AttachmentsLimited, FollowsAll
<1> HIDE DEF e1, e2, e3, e4, e5, e6, e7, e8, e9, r
<1>11. Follows(rules, e4, e1)
  BY <1>2, <1>3, <1>4, FollowsOn
<1>12. Follows(rules, e7, e4)
  BY <1>5, <1>6, <1>7, FollowsOn
<1>13. Follows(rules, r, e8)
  BY <1>9, <1>10, FollowsOn
<1>14. Follows(rules, r, e4)
  BY <1>8, <1>12, <1>13, FollowsOn
<1>15. Follows(rules, r, e1)
  BY <1>11, <1>14, FollowsOn
<1>16. Follows(rules, r, e)
  BY <1>1, <1>15, FollowsOn
<1>17. Follows(rules, e7, e)
  BY <1>1, <1>11, <1>12, FollowsOn
<1>18. Without(r, rules.removeTypes) /\ Without(r, rules.rejectTypes)
  BY <1>1, <1>9, <1>10, <1>15, Inherits
<1>19. Narrowed(rules, r) /\ Censored(rules, r)
  BY <1>4, <1>8, <1>13, <1>14, Inherits
<1>20. ASSUME NEW a \in AllAttributes(r)
       PROVE  \E b \in AllAttributes(e) :
                FromAttribute(rules, a, b) /\ (Redactable(rules, b) => a.data = 0)
  <2>1. PICK x \in AllAttributes(e8) : FromAttribute(rules, a, x)
    BY <1>8, <1>13, FollowsAll DEF FromAttributes
  <2>2. PICK y \in AllAttributes(e7) :
            /\ FromAttribute(rules, x, y)
            /\ Matches(rules, y.value) \/ Matches(rules, y.comment) => x.data = 0
    BY <1>8
  <2>3. PICK b \in AllAttributes(e) : FromAttribute(rules, y, b)
    BY <1>17, FollowsAll DEF FromAttributes
  <2>4. FromAttribute(rules, a, b) /\ (Redactable(rules, b) => a.data = 0)
    BY <2>1, <2>2, <2>3 DEF FromAttribute, Redactable
  <2> QED BY <2>4
<1> QED BY <1>0, <1>10, <1>16, <1>18, <1>19, <1>20

-----------------------------------------------------------------------------
(* The invariant: what is planned is what the policy makes of the source.  *)

\* An event as a server keeps it, with UUIDs that the copies do not give.
IsKept(e) ==
    /\ IsEvent(e) /\ OneOfEach(e) /\ InOnePlace(e)
    /\ IsABag(e.sightings) /\ IsABag(e.proposals)
    /\ e.uuid = Original /\ OwnUuids(e) \subseteq Known \cup {Null}

IndInv ==
    /\ case \in {c.name : c \in Cases}
    /\ IsPolicy(spec) /\ IsKept(source)
    /\ plan \in {Unplanned, Evaluate(spec, source)}

\* What the assumption says of a case.
LEMMA CaseIs ==
    ASSUME NEW c \in Cases
    PROVE  (\A e \in c.sources \cup c.destinations : IsKept(e)) /\ \A s \in c.specs : IsPolicy(s)
BY CasesAssumption DEF IsKept, IsPolicy

\* What is planned is what the policy makes of the event that the source has.
LEMMA Inductive == Spec => []IndInv
<1>1. Init => IndInv
  BY CaseIs DEF Init, IndInv
<1>2. IndInv /\ [Next]_vars => IndInv'
  <2> SUFFICES ASSUME IndInv, [Next]_vars PROVE IndInv'
    OBVIOUS
  <2>1. This \in Cases
    BY DEF IndInv, This
  <2>2. CASE EditSource
    BY <2>1, <2>2, CaseIs DEF EditSource, IndInv
  <2>3. CASE EditDestination
    BY <2>3 DEF EditDestination, IndInv
  <2>4. CASE Plan
    BY <2>4 DEF Plan, IndInv
  <2>5. CASE Add \/ Merge \/ CreateNewUuid
    BY <2>5 DEF Add, Merge, CreateNewUuid, IndInv
  <2>6. CASE Again
    BY <2>6 DEF Again, IndInv
  <2>7. CASE UNCHANGED vars
    BY <2>7 DEF vars, IndInv
  <2> QED BY <2>2, <2>3, <2>4, <2>5, <2>6, <2>7 DEF Next
<1> QED BY <1>1, <1>2, PTL DEF Spec

\* What is accepted is what the gates let through, transformed.
LEMMA Accepted ==
    ASSUME IndInv, plan.accepted
    PROVE  LET g == Governed(spec, source).event
           IN  /\ plan.event = Transformed(spec, g)
               /\ plan.told = Governed(spec, source).told
               /\ ~Violated(spec, g, CarriedTags(source))
<1>1. ~Unplanned.accepted
  BY DEF Unplanned
<1>2. plan = Evaluate(spec, source)
  BY <1>1 DEF IndInv
<1> QED BY <1>2 DEF Evaluate

\* What is planned is an event as a server keeps it: no rule of a policy gives a UUID
\* or moves an attribute.
LEMMA PlannedIsKept == ASSUME IndInv PROVE IsKept(plan.event)
<1>1. CASE plan.accepted
  <2> DEFINE g == Governed(spec, source).event
  <2>1. IsEvent(g) /\ OneOfEach(g) /\ Stays(g, source)
    BY EventGoverned DEF IndInv, IsKept
  <2>2. Follows(spec, Transformed(spec, g), g)
    BY <2>1, EventTransformed DEF IndInv
  <2>3. plan.event = Transformed(spec, g)
    BY <1>1, Accepted
  <2> HIDE DEF g
  <2>4. IsEvent(plan.event) /\ OneOfEach(plan.event) /\ Stays(plan.event, g)
    BY <2>1, <2>2, <2>3, FollowsAll
  <2>5. Stays(plan.event, source)
    BY <2>1, <2>4 DEF Stays, SameBeside
  <2>6. ASSUME NEW a \in AllAttributes(plan.event)
        PROVE  \E b \in AllAttributes(source) : a.uuid = b.uuid
    BY <2>5, MembersAll DEF Stays
  <2>7. InOnePlace(plan.event)
    BY <2>5, <2>6 DEF Stays, InOnePlace, IndInv, IsKept
  <2>8. OwnUuids(plan.event) \subseteq OwnUuids(source)
    BY <2>5, <2>6 DEF Stays, SameBeside, OwnUuids
  <2> QED BY <2>4, <2>5, <2>7, <2>8 DEF Stays, SameBeside, IndInv, IsKept
<1>2. CASE plan = Unplanned
  <2>1. plan.event = Blank
    BY <1>2 DEF Unplanned
  <2>2. AllAttributes(Blank) = {} /\ Members(Blank) = {}
    BY DEF AllAttributes, Members, Blank
  <2>3. IsEvent(Blank) /\ OneOfEach(Blank) /\ InOnePlace(Blank)
    BY <2>2, FS_EmptySet DEF IsEvent, OneOfEach, InOnePlace, HasFields, Blank, EmptyBag, SetToBag, BagToSet
  <2>4. IsABag(Blank.sightings) /\ IsABag(Blank.proposals)
    BY DEF Blank, EmptyBag, SetToBag, IsABag
  <2>5. OwnUuids(Blank) = {Original}
    BY <2>2 DEF OwnUuids, Original, Blank, EmptyBag, SetToBag, BagToSet
  <2> QED BY <2>1, <2>3, <2>4, <2>5, CasesAssumption DEF IsKept, Original
<1>3. CASE plan = Evaluate(spec, source) /\ ~plan.accepted
  BY <1>3 DEF Evaluate, IndInv
<1> QED BY <1>1, <1>2, <1>3 DEF IndInv

\* An attribute of what is accepted is one of the source, under its tag rules.
LEMMA AttributeOf ==
    ASSUME IndInv, plan.accepted, NEW a \in AllAttributes(plan.event)
    PROVE  \E was \in AllAttributes(source) :
            /\ a.uuid = was.uuid /\ a.type = was.type
            /\ a.tags = GovernTags(spec, was.tags).tags
            /\ Redactable(spec, was) => a.data = 0
<1> DEFINE g == Governed(spec, source).event
<1>1. plan.event = Transformed(spec, g) /\ IsEvent(g) /\ OneOfEach(g)
  BY Accepted, EventGoverned DEF IndInv, IsKept
<1>2. PICK b \in AllAttributes(g) : FromAttribute(spec, a, b) /\ (Redactable(spec, b) => a.data = 0)
  BY <1>1, EventTransformed DEF IndInv
<1>3. PICK was \in AllAttributes(source) : b = [was EXCEPT !.tags = GovernTags(spec, was.tags).tags]
  BY EventGoverned DEF IndInv, IsKept
<1>4. IsAttribute(was)
  BY DEF IndInv, IsKept, IsEvent, IsObject, AllAttributes
<1>5. /\ b.uuid = was.uuid /\ b.type = was.type /\ b.value = was.value
      /\ b.comment = was.comment /\ b.tags = GovernTags(spec, was.tags).tags
  BY <1>3, <1>4 DEF IsAttribute, Attribute, HasFields
<1> QED BY <1>2, <1>5 DEF FromAttribute, Redactable

\* What a policy forbids does not leave, whatever its rules, the event, and the order
\* in which the rules undo and redo each other's work (policies/builtins.py:466).
THEOREM ForbiddenStays == Spec => []NothingForbiddenLeaves
<1>1. ASSUME IndInv, plan.accepted PROVE NothingForbiddenLeaves
  <2> DEFINE g     == Governed(spec, source).event
             event == plan.event
             all   == AllAttributes(event)
             own   == GovernTags(spec, source.tags).tags
  <2>a. event = Transformed(spec, g) /\ ~Violated(spec, g, CarriedTags(source)) /\ IsPolicy(spec)
    BY <1>1, Accepted DEF IndInv
  <2>b. /\ IsEvent(g) /\ OneOfEach(g) /\ g.tags = own \cup AddTags(spec, own)
    BY <1>1, EventGoverned DEF IndInv, IsKept
  <2>c. /\ Follows(spec, event, g)
        /\ Without(event, spec.removeTypes) /\ Without(event, spec.rejectTypes)
        /\ Narrowed(spec, event) /\ Censored(spec, event)
        /\ \A a \in all : a.data <= spec.maxAttachment
    BY <2>a, <2>b, EventTransformed
  <2>d. event.tags = g.tags /\ \A a \in all : \E b \in AllAttributes(g) : FromAttribute(spec, a, b)
    BY <2>b, <2>c, FollowsAll DEF Follows, FromAttributes
  <2>e. CarriedTags(event) \subseteq CarriedTags(g)
    BY <2>d DEF CarriedTags, FromAttribute
  <2> HIDE DEF g, event
  <2>1. Folded(CarriedTags(event)) \cap (spec.removeTags \ Folded(spec.addTags)) = {}
    <3> SUFFICES ASSUME NEW t \in CarriedTags(event), t[1] \in spec.removeTags
                 PROVE  t[1] \in Folded(spec.addTags)
      BY DEF Folded
    <3>1. CASE t \in event.tags
      <4>1. t \notin own
        BY TagsGoverned
      <4> QED BY <2>b, <2>d, <3>1, <4>1 DEF AddTags, Folded
    <3>2. ASSUME NEW a \in all, t \in a.tags PROVE FALSE
      <4>1. PICK was \in AllAttributes(source) : a.tags = GovernTags(spec, was.tags).tags
        BY <1>1, <3>2, AttributeOf DEF event
      <4> QED BY <3>2, <4>1, TagsGoverned
    <3> QED BY <3>1, <3>2 DEF CarriedTags
  <2>2. (Folded(CarriedTags(event)) \cup Folded(CarriedTags(source))) \cap spec.rejectIfTags = {}
    BY <2>a, <2>e DEF Violated, CarriesRejected, Folded
  <2>3. spec.requiredTags \subseteq Folded(event.tags)
    BY <2>a, <2>d DEF Violated
  <2>4. \A a \in all : a.type \notin spec.rejectIfTypes
    BY <2>a, <2>d DEF Violated, FromAttribute
  <2>5. \A was \in AllAttributes(source), a \in all :
            was.uuid = a.uuid /\ Redactable(spec, was) => a.data = 0
    BY <1>1, AttributeOf DEF IndInv, IsKept, OneOfEach, event
  <2>6. spec.allowedObjects # {} => {o.name : o \in event.objects} \subseteq spec.allowedObjects
    <3>1. \A o \in event.objects : \E p \in g.objects : o.name = p.name
      BY <2>c DEF Follows, FromObject
    <3> QED BY <2>a, <3>1 DEF Violated
  <2> QED BY <2>c, <2>1, <2>2, <2>3, <2>4, <2>5, <2>6
          DEF NothingForbiddenLeaves, Redactable, Without, Narrowed, Narrow, Censored, event
<1>2. IndInv => NothingForbiddenLeaves
  BY <1>1 DEF NothingForbiddenLeaves
<1> QED BY Inductive, <1>2, PTL

\* What a policy does to a tag is in the plan's account of it (policies/builtins.py:100).
THEOREM MarkingsTold == Spec => []NoSilentMarking
<1>1. ASSUME IndInv, plan.accepted PROVE NoSilentMarking
  <2> DEFINE g     == Governed(spec, source)
             event == plan.event
             own   == GovernTags(spec, source.tags)
             Told(actions, holder, t) == \E a \in actions : <<a, <<holder, t>>>> \in plan.told
  <2>1. IsEvent(g.event) /\ OneOfEach(g.event) /\ g.event.tags = own.tags \cup AddTags(spec, own.tags)
    BY <1>1, EventGoverned DEF IndInv, IsKept
  <2>2. event.tags = g.event.tags
    BY <1>1, <2>1, Accepted, EventTransformed DEF IndInv, Follows
  <2>3. plan.told = {<<t[1], <<"", t[2]>>>> : t \in own.told}
                    \cup {<<"add-tag", <<"", t>>>> : t \in AddTags(spec, own.tags)}
                    \cup UNION {{<<t[1], <<a.type, t[2]>>>> : t \in GovernTags(spec, a.tags).told} :
                                    a \in AllAttributes(source)}
    BY <1>1, Accepted DEF Governed
  <2>t. /\ \A act, t : <<act, t>> \in own.told => <<act, <<"", t>>>> \in plan.told
        /\ \A a \in AllAttributes(source) : \A act, t :
            <<act, t>> \in GovernTags(spec, a.tags).told => <<act, <<a.type, t>>>> \in plan.told
    <3>1. ASSUME NEW told, NEW holder, NEW act, NEW t, <<act, t>> \in told
          PROVE  <<act, <<holder, t>>>> \in {<<x[1], <<holder, x[2]>>>> : x \in told}
      <4> DEFINE x == <<act, t>>
      <4>1. x \in told /\ x[1] = act /\ x[2] = t
        BY <3>1
      <4> QED BY <4>1
    <3>2. ASSUME NEW act, NEW t, <<act, t>> \in own.told PROVE <<act, <<"", t>>>> \in plan.told
      BY <2>3, <3>1, <3>2
    <3>3. ASSUME NEW a \in AllAttributes(source), NEW act, NEW t,
                 <<act, t>> \in GovernTags(spec, a.tags).told
          PROVE  <<act, <<a.type, t>>>> \in plan.told
      <4> DEFINE These(b) == {<<x[1], <<b.type, x[2]>>>> : x \in GovernTags(spec, b.tags).told}
      <4>1. <<act, <<a.type, t>>>> \in These(a)
        BY <3>1, <3>3
      <4>2. UNION {These(b) : b \in AllAttributes(source)} \subseteq plan.told
        BY <2>3
      <4> HIDE DEF These
      <4> QED BY <4>1, <4>2
    <3> QED BY <3>2, <3>3
  <2>4. \A t \in source.tags \ event.tags : Told({"remove-tag", "rename-tag"}, "", t)
    <3> SUFFICES ASSUME NEW t \in source.tags \ own.tags PROVE Told({"remove-tag", "rename-tag"}, "", t)
      BY <2>1, <2>2
    <3>1. PICK act \in {"remove-tag", "rename-tag"} : <<act, t>> \in own.told
      BY TagsGoverned
    <3> QED BY <2>t, <3>1
  <2>5. ASSUME NEW t \in event.tags \ source.tags
        PROVE  \/ Told({"add-tag"}, "", t)
               \/ \E old \in source.tags : Told({"rename-tag"}, "", old)
    <3>1. CASE t \in AddTags(spec, own.tags)
      BY <2>3, <3>1
    <3>2. CASE t \in own.tags
      <4>1. PICK old \in source.tags : <<"rename-tag", old>> \in own.told
        BY <3>2, TagsGoverned
      <4> QED BY <2>t, <4>1
    <3> QED BY <2>1, <2>2, <3>1, <3>2
  <2>6. ASSUME NEW was \in AllAttributes(source), NEW a \in AllAttributes(event),
               was.uuid = a.uuid, NEW t \in was.tags \ a.tags
        PROVE  Told({"remove-tag", "rename-tag"}, was.type, t)
    <3>1. a.tags = GovernTags(spec, was.tags).tags
      BY <1>1, <2>6, AttributeOf DEF IndInv, IsKept, OneOfEach
    <3>2. PICK act \in {"remove-tag", "rename-tag"} : <<act, t>> \in GovernTags(spec, was.tags).told
      BY <3>1, TagsGoverned
    <3> QED BY <2>t, <3>2
  <2> QED BY <2>4, <2>5, <2>6 DEF NoSilentMarking
<1>2. IndInv => NoSilentMarking
  BY <1>1 DEF NoSilentMarking
<1> QED BY Inductive, <1>2, PTL

-----------------------------------------------------------------------------
(* The diff and the fingerprint.                                           *)

\* Attributes are alike to the diff exactly when they are to the fingerprint.
LEMMA SameAttributes ==
    ASSUME NEW a, NEW b, IsAttribute(a), IsAttribute(b)
    PROVE  Canonical(a) = Canonical(b) <=> Key(a) = Key(b) /\ Compared(a) = Compared(b)
<1>1. /\ HasFields(Canonical(a), DOMAIN Attribute) /\ HasFields(Canonical(b), DOMAIN Attribute)
      /\ \A f \in DOMAIN Attribute : f # "tags" => Canonical(a)[f] = a[f] /\ Canonical(b)[f] = b[f]
      /\ Canonical(a).tags = FoldTags(a.tags) /\ Canonical(b).tags = FoldTags(b.tags)
  BY DEF IsAttribute, Attribute, Canonical, HasFields
<1>2. Canonical(a) = Canonical(b) <=> \A f \in DOMAIN Attribute : Canonical(a)[f] = Canonical(b)[f]
  BY <1>1 DEF HasFields
<1>3. Canonical(a) = Canonical(b) <=>
        /\ \A f \in DOMAIN Attribute : f # "tags" => a[f] = b[f]
        /\ FoldTags(a.tags) = FoldTags(b.tags)
  BY <1>1, <1>2 DEF Attribute
<1>4. Restricted(a, AttributeFields) = Restricted(b, AttributeFields) <=>
        \A f \in AttributeFields : a[f] = b[f]
  BY DEF Restricted
<1>5. DOMAIN Attribute = AttributeFields \cup {"type", "value", "tags"}
  BY DEF Attribute, AttributeFields
<1>6. "tags" \notin AttributeFields
  BY DEF AttributeFields
<1> QED BY <1>3, <1>4, <1>5, <1>6 DEF Compared, Key

AreAttributes(S) ==
    /\ IsFiniteSet(S) /\ \A a \in S : IsAttribute(a)
    /\ \A a, b \in S : a.uuid = b.uuid => a = b
CanonicalOnes(S) == {Canonical(a) : a \in S}

\* The canonical form of an attribute has its UUID.
LEMMA CanonicalUuid == ASSUME NEW a, IsAttribute(a) PROVE Canonical(a).uuid = a.uuid
BY DEF IsAttribute, Attribute, Canonical, HasFields

\* Attributes do not differ exactly when their canonical forms are the same.
LEMMA AttributesAgree ==
    ASSUME NEW S, NEW T, AreAttributes(S), AreAttributes(T)
    PROVE  DiffAttributes(S, T) = {} <=> CanonicalOnes(S) = CanonicalOnes(T)
<1> DEFINE Group(members, k) == {a \in members : Key(a) = k}
           Looks(members) == {Compared(a) : a \in members}
<1>1. DiffAttributes(S, T) = {} <=>
        \A a \in S \cup T : /\ Cardinality(Group(S, Key(a))) = Cardinality(Group(T, Key(a)))
                            /\ Looks(Group(S, Key(a))) = Looks(Group(T, Key(a)))
  BY DEF DiffAttributes
<1>2. ASSUME CanonicalOnes(S) = CanonicalOnes(T), NEW k
      PROVE  /\ Cardinality(Group(S, k)) = Cardinality(Group(T, k))
             /\ Looks(Group(S, k)) = Looks(Group(T, k))
  <2>1. ASSUME NEW U, NEW V, AreAttributes(U), AreAttributes(V), CanonicalOnes(U) = CanonicalOnes(V)
        PROVE  /\ Cardinality(Group(U, k)) <= Cardinality(Group(V, k))
               /\ Looks(Group(U, k)) \subseteq Looks(Group(V, k))
               /\ Cardinality(Group(U, k)) \in Nat
    <3>1. ASSUME NEW a \in U PROVE \E b \in V : Canonical(a) = Canonical(b)
      BY <2>1 DEF CanonicalOnes
    <3>2. ASSUME NEW a \in Group(U, k)
          PROVE  \E b \in Group(V, k) : Compared(a) = Compared(b) /\ a.uuid = b.uuid
      BY <2>1, <3>1, SameAttributes, CanonicalUuid DEF AreAttributes
    <3>3. IsFiniteSet(Group(U, k)) /\ IsFiniteSet(Group(V, k))
      BY <2>1, FS_Subset DEF AreAttributes
    <3>4. \A a, b \in Group(U, k) : a.uuid = b.uuid => a = b
      BY <2>1 DEF AreAttributes
    <3>5. Looks(Group(U, k)) \subseteq Looks(Group(V, k))
      BY <3>2
    <3> HIDE DEF Group
    <3>6. Cardinality(Group(U, k)) <= Cardinality(Group(V, k))
      BY <3>2, <3>3, <3>4, NoMore
    <3> QED BY <3>3, <3>5, <3>6, FS_CardinalityType
  <2> HIDE DEF Group, Looks
  <2>2. /\ Cardinality(Group(S, k)) <= Cardinality(Group(T, k))
        /\ Looks(Group(S, k)) \subseteq Looks(Group(T, k)) /\ Cardinality(Group(S, k)) \in Nat
    BY <1>2, <2>1
  <2>3. /\ Cardinality(Group(T, k)) <= Cardinality(Group(S, k))
        /\ Looks(Group(T, k)) \subseteq Looks(Group(S, k)) /\ Cardinality(Group(T, k)) \in Nat
    BY <1>2, <2>1
  <2> QED BY <2>2, <2>3
<1>3. ASSUME NEW a \in S \cup T, Looks(Group(S, Key(a))) = Looks(Group(T, Key(a)))
      PROVE  Canonical(a) \in CanonicalOnes(S) /\ Canonical(a) \in CanonicalOnes(T)
  <2>1. Compared(a) \in Looks(Group(S, Key(a))) /\ Compared(a) \in Looks(Group(T, Key(a)))
    BY <1>3
  <2>2. PICK b \in Group(S, Key(a)), c \in Group(T, Key(a)) :
            Compared(b) = Compared(a) /\ Compared(c) = Compared(a)
    BY <2>1
  <2>3. IsAttribute(a) /\ IsAttribute(b) /\ IsAttribute(c)
    BY <2>2 DEF AreAttributes
  <2>4. Canonical(a) = Canonical(b) /\ Canonical(a) = Canonical(c)
    BY <2>2, <2>3, SameAttributes
  <2> QED BY <2>2, <2>4 DEF CanonicalOnes
<1> HIDE DEF Group, Looks
<1>4. DiffAttributes(S, T) = {} => CanonicalOnes(S) = CanonicalOnes(T)
  <2> SUFFICES ASSUME DiffAttributes(S, T) = {}, NEW a \in S \cup T
               PROVE  Canonical(a) \in CanonicalOnes(S) /\ Canonical(a) \in CanonicalOnes(T)
    BY DEF CanonicalOnes
  <2> QED BY <1>1, <1>3
<1> QED BY <1>1, <1>2, <1>4

CanonicalObject(o) == [o EXCEPT !.attributes = {Canonical(a) : a \in @}]
CanonicalObjects(S) == {CanonicalObject(o) : o \in S}

\* Two objects do not differ exactly when their canonical forms are the same.
LEMMA SameObjects ==
    ASSUME NEW o, NEW p, IsObject(o), IsObject(p), AreAttributes(o.attributes), AreAttributes(p.attributes)
    PROVE  /\ CanonicalObject(o) = CanonicalObject(p) <=> o.uuid = p.uuid /\ SamePair(o, p)
           /\ CanonicalObject(o) = CanonicalObject(p) => ObjectKey(o) = ObjectKey(p)
<1> DEFINE c == CanonicalObject(o)
           d == CanonicalObject(p)
<1>1. /\ HasFields(c, DOMAIN Object) /\ HasFields(d, DOMAIN Object)
      /\ \A f \in DOMAIN Object : f # "attributes" => c[f] = o[f] /\ d[f] = p[f]
      /\ c.attributes = CanonicalOnes(o.attributes) /\ d.attributes = CanonicalOnes(p.attributes)
  BY DEF IsObject, Object, CanonicalObject, CanonicalOnes, HasFields
<1> HIDE DEF c, d
<1>2. c = d <=> \A f \in DOMAIN Object : c[f] = d[f]
  BY <1>1 DEF HasFields
<1>3. c = d <=> /\ \A f \in DOMAIN Object : f # "attributes" => o[f] = p[f]
                /\ CanonicalOnes(o.attributes) = CanonicalOnes(p.attributes)
  BY <1>1, <1>2 DEF Object
<1>4. Restricted(o, ObjectFields) = Restricted(p, ObjectFields) <=> \A f \in ObjectFields : o[f] = p[f]
  BY DEF Restricted
<1>5. /\ DOMAIN Object = ObjectFields \cup {"uuid", "references", "attributes"}
      /\ "attributes" \notin ObjectFields /\ "name" \in ObjectFields
  BY DEF Object, ObjectFields
<1>6. c = d <=> o.uuid = p.uuid /\ SamePair(o, p)
  BY <1>3, <1>4, <1>5, AttributesAgree DEF SamePair
<1>7. c = d => ObjectKey(o) = ObjectKey(p)
  BY <1>3, <1>5 DEF ObjectKey
<1> QED BY <1>6, <1>7 DEF c, d

AreObjects(S) ==
    /\ IsFiniteSet(S) /\ \A o \in S : IsObject(o) /\ AreAttributes(o.attributes)
    /\ \A o, p \in S : o.uuid = p.uuid => o = p

\* Objects of one key have one UUID.
LEMMA KeyHasUuid == ASSUME NEW o, NEW p, ObjectKey(o) = ObjectKey(p) PROVE o.uuid = p.uuid
BY DEF ObjectKey

\* Objects do not differ exactly when their canonical forms are the same.
LEMMA ObjectsAgree ==
    ASSUME NEW S, NEW T, AreObjects(S), AreObjects(T)
    PROVE  DiffObjects(S, T) = {} <=> CanonicalObjects(S) = CanonicalObjects(T)
<1> DEFINE Group(members, k) == {o \in members : ObjectKey(o) = k}
           Bad(k) == \/ Cardinality(Group(S, k)) # Cardinality(Group(T, k))
                     \/ \E o \in Group(S, k) : \A p \in Group(T, k) : ~SamePair(o, p)
                     \/ \E p \in Group(T, k) : \A o \in Group(S, k) : ~SamePair(o, p)
<1>0. DiffObjects(S, T) = {k \in {ObjectKey(o) : o \in S \cup T} : Bad(k)}
  BY Zenon DEF DiffObjects
<1>1. DiffObjects(S, T) = {} <=>
        \A x \in S \cup T :
            LET k == ObjectKey(x)
            IN  /\ Cardinality(Group(S, k)) = Cardinality(Group(T, k))
                /\ \A o \in Group(S, k) : \E p \in Group(T, k) : SamePair(o, p)
                /\ \A p \in Group(T, k) : \E o \in Group(S, k) : SamePair(o, p)
  <2> DEFINE Keys == {ObjectKey(o) : o \in S \cup T}
  <2>1. DiffObjects(S, T) = {} <=> \A k \in Keys : ~Bad(k)
    <3> HIDE DEF Bad
    <3> QED BY <1>0
  <2>2. (\A k \in Keys : ~Bad(k)) <=> \A x \in S \cup T : ~Bad(ObjectKey(x))
    <3> HIDE DEF Bad
    <3> QED OBVIOUS
  <2>3. ASSUME NEW k
        PROVE ~Bad(k) <=> /\ Cardinality(Group(S, k)) = Cardinality(Group(T, k))
                          /\ \A o \in Group(S, k) : \E p \in Group(T, k) : SamePair(o, p)
                          /\ \A p \in Group(T, k) : \E o \in Group(S, k) : SamePair(o, p)
    <3> HIDE DEF Group
    <3> QED OBVIOUS
  <2> HIDE DEF Bad, Group
  <2> QED BY <2>1, <2>2, <2>3
<1> HIDE DEF Bad
<1>2. ASSUME NEW U, NEW V, AreObjects(U), AreObjects(V), CanonicalObjects(U) = CanonicalObjects(V), NEW k
      PROVE  /\ Cardinality(Group(U, k)) <= Cardinality(Group(V, k))
             /\ Cardinality(Group(U, k)) \in Nat
             /\ \A o \in Group(U, k) : \E p \in Group(V, k) : SamePair(o, p) /\ SamePair(p, o)
  <2>1. ASSUME NEW o \in Group(U, k)
        PROVE  \E p \in Group(V, k) : SamePair(o, p) /\ SamePair(p, o) /\ o.uuid = p.uuid
    <3>1. PICK p \in V : CanonicalObject(o) = CanonicalObject(p)
      BY <1>2 DEF CanonicalObjects
    <3>2. /\ IsObject(o) /\ AreAttributes(o.attributes) /\ IsObject(p) /\ AreAttributes(p.attributes)
      BY <1>2 DEF AreObjects
    <3> QED BY <3>1, <3>2, SameObjects
  <2>2. IsFiniteSet(Group(U, k)) /\ IsFiniteSet(Group(V, k))
    BY <1>2, FS_Subset DEF AreObjects
  <2>3. \A a, b \in Group(U, k) : a.uuid = b.uuid => a = b
    BY <1>2 DEF AreObjects
  <2> HIDE DEF Group
  <2>4. Cardinality(Group(U, k)) <= Cardinality(Group(V, k))
    BY <2>1, <2>2, <2>3, NoMore
  <2> QED BY <2>1, <2>2, <2>4, FS_CardinalityType
<1>3. CanonicalObjects(S) = CanonicalObjects(T) => DiffObjects(S, T) = {}
  <2> HIDE DEF Group
  <2>1. ASSUME CanonicalObjects(S) = CanonicalObjects(T), NEW k
        PROVE  /\ Cardinality(Group(S, k)) = Cardinality(Group(T, k))
               /\ \A o \in Group(S, k) : \E p \in Group(T, k) : SamePair(o, p)
               /\ \A p \in Group(T, k) : \E o \in Group(S, k) : SamePair(o, p)
    <3>1. /\ Cardinality(Group(S, k)) <= Cardinality(Group(T, k)) /\ Cardinality(Group(S, k)) \in Nat
          /\ \A o \in Group(S, k) : \E p \in Group(T, k) : SamePair(o, p)
      BY <1>2, <2>1
    <3>2. /\ Cardinality(Group(T, k)) <= Cardinality(Group(S, k)) /\ Cardinality(Group(T, k)) \in Nat
          /\ \A p \in Group(T, k) : \E o \in Group(S, k) : SamePair(o, p)
      BY <1>2, <2>1
    <3> QED BY <3>1, <3>2
  <2> QED BY <1>1, <2>1
<1>4. ASSUME DiffObjects(S, T) = {} PROVE CanonicalObjects(S) = CanonicalObjects(T)
  <2>1. ASSUME NEW o \in S PROVE \E p \in T : CanonicalObject(o) = CanonicalObject(p)
    <3>1. PICK p \in Group(T, ObjectKey(o)) : SamePair(o, p)
      BY <1>1, <1>4
    <3>2. o.uuid = p.uuid
      BY <3>1, KeyHasUuid
    <3> QED BY <3>1, <3>2, SameObjects DEF AreObjects
  <2>2. ASSUME NEW p \in T PROVE \E o \in S : CanonicalObject(o) = CanonicalObject(p)
    <3>1. PICK o \in Group(S, ObjectKey(p)) : SamePair(o, p)
      BY <1>1, <1>4
    <3>2. o.uuid = p.uuid
      BY <3>1, KeyHasUuid
    <3> QED BY <3>1, <3>2, SameObjects DEF AreObjects
  <2> QED BY <2>1, <2>2 DEF CanonicalObjects
<1> QED BY <1>3, <1>4

\* A galaxy's entries tell what it is.
LEMMA GalaxiesAgree ==
    ASSUME NEW S, NEW T, \A g \in S \cup T : HasFields(g, {"name", "uuid", "clusters"})
    PROVE  GalaxyEntries(S) = GalaxyEntries(T) <=> S = T
<1> DEFINE Whole(g) == <<g.name, g.uuid, "set", g.clusters>>
<1>1. ASSUME NEW g, NEW h, HasFields(g, {"name", "uuid", "clusters"}),
             HasFields(h, {"name", "uuid", "clusters"}), Whole(g) = Whole(h)
      PROVE  g = h
  <2>1. \A f \in {"name", "uuid", "clusters"} : g[f] = h[f]
    BY <1>1
  <2> HIDE DEF Whole
  <2> QED BY <1>1, <2>1 DEF HasFields
<1>2. ASSUME NEW U, NEW V, \A g \in U \cup V : HasFields(g, {"name", "uuid", "clusters"}),
             GalaxyEntries(U) = GalaxyEntries(V), NEW g \in U
      PROVE  g \in V
  <2>1. Whole(g) \in GalaxyEntries(V)
    BY <1>2 DEF GalaxyEntries
  <2>2. Whole(g)[3] = "set"
    OBVIOUS
  <2>3. PICK h \in V : Whole(g) = Whole(h)
    BY <2>1, <2>2 DEF GalaxyEntries
  <2> HIDE DEF Whole
  <2> QED BY <1>1, <1>2, <2>3
<1> QED BY <1>2

\* The members of an event that a server keeps have UUIDs of their own.
LEMMA MembersAre ==
    ASSUME NEW e, IsEvent(e), OneOfEach(e)
    PROVE  AreAttributes(e.attributes) /\ AreObjects(e.objects)
BY DEF IsEvent, IsObject, OneOfEach, AreAttributes, AreObjects, AllAttributes

\* The diff calls two events equivalent exactly when their fingerprints and their
\* observations are the same.
LEMMA DiffIsFingerprint ==
    ASSUME NEW l, NEW r, IsEvent(l), OneOfEach(l), IsEvent(r), OneOfEach(r)
    PROVE  Equivalent(l, r) <=> /\ Fingerprint(l) = Fingerprint(r)
                                /\ l.sightings = r.sightings /\ l.proposals = r.proposals
<1> DEFINE Kept == MetadataFields \cup {"galaxies"}
           c == Fingerprint(l)
           d == Fingerprint(r)
<1>1. ASSUME NEW e, IsEvent(e)
      PROVE  /\ HasFields(Fingerprint(e), DOMAIN Blank)
             /\ \A f \in Kept : Fingerprint(e)[f] = e[f]
             /\ Fingerprint(e).tags = FoldTags(e.tags)
             /\ Fingerprint(e).attributes = CanonicalOnes(e.attributes)
             /\ Fingerprint(e).objects = CanonicalObjects(e.objects)
             /\ Fingerprint(e).sightings = EmptyBag /\ Fingerprint(e).proposals = EmptyBag
  BY <1>1 DEF IsEvent, Blank, Fingerprint, CanonicalOnes, CanonicalObjects, CanonicalObject,
              MetadataFields, HasFields
<1>2. DOMAIN Blank = Kept \cup {"tags", "attributes", "objects", "sightings", "proposals"}
  BY DEF Blank, MetadataFields
<1>3. c = d <=> \A f \in DOMAIN Blank : c[f] = d[f]
  <2> HIDE DEF c, d
  <2>1. HasFields(c, DOMAIN Blank) /\ HasFields(d, DOMAIN Blank)
    BY <1>1 DEF c, d
  <2> QED BY <2>1 DEF HasFields
<1>4. c = d <=> /\ \A f \in MetadataFields : l[f] = r[f]
                /\ l.galaxies = r.galaxies /\ FoldTags(l.tags) = FoldTags(r.tags)
                /\ CanonicalOnes(l.attributes) = CanonicalOnes(r.attributes)
                /\ CanonicalObjects(l.objects) = CanonicalObjects(r.objects)
  <2>1. c = d <=> /\ \A f \in Kept : c[f] = d[f]
                  /\ c.tags = d.tags /\ c.attributes = d.attributes /\ c.objects = d.objects
                  /\ c.sightings = d.sightings /\ c.proposals = d.proposals
    <3> HIDE DEF c, d, Kept
    <3> QED BY <1>2, <1>3
  <2>2. \A f \in Kept : c[f] = l[f] /\ d[f] = r[f]
    BY <1>1
  <2>3. /\ c.tags = FoldTags(l.tags) /\ d.tags = FoldTags(r.tags)
        /\ c.attributes = CanonicalOnes(l.attributes) /\ d.attributes = CanonicalOnes(r.attributes)
        /\ c.objects = CanonicalObjects(l.objects) /\ d.objects = CanonicalObjects(r.objects)
        /\ c.sightings = d.sightings /\ c.proposals = d.proposals
    BY <1>1
  <2> HIDE DEF c, d
  <2> QED BY <2>1, <2>2, <2>3
<1>5. Equivalent(l, r) <=>
        /\ DiffMetadata(l, r) = {} /\ FoldTags(l.tags) = FoldTags(r.tags)
        /\ DiffAttributes(l.attributes, r.attributes) = {}
        /\ DiffObjects(l.objects, r.objects) = {}
        /\ GalaxyEntries(l.galaxies) = GalaxyEntries(r.galaxies)
        /\ l.sightings = r.sightings /\ l.proposals = r.proposals
  <2>1. ASSUME NEW dimension, NEW keys PROVE Paths(dimension, keys) = {} <=> keys = {}
    BY DEF Paths
  <2>2. ASSUME NEW dimension, NEW x, NEW y PROVE Changed(dimension, x, y) = {} <=> x = y
    BY DEF Changed
  <2> QED BY <2>1, <2>2 DEF Equivalent, Differences
<1>6. DiffMetadata(l, r) = {} <=> \A f \in MetadataFields : l[f] = r[f]
  BY DEF DiffMetadata
<1>7. /\ AreAttributes(l.attributes) /\ AreObjects(l.objects)
      /\ AreAttributes(r.attributes) /\ AreObjects(r.objects)
  BY MembersAre
<1>8. GalaxyEntries(l.galaxies) = GalaxyEntries(r.galaxies) <=> l.galaxies = r.galaxies
  BY GalaxiesAgree DEF IsEvent
<1> HIDE DEF c, d
<1>9. c = d <=> Fingerprint(l) = Fingerprint(r)
  BY DEF c, d
<1> QED BY <1>4, <1>5, <1>6, <1>7, <1>8, <1>9, AttributesAgree, ObjectsAgree

-----------------------------------------------------------------------------
(* Reserved UUIDs and twins.                                               *)

\* A function has finitely many values on a finite set.
LEMMA ImageIsFinite ==
    ASSUME NEW S, IsFiniteSet(S), NEW f, DOMAIN f = S
    PROVE  IsFiniteSet({f[x] : x \in S})
<1> DEFINE T == {f[x] : x \in S}
           g == [x \in S |-> f[x]]
<1>1. g \in Surjection(S, T)
  BY DEF Surjection
<1> QED BY <1>1, FS_Surjection

\* An attribute that may have lost its UUID, and nothing else.
Keeps(a, b) ==
    /\ IsAttribute(a) /\ Key(a) = Key(b)
    /\ a.uuid # Null => a = b

\* An attribute whose UUID is taken loses it, and nothing else.
LEMMA SafeKeeps ==
    ASSUME NEW a, IsAttribute(a), NEW taken
    PROVE  /\ Keeps(UuidSafe(a, taken), a)
           /\ UuidSafe(a, taken).uuid # Null => a.uuid \notin taken
BY DEF IsAttribute, Attribute, HasFields, UuidSafe, Keeps, Key

\* No UUID that is taken is given again, and none is given twice.
LEMMA ReserveIs ==
    ASSUME NEW offers, \A x \in offers : IsAttribute(x[2]), NEW taken
    PROVE  LET kept == Reserve(offers, taken)
           IN  /\ DOMAIN kept = offers
               /\ \A x \in offers : /\ Keeps(kept[x], x[2])
                                    /\ kept[x].uuid # Null =>
                                        x[2].uuid \notin taken /\ x[2].uuid \in Claimed(offers)
               /\ \A x, y \in offers : kept[x].uuid = kept[y].uuid /\ kept[x].uuid # Null => x = y
<1> DEFINE kept == Reserve(offers, taken)
           First(u) == CHOOSE x \in offers : x[2].uuid = u
           Less(x) == taken \cup IF x = First(x[2].uuid) THEN {} ELSE {x[2].uuid}
<1>1. DOMAIN kept = offers /\ \A x \in offers : kept[x] = UuidSafe(x[2], Less(x))
  BY DEF Reserve
<1> HIDE DEF kept
<1>2. ASSUME NEW x \in offers, kept[x].uuid # Null
      PROVE  /\ x[2].uuid \notin taken /\ x[2].uuid \in Claimed(offers)
             /\ x = First(x[2].uuid) /\ kept[x] = x[2]
  <2>1. x[2].uuid \notin Less(x) /\ kept[x] = x[2]
    <3> HIDE DEF Less
    <3> QED BY <1>1, <1>2, SafeKeeps DEF Keeps
  <2> QED BY <1>2, <2>1 DEF Claimed, Uuids
<1>3. \A x \in offers : Keeps(kept[x], x[2])
  <2> HIDE DEF Less
  <2> QED BY <1>1, SafeKeeps
<1>4. ASSUME NEW x \in offers, NEW y \in offers, kept[x].uuid = kept[y].uuid, kept[x].uuid # Null
      PROVE  x = y
  <2> HIDE DEF First
  <2> QED BY <1>2, <1>4
<1> QED BY <1>1, <1>2, <1>3, <1>4 DEF kept

\* A twin of one object is that object, and claims nothing.
LEMMA TwinOfOne ==
    ASSUME NEW o, IsObject(o)
    PROVE  Twin({o}) = [object |-> o, claimed |-> {}]
<1> DEFINE objects == {o}
           ranks == {r \in [objects -> 1..Cardinality(objects)] : IsInjective(r)}
           rank == CHOOSE r \in [objects -> 1..Cardinality(objects)] : IsInjective(r)
           Before(p) == {q \in objects : rank[q] < rank[p]}
           first == CHOOSE p \in objects : Before(p) = {}
           more  == objects \ {first}
           Added(p) == NewTo(UNION {q.attributes : q \in Before(p)}, p.attributes)
           Refs(p) == NewReferences(UNION {q.references : q \in Before(p)}, p.references)
           Filled(f, empty) == {p \in objects : p[f] # empty}
           Value(f, empty) == IF Filled(f, empty) = {} THEN empty
                              ELSE (CHOOSE p \in Filled(f, empty) : Before(p) \cap Filled(f, empty) = {})[f]
<1>1. rank[o] \in Nat
  <2>1. Cardinality(objects) = 1
    BY FS_Singleton
  <2>2. [p \in objects |-> 1] \in [objects -> 1..Cardinality(objects)]
    BY <2>1
  <2>3. IsInjective([p \in objects |-> 1])
    BY DEF IsInjective
  <2>4. rank \in [objects -> 1..Cardinality(objects)]
    BY <2>2, <2>3
  <2> HIDE DEF rank
  <2> QED BY <2>1, <2>4
<1>2. Before(o) = {}
  <2> HIDE DEF rank
  <2> QED BY <1>1
<1>3. first = o /\ more = {}
  <2> HIDE DEF Before
  <2> QED BY <1>2
<1>4. \A f, empty : Value(f, empty) = o[f]
  <2> HIDE DEF Before
  <2> QED BY <1>2
<1>5. Twin(objects) =
        [object |-> [WithMetadata(first, Value) EXCEPT
                        !.attributes = @ \cup {[a EXCEPT !.uuid = Null] : a \in UNION {Added(p) : p \in more}},
                        !.references = @ \cup UNION {Refs(p) : p \in more}],
         claimed |-> Uuids(UNION {Added(p) : p \in more})]
  BY DEF Twin
<1>6. Uuids(UNION {Added(p) : p \in more}) = {}
  BY <1>3 DEF Uuids
<1>7. WithMetadata(first, Value) = o
  <2> HIDE DEF Value, first
  <2> QED BY <1>3, <1>4 DEF WithMetadata, IsObject, Object, HasFields
<1>8. [WithMetadata(first, Value) EXCEPT
        !.attributes = @ \cup {[a EXCEPT !.uuid = Null] : a \in UNION {Added(p) : p \in more}},
        !.references = @ \cup UNION {Refs(p) : p \in more}] = o
  <2>1. /\ {[a EXCEPT !.uuid = Null] : a \in UNION {Added(p) : p \in more}} = {}
        /\ UNION {Refs(p) : p \in more} = {}
    BY <1>3
  <2> HIDE DEF Value, first, more, Added, Refs
  <2> QED BY <1>7, <2>1 DEF IsObject, Object, HasFields
<1> HIDE DEF Value, first, more, Added, Refs
<1> QED BY <1>5, <1>6, <1>8

\* A server's objects have no duplicates: each is its own twin.
LEMMA EachIsItsTwin ==
    ASSUME NEW e, IsEvent(e), OneOfEach(e), NEW o \in e.objects
    PROVE  TwinOf(e, o.uuid).object = o /\ TwinOf(e, o.uuid).claimed = {} /\ Mine(e, o.uuid) = o
<1>1. Named(e.objects, o.uuid) = {o}
  BY DEF Named, OneOfEach
<1>2. IsObject(o)
  BY DEF IsEvent
<1>3. TwinOf(e, o.uuid) = [object |-> o, claimed |-> {}]
  BY <1>1, <1>2, TwinOfOne DEF TwinOf
<1>4. Mine(e, o.uuid) = o
  BY <1>1 DEF Mine
<1> QED BY <1>3, <1>4

-----------------------------------------------------------------------------
(* The objects of a merge, of events as servers keep them.                 *)

\* What the sides of a merge are.
Sides(d, p) == /\ IsEvent(d) /\ OneOfEach(d) /\ InOnePlace(d)
               /\ IsEvent(p) /\ OneOfEach(p) /\ InOnePlace(p)

Twins(d, p) == {t \in d.objects \X p.objects : t[1].uuid = t[2].uuid}
Alone(d, p) == {o \in d.objects : o.uuid \notin NamesOf(p.objects)}

\* Every object of a server has a UUID.
LEMMA NamesAre ==
    ASSUME NEW e, InOnePlace(e)
    PROVE  NamesOf(e.objects) = {o.uuid : o \in e.objects} /\ Named(e.objects, Null) = {}
BY DEF InOnePlace, NamesOf, Named

\* Objects are paired by UUID, each with its own twin; the others are left over.
LEMMA PairsAre ==
    ASSUME NEW d, NEW p, Sides(d, p)
    PROVE  /\ PairedOffers(d, p) = UNION {{t[1]} \X NewTo(t[1].attributes, t[2].attributes) : t \in Twins(d, p)}
           /\ ClaimedByTwins(p) = {}
           /\ Leftovers(d, p) = Alone(p, d)
<1> DEFINE Offers(u) == LET mine == Mine(d, u)
                        IN  {mine} \X NewTo(mine.attributes, TwinOf(p, u).object.attributes)
<1>1. \A q \in p.objects : TwinOf(p, q.uuid).object = q /\ TwinOf(p, q.uuid).claimed = {}
  BY EachIsItsTwin DEF Sides
<1>2. \A o \in d.objects : Mine(d, o.uuid) = o
  BY EachIsItsTwin DEF Sides
<1>3. /\ NamesOf(d.objects) = {o.uuid : o \in d.objects} /\ NamesOf(p.objects) = {q.uuid : q \in p.objects}
      /\ Named(p.objects, Null) = {}
  BY NamesAre DEF Sides
<1>4. ClaimedByTwins(p) = {}
  BY <1>1, <1>3 DEF ClaimedByTwins
<1>5. Leftovers(d, p) = Alone(p, d)
  BY <1>1, <1>3 DEF Leftovers, Alone
<1>6. PairedOffers(d, p) = UNION {Offers(u) : u \in Paired(d, p)}
  BY DEF PairedOffers
<1>7. ASSUME NEW o \in d.objects, NEW q \in p.objects, o.uuid = q.uuid
      PROVE  Offers(o.uuid) = {o} \X NewTo(o.attributes, q.attributes)
  BY <1>1, <1>2, <1>7
<1> HIDE DEF Offers
<1>8. ASSUME NEW u \in Paired(d, p)
      PROVE  \E t \in Twins(d, p) : Offers(u) = {t[1]} \X NewTo(t[1].attributes, t[2].attributes)
  <2>1. PICK o \in d.objects, q \in p.objects : o.uuid = u /\ q.uuid = u
    BY <1>3 DEF Paired
  <2>2. <<o, q>> \in Twins(d, p)
    BY <2>1 DEF Twins
  <2> QED BY <1>7, <2>1, <2>2
<1>9. ASSUME NEW t \in Twins(d, p)
      PROVE  t[1].uuid \in Paired(d, p) /\ Offers(t[1].uuid) = {t[1]} \X NewTo(t[1].attributes, t[2].attributes)
  BY <1>3, <1>7 DEF Paired, Twins
<1>10. PairedOffers(d, p) = UNION {{t[1]} \X NewTo(t[1].attributes, t[2].attributes) : t \in Twins(d, p)}
  BY <1>6, <1>8, <1>9
<1> QED BY <1>4, <1>5, <1>10

NoComment == ""
Either(x, y, empty) == IF x = empty THEN y ELSE x

\* An object of the destination with what it gains from its twin.
LEMMA ObjectMerged ==
    ASSUME NEW o, IsObject(o), NEW q, IsObject(q), NEW gained
    PROVE  LET m == MergeObject(o, q, gained)
           IN  /\ HasFields(m, DOMAIN Object) /\ m.distribution \in Nat
               /\ m.uuid = o.uuid /\ m.name = o.name
               /\ m.attributes = o.attributes \cup gained
               /\ m.references = o.references \cup NewReferences(o.references, q.references)
               /\ m.comment = Either(o.comment, q.comment, NoComment)
               /\ m.sharing = Either(o.sharing, q.sharing, Null)
               /\ m.distribution = Either(o.distribution, q.distribution, NoLevel)
               /\ m.rest = Either(o.rest, q.rest, Null)
BY DEF MergeObject, WithMetadata, Either, NoComment, IsObject, Object, HasFields

Gain(kept, t) == {kept[<<t[1], a>>] : a \in NewTo(t[1].attributes, t[2].attributes)}
JoinedTwin(kept, t) == MergeObject(t[1], t[2], Gain(kept, t))

\* The objects of the destination, each with what its twin adds.
LEMMA PairedAre ==
    ASSUME NEW d, NEW p, Sides(d, p), NEW taken
    PROVE  PairedObjects(d, p, taken) =
                Alone(d, p) \cup {JoinedTwin(Reserve(PairedOffers(d, p), taken), t) : t \in Twins(d, p)}
<1> DEFINE kept == Reserve(PairedOffers(d, p), taken)
           Gains(object) == {kept[x] : x \in {y \in DOMAIN kept : y[1] = object}}
           Mines == {Mine(d, u) : u \in Paired(d, p)}
           Merged(o) == MergeObject(o, TwinOf(p, o.uuid).object, Gains(o))
<1>1. PairedObjects(d, p, taken) = (d.objects \ Mines) \cup {Merged(o) : o \in Mines}
  BY DEF PairedObjects
<1>2. DOMAIN kept = PairedOffers(d, p)
  BY DEF Reserve
<1>3. /\ NamesOf(d.objects) = {o.uuid : o \in d.objects} /\ NamesOf(p.objects) = {q.uuid : q \in p.objects}
  BY NamesAre DEF Sides
<1>4. \A q \in p.objects : TwinOf(p, q.uuid).object = q
  BY EachIsItsTwin DEF Sides
<1>5. \A o \in d.objects : Mine(d, o.uuid) = o
  BY EachIsItsTwin DEF Sides
<1>6. Mines = {t[1] : t \in Twins(d, p)}
  <2>1. ASSUME NEW u \in Paired(d, p) PROVE \E t \in Twins(d, p) : Mine(d, u) = t[1]
    <3>1. PICK o \in d.objects, q \in p.objects : o.uuid = u /\ q.uuid = u
      BY <1>3 DEF Paired
    <3>2. <<o, q>> \in Twins(d, p)
      BY <3>1 DEF Twins
    <3> QED BY <1>5, <3>1, <3>2
  <2>2. ASSUME NEW t \in Twins(d, p) PROVE t[1].uuid \in Paired(d, p) /\ Mine(d, t[1].uuid) = t[1]
    BY <1>3, <1>5 DEF Paired, Twins
  <2> QED BY <2>1, <2>2
<1>7. d.objects \ Mines = Alone(d, p)
  <2>1. ASSUME NEW o \in d.objects PROVE o \in Mines <=> o.uuid \in NamesOf(p.objects)
    <3>1. ASSUME NEW q \in p.objects, q.uuid = o.uuid PROVE <<o, q>> \in Twins(d, p) /\ <<o, q>>[1] = o
      BY <3>1 DEF Twins
    <3> QED BY <1>3, <1>6, <3>1 DEF Twins
  <2> HIDE DEF Mines
  <2> QED BY <2>1 DEF Alone
<1>8. ASSUME NEW t \in Twins(d, p) PROVE Gains(t[1]) = Gain(kept, t)
  <2>1. ASSUME NEW x, x \in PairedOffers(d, p), x[1] = t[1]
        PROVE  \E a \in NewTo(t[1].attributes, t[2].attributes) : x = <<t[1], a>>
    <3>1. PICK w \in Twins(d, p) : x \in {w[1]} \X NewTo(w[1].attributes, w[2].attributes)
      BY <2>1, PairsAre
    <3>2. w[1] = t[1] /\ w[2] = t[2]
      BY <2>1, <3>1 DEF Twins, Sides, OneOfEach
    <3> QED BY <3>1, <3>2
  <2>2. ASSUME NEW a \in NewTo(t[1].attributes, t[2].attributes)
        PROVE  <<t[1], a>> \in PairedOffers(d, p)
    BY PairsAre
  <2> HIDE DEF kept
  <2>3. ASSUME NEW v \in Gains(t[1]) PROVE v \in Gain(kept, t)
    BY <1>2, <2>1 DEF Gain
  <2>4. ASSUME NEW v \in Gain(kept, t) PROVE v \in Gains(t[1])
    <3>1. PICK a \in NewTo(t[1].attributes, t[2].attributes) : v = kept[<<t[1], a>>]
      BY DEF Gain
    <3>2. <<t[1], a>>[1] = t[1]
      OBVIOUS
    <3> QED BY <1>2, <2>2, <3>1, <3>2
  <2> HIDE DEF Gains
  <2> QED BY <2>3, <2>4
<1>9. ASSUME NEW t \in Twins(d, p) PROVE Merged(t[1]) = JoinedTwin(kept, t)
  <2>1. TwinOf(p, t[1].uuid).object = t[2]
    BY <1>4 DEF Twins
  <2> HIDE DEF kept, Gains
  <2> QED BY <1>8, <2>1 DEF JoinedTwin
<1> HIDE DEF Mines, Merged, kept
<1>10. {Merged(o) : o \in Mines} = {JoinedTwin(kept, t) : t \in Twins(d, p)}
  BY <1>6, <1>9
<1> QED BY <1>1, <1>7, <1>10 DEF kept

AdopteeOffers(d, p) == UNION {{q} \X q.attributes : q \in Alone(p, d)}
Adopted(kept, q) == [q EXCEPT !.attributes = {kept[<<q, a>>] : a \in @}]

\* What is left is adopted: no object of the merge has its UUID.
LEMMA ObjectsAre ==
    ASSUME NEW d, NEW p, Sides(d, p), NEW taken
    PROVE  LET gains == Reserve(PairedOffers(d, p), taken)
               others == Reserve(AdopteeOffers(d, p), taken \cup Claimed(PairedOffers(d, p)))
           IN  MergeObjects(d, p, taken) =
                    Alone(d, p) \cup {JoinedTwin(gains, t) : t \in Twins(d, p)}
                        \cup {Adopted(others, q) : q \in Alone(p, d)}
<1> DEFINE gains == Reserve(PairedOffers(d, p), taken)
           merged == PairedObjects(d, p, taken)
           known == taken \cup ClaimedByTwins(p)
           left == {o \in Leftovers(d, p) : AdoptionKey(o) \notin {AdoptionKey(q) : q \in merged}}
<1>1. known = taken /\ Leftovers(d, p) = Alone(p, d)
  BY PairsAre
<1>2. merged = Alone(d, p) \cup {JoinedTwin(gains, t) : t \in Twins(d, p)}
  BY PairedAre
<1>3. ASSUME NEW o, HasFields(o, DOMAIN Object) PROVE AdoptionKey(o).uuid = o.uuid
  BY <1>3 DEF AdoptionKey, HasFields, Object
<1>4. ASSUME NEW t \in Twins(d, p)
      PROVE  /\ HasFields(JoinedTwin(gains, t), DOMAIN Object)
             /\ JoinedTwin(gains, t).uuid = t[1].uuid
  <2> DEFINE o == t[1]
             q == t[2]
             G == Gain(gains, t)
  <2>1. IsObject(o) /\ IsObject(q)
    BY DEF Twins, Sides, IsEvent
  <2>2. JoinedTwin(gains, t) = MergeObject(o, q, G)
    BY DEF JoinedTwin
  <2> HIDE DEF o, q, G
  <2>3. HasFields(MergeObject(o, q, G), DOMAIN Object) /\ MergeObject(o, q, G).uuid = o.uuid
    BY <2>1, ObjectMerged
  <2> QED BY <2>2, <2>3 DEF o
<1>5. ASSUME NEW m \in merged PROVE HasFields(m, DOMAIN Object) /\ m.uuid \in {o.uuid : o \in d.objects}
  <2> HIDE DEF gains, merged
  <2>1. CASE m \in Alone(d, p)
    BY <2>1 DEF Alone, Sides, IsEvent, IsObject
  <2>2. CASE m \in {JoinedTwin(gains, t) : t \in Twins(d, p)}
    BY <1>4, <2>2 DEF Twins
  <2> QED BY <1>2, <2>1, <2>2
<1>6. left = Alone(p, d)
  <2>1. ASSUME NEW q \in Alone(p, d), NEW m \in merged PROVE AdoptionKey(q) # AdoptionKey(m)
    <3>1. HasFields(q, DOMAIN Object) /\ q.uuid \notin {o.uuid : o \in d.objects}
      BY NamesAre DEF Alone, Sides, IsEvent, IsObject
    <3> HIDE DEF merged
    <3> QED BY <1>3, <1>5, <3>1
  <2> HIDE DEF merged
  <2> QED BY <1>1, <2>1
<1>7. MergeObjects(d, p, taken) =
        PairedObjects(d, p, known) \cup AdoptedObjects(left, known \cup Claimed(PairedOffers(d, p)))
  <2>1. known = taken
    BY <1>1
  <2> QED BY <2>1 DEF MergeObjects
<1> HIDE DEF known, left, merged, gains
<1>8. AdoptedObjects(Alone(p, d), taken \cup Claimed(PairedOffers(d, p))) =
        {Adopted(Reserve(AdopteeOffers(d, p), taken \cup Claimed(PairedOffers(d, p))), q) : q \in Alone(p, d)}
  BY DEF AdoptedObjects, Adopted, AdopteeOffers
<1> QED BY <1>1, <1>2, <1>6, <1>7, <1>8 DEF merged, gains

-----------------------------------------------------------------------------
(* The merged event.                                                       *)

Taken(d) == Uuids(AllAttributes(d))
Loose(d, p) == Reserve(LooseOffers(d, p), Taken(d))
Claims(d, p) == Taken(d) \cup Claimed(LooseOffers(d, p))
Gains(d, p) == Reserve(PairedOffers(d, p), Claims(d, p))
Others(d, p) == Reserve(AdopteeOffers(d, p), Claims(d, p) \cup Claimed(PairedOffers(d, p)))

\* What is in an event is an attribute.
LEMMA AttributesAre ==
    ASSUME NEW e, IsEvent(e)
    PROVE  /\ \A a \in AllAttributes(e) : IsAttribute(a)
           /\ \A a \in e.attributes : a \in AllAttributes(e)
           /\ \A o \in e.objects : \A a \in o.attributes : a \in AllAttributes(e)
BY DEF IsEvent, IsObject, AllAttributes

\* What is offered is the proposal's.
LEMMA OffersAre ==
    ASSUME NEW d, NEW p, Sides(d, p)
    PROVE  /\ \A x \in LooseOffers(d, p) : x[1] = d /\ x[2] \in p.attributes /\ x = <<d, x[2]>>
           /\ \A x \in PairedOffers(d, p) : \E t \in Twins(d, p) :
                /\ x[1] = t[1] /\ x[2] \in NewTo(t[1].attributes, t[2].attributes) /\ x = <<t[1], x[2]>>
           /\ \A x \in AdopteeOffers(d, p) : \E q \in Alone(p, d) :
                x[1] = q /\ x[2] \in q.attributes /\ x = <<q, x[2]>>
           /\ \A x \in LooseOffers(d, p) \cup PairedOffers(d, p) \cup AdopteeOffers(d, p) :
                x[2] \in AllAttributes(p) /\ IsAttribute(x[2])
<1>1. \A x \in LooseOffers(d, p) : x[1] = d /\ x[2] \in p.attributes /\ x = <<d, x[2]>>
  BY DEF LooseOffers, NewTo
<1>2. \A x \in PairedOffers(d, p) : \E t \in Twins(d, p) :
        x[1] = t[1] /\ x[2] \in NewTo(t[1].attributes, t[2].attributes) /\ x = <<t[1], x[2]>>
  BY PairsAre
<1>3. \A x \in AdopteeOffers(d, p) : \E q \in Alone(p, d) : x[1] = q /\ x[2] \in q.attributes /\ x = <<q, x[2]>>
  BY DEF AdopteeOffers
<1>4. \A t \in Twins(d, p) : \A a \in NewTo(t[1].attributes, t[2].attributes) : a \in AllAttributes(p)
  BY AttributesAre DEF Twins, Sides, NewTo
<1>5. \A q \in Alone(p, d) : q \in p.objects
  BY DEF Alone
<1>6. IsEvent(p)
  BY DEF Sides
<1>7. \A x \in LooseOffers(d, p) \cup PairedOffers(d, p) \cup AdopteeOffers(d, p) : x[2] \in AllAttributes(p)
  BY <1>1, <1>2, <1>3, <1>4, <1>5, <1>6, AttributesAre
<1> QED BY <1>1, <1>2, <1>3, <1>6, <1>7, AttributesAre

\* What becomes of the offers: each keeps its UUID if nothing before it had it.
LEMMA KeptAre ==
    ASSUME NEW d, NEW p, Sides(d, p)
    PROVE  /\ DOMAIN Loose(d, p) = LooseOffers(d, p) /\ DOMAIN Gains(d, p) = PairedOffers(d, p)
           /\ DOMAIN Others(d, p) = AdopteeOffers(d, p)
           /\ \A x \in LooseOffers(d, p) : /\ Keeps(Loose(d, p)[x], x[2])
                                           /\ Loose(d, p)[x].uuid # Null => x[2].uuid \notin Taken(d)
           /\ \A x \in PairedOffers(d, p) : /\ Keeps(Gains(d, p)[x], x[2])
                                            /\ Gains(d, p)[x].uuid # Null => x[2].uuid \notin Claims(d, p)
           /\ \A x \in AdopteeOffers(d, p) :
                /\ Keeps(Others(d, p)[x], x[2])
                /\ Others(d, p)[x].uuid # Null =>
                    x[2].uuid \notin Claims(d, p) \cup Claimed(PairedOffers(d, p))
           /\ \A x, y \in LooseOffers(d, p) :
                Loose(d, p)[x].uuid = Loose(d, p)[y].uuid /\ Loose(d, p)[x].uuid # Null => x = y
           /\ \A x, y \in PairedOffers(d, p) :
                Gains(d, p)[x].uuid = Gains(d, p)[y].uuid /\ Gains(d, p)[x].uuid # Null => x = y
           /\ \A x, y \in AdopteeOffers(d, p) :
                Others(d, p)[x].uuid = Others(d, p)[y].uuid /\ Others(d, p)[x].uuid # Null => x = y
<1> DEFINE Fair(offers, taken, kept) ==
                /\ DOMAIN kept = offers
                /\ \A x \in offers : Keeps(kept[x], x[2]) /\ (kept[x].uuid # Null => x[2].uuid \notin taken)
                /\ \A x, y \in offers : kept[x].uuid = kept[y].uuid /\ kept[x].uuid # Null => x = y
<1>1. ASSUME NEW offers, \A x \in offers : IsAttribute(x[2]), NEW taken
      PROVE  Fair(offers, taken, Reserve(offers, taken))
  BY <1>1, ReserveIs
<1>2. \A x \in LooseOffers(d, p) \cup PairedOffers(d, p) \cup AdopteeOffers(d, p) : IsAttribute(x[2])
  BY OffersAre
<1>3. Fair(LooseOffers(d, p), Taken(d), Loose(d, p))
  <2> HIDE DEF Fair
  <2> QED BY <1>1, <1>2 DEF Loose
<1>4. Fair(PairedOffers(d, p), Claims(d, p), Gains(d, p))
  <2> HIDE DEF Fair
  <2> QED BY <1>1, <1>2 DEF Gains
<1>5. Fair(AdopteeOffers(d, p), Claims(d, p) \cup Claimed(PairedOffers(d, p)), Others(d, p))
  <2> HIDE DEF Fair
  <2> QED BY <1>1, <1>2 DEF Others
<1> QED BY <1>3, <1>4, <1>5

\* A merged event, field by field.
LEMMA MergedFields ==
    ASSUME NEW d, NEW p, Sides(d, p)
    PROVE  LET m == MergedEvent(d, p)
           IN  /\ HasFields(m, DOMAIN Blank)
               /\ \A f \in {"uuid", "info", "rest", "published", "distribution", "sharing", "org"} : m[f] = d[f]
               /\ m.attributes = d.attributes \cup Range(Loose(d, p))
               /\ m.objects = Alone(d, p) \cup {JoinedTwin(Gains(d, p), t) : t \in Twins(d, p)}
                                \cup {Adopted(Others(d, p), q) : q \in Alone(p, d)}
               /\ m.galaxies = MergeGalaxies(d.galaxies, p.galaxies)
               /\ m.tags = MergeTags(d.tags, p.tags)
               /\ m.sightings = United(d.sightings, p.sightings)
               /\ m.proposals = United(d.proposals, p.proposals)
<1> DEFINE m == MergedEvent(d, p)
<1>1. /\ HasFields(m, DOMAIN Blank)
      /\ \A f \in {"uuid", "info", "rest", "published", "distribution", "sharing", "org"} : m[f] = d[f]
      /\ m.attributes = d.attributes \cup Range(Loose(d, p))
      /\ m.objects = MergeObjects(d, p, Claims(d, p))
      /\ m.galaxies = MergeGalaxies(d.galaxies, p.galaxies)
      /\ m.tags = MergeTags(d.tags, p.tags)
      /\ m.sightings = United(d.sightings, p.sightings)
      /\ m.proposals = United(d.proposals, p.proposals)
  BY DEF MergedEvent, Loose, Taken, Claims, Sides, IsEvent, HasFields, Blank
<1>2. MergeObjects(d, p, Claims(d, p)) =
        Alone(d, p) \cup {JoinedTwin(Gains(d, p), t) : t \in Twins(d, p)}
            \cup {Adopted(Others(d, p), q) : q \in Alone(p, d)}
  BY ObjectsAre DEF Gains, Others
<1> HIDE DEF m
<1> QED BY <1>1, <1>2 DEF m

\* The objects that a merge makes, with what they are made of.
LEMMA JoinedTwinIs ==
    ASSUME NEW d, NEW p, Sides(d, p), NEW t \in Twins(d, p)
    PROVE  LET o == t[1]
               q == t[2]
               m == JoinedTwin(Gains(d, p), t)
           IN  /\ o \in d.objects /\ q \in p.objects /\ o.uuid = q.uuid
               /\ IsObject(m) /\ m.uuid = o.uuid /\ m.name = o.name
               /\ m.attributes = o.attributes \cup Gain(Gains(d, p), t)
               /\ m.references = o.references \cup NewReferences(o.references, q.references)
               /\ m.comment = Either(o.comment, q.comment, NoComment)
               /\ m.sharing = Either(o.sharing, q.sharing, Null)
               /\ m.distribution = Either(o.distribution, q.distribution, NoLevel)
               /\ m.rest = Either(o.rest, q.rest, Null)
<1> DEFINE o == t[1]
           q == t[2]
           G == Gain(Gains(d, p), t)
           m == MergeObject(o, q, G)
<1>1. o \in d.objects /\ q \in p.objects /\ o.uuid = q.uuid
  BY DEF Twins
<1>2. IsObject(o) /\ IsObject(q)
  BY <1>1 DEF Sides, IsEvent
<1>3. G = {Gains(d, p)[<<o, a>>] : a \in NewTo(o.attributes, q.attributes)}
  BY DEF Gain
<1>4. m = JoinedTwin(Gains(d, p), t)
  BY DEF JoinedTwin
<1>5. IsFiniteSet(G)
  <2> DEFINE N == NewTo(o.attributes, q.attributes)
             f == [a \in N |-> Gains(d, p)[<<o, a>>]]
  <2>1. IsFiniteSet(N)
    <3>1. N \in SUBSET q.attributes
      BY DEF NewTo
    <3> QED BY <1>2, <3>1, FS_Subset DEF IsObject
  <2> HIDE DEF N, o, q
  <2>2. IsFiniteSet({f[a] : a \in N})
    BY <2>1, ImageIsFinite
  <2>3. {f[a] : a \in N} = {Gains(d, p)[<<o, a>>] : a \in N}
    OBVIOUS
  <2> QED BY <1>3, <2>2, <2>3 DEF N
<1>6. \A a \in G : IsAttribute(a)
  <2>1. ASSUME NEW a \in NewTo(o.attributes, q.attributes) PROVE IsAttribute(Gains(d, p)[<<o, a>>])
    <3>1. <<o, a>> \in PairedOffers(d, p)
      BY PairsAre
    <3> QED BY <3>1, KeptAre DEF Keeps
  <2> HIDE DEF o, q, G
  <2> QED BY <1>3, <2>1
<1> HIDE DEF o, q, G, m
<1>7. /\ HasFields(m, DOMAIN Object) /\ m.distribution \in Nat
      /\ m.uuid = o.uuid /\ m.name = o.name
      /\ m.attributes = o.attributes \cup G
      /\ m.references = o.references \cup NewReferences(o.references, q.references)
      /\ m.comment = Either(o.comment, q.comment, NoComment)
      /\ m.sharing = Either(o.sharing, q.sharing, Null)
      /\ m.distribution = Either(o.distribution, q.distribution, NoLevel)
      /\ m.rest = Either(o.rest, q.rest, Null)
  BY <1>2, ObjectMerged DEF m
<1>8. IsObject(m)
  <2>1. IsFiniteSet(m.attributes) /\ \A a \in m.attributes : IsAttribute(a)
    BY <1>2, <1>5, <1>6, <1>7, FS_Union DEF IsObject
  <2>2. \A r \in m.references : HasFields(r, {"uuid", "target", "kind"})
    BY <1>2, <1>7 DEF IsObject, NewReferences
  <2> QED BY <1>7, <2>1, <2>2 DEF IsObject
<1> QED BY <1>1, <1>4, <1>7, <1>8 DEF o, q, G

\* An adopted object is the proposed one, but for UUIDs that were taken.
LEMMA AdoptedIs ==
    ASSUME NEW d, NEW p, Sides(d, p), NEW q \in Alone(p, d)
    PROVE  LET m == Adopted(Others(d, p), q)
           IN  /\ q \in p.objects /\ q.uuid \notin {o.uuid : o \in d.objects}
               /\ IsObject(m) /\ \A f \in DOMAIN Object \ {"attributes"} : m[f] = q[f]
               /\ m.attributes = {Others(d, p)[<<q, a>>] : a \in q.attributes}
<1> DEFINE m == Adopted(Others(d, p), q)
           f == [a \in q.attributes |-> Others(d, p)[<<q, a>>]]
<1>1. q \in p.objects /\ IsObject(q) /\ q.uuid \notin {o.uuid : o \in d.objects}
  BY NamesAre DEF Alone, Sides, IsEvent
<1>2. /\ HasFields(m, DOMAIN Object) /\ \A g \in DOMAIN Object \ {"attributes"} : m[g] = q[g]
      /\ m.attributes = {Others(d, p)[<<q, a>>] : a \in q.attributes}
  BY <1>1 DEF Adopted, IsObject, HasFields, Object
<1> HIDE DEF m
<1>3. IsFiniteSet(m.attributes)
  <2>1. IsFiniteSet(q.attributes)
    BY <1>1 DEF IsObject
  <2>2. IsFiniteSet({f[a] : a \in q.attributes})
    BY <2>1, ImageIsFinite
  <2>3. {f[a] : a \in q.attributes} = {Others(d, p)[<<q, a>>] : a \in q.attributes}
    OBVIOUS
  <2> QED BY <1>2, <2>2, <2>3
<1>4. \A a \in m.attributes : IsAttribute(a)
  <2>1. ASSUME NEW a \in q.attributes PROVE IsAttribute(Others(d, p)[<<q, a>>])
    <3>1. <<q, a>> \in AdopteeOffers(d, p)
      BY DEF AdopteeOffers
    <3> QED BY <3>1, KeptAre DEF Keeps
  <2> QED BY <1>2, <2>1
<1>5. m.distribution = q.distribution /\ m.references = q.references
  BY <1>2 DEF Object
<1>6. IsObject(m)
  BY <1>1, <1>2, <1>3, <1>4, <1>5 DEF IsObject
<1> QED BY <1>1, <1>2, <1>6 DEF m

\* Galaxies are joined by identity, and joining what was joined changes nothing.
LEMMA GalaxiesMerged ==
    ASSUME NEW D, NEW P, \A g \in D \cup P : HasFields(g, {"name", "uuid", "clusters"})
    PROVE  LET G == MergeGalaxies(D, P)
           IN  /\ \A g \in G : HasFields(g, {"name", "uuid", "clusters"})
               /\ \A g \in D \cup P : \E h \in G : h.uuid = g.uuid /\ g.clusters \subseteq h.clusters
               /\ MergeGalaxies(G, P) = G
<1> DEFINE Identity(g) == IF g.uuid = Null THEN <<"name", g.name>> ELSE <<"uuid", g.uuid>>
           Sharing(S, id) == {g \in S : Identity(g) = id}
           Both(S, id) == UNION {g.clusters : g \in Sharing(S, id) \cup Sharing(P, id)}
           Own(S, id) == IF Sharing(S, id) # {} THEN Sharing(S, id) ELSE Sharing(P, id)
           Whole(S, id) == [CHOOSE g \in Own(S, id) : TRUE EXCEPT !.clusters = Both(S, id)]
           Ids(S) == {Identity(g) : g \in S \cup P}
           G == MergeGalaxies(D, P)
<1>1. ASSUME NEW S PROVE MergeGalaxies(S, P) = {Whole(S, Identity(g)) : g \in S \cup P}
  BY DEF MergeGalaxies
<1>2. ASSUME NEW S, \A g \in S \cup P : HasFields(g, {"name", "uuid", "clusters"}), NEW g \in S \cup P
      PROVE  /\ HasFields(Whole(S, Identity(g)), {"name", "uuid", "clusters"})
             /\ Whole(S, Identity(g)).clusters = Both(S, Identity(g))
             /\ Identity(Whole(S, Identity(g))) = Identity(g)
  <2> DEFINE id == Identity(g)
             k  == CHOOSE h \in Own(S, id) : TRUE
             B  == Both(S, id)
             w  == [k EXCEPT !.clusters = B]
  <2>1. k \in Own(S, id)
    <3>1. Own(S, id) # {}
      <4> HIDE DEF Identity
      <4> QED OBVIOUS
    <3> HIDE DEF Own
    <3> QED BY <3>1
  <2>2. k \in S \cup P /\ Identity(k) = id
    <3> HIDE DEF k, Identity
    <3> QED BY <2>1
  <2> HIDE DEF k, B
  <2>3. HasFields(w, {"name", "uuid", "clusters"}) /\ w.clusters = B /\ w.name = k.name /\ w.uuid = k.uuid
    BY <1>2, <2>2 DEF HasFields
  <2>4. Identity(w) = id
    <3> HIDE DEF w, id
    <3>1. Identity(w) = Identity(k)
      BY <2>3
    <3> HIDE DEF Identity
    <3> QED BY <2>2, <3>1
  <2>5. w = Whole(S, id)
    BY DEF k, B
  <2> HIDE DEF w, Whole, Identity
  <2> QED BY <2>3, <2>4, <2>5 DEF B
<1> HIDE DEF Own, Whole, Identity, Both, Sharing
<1>3. G = {Whole(D, Identity(g)) : g \in D \cup P}
  BY <1>1
<1> HIDE DEF G
<1>4. \A g \in G : HasFields(g, {"name", "uuid", "clusters"})
  BY <1>2, <1>3
<1>5. ASSUME NEW g \in D \cup P PROVE \E h \in G : h.uuid = g.uuid /\ g.clusters \subseteq h.clusters
  <2> DEFINE h == Whole(D, Identity(g))
  <2>1. h \in G
    BY <1>3
  <2>2. Identity(h) = Identity(g) /\ h.clusters = Both(D, Identity(g))
    BY <1>2
  <2>3. g.clusters \subseteq Both(D, Identity(g))
    BY DEF Both, Sharing
  <2> HIDE DEF h
  <2>4. h.uuid = g.uuid
    BY <2>2 DEF Identity
  <2> QED BY <2>1, <2>2, <2>3, <2>4
<1>6. \A g \in G \cup P : HasFields(g, {"name", "uuid", "clusters"})
  BY <1>4
<1>7. ASSUME NEW g \in D \cup P PROVE Sharing(G, Identity(g)) = {Whole(D, Identity(g))}
  <2>1. ASSUME NEW h \in G, Identity(h) = Identity(g) PROVE h = Whole(D, Identity(g))
    <3>1. PICK f \in D \cup P : h = Whole(D, Identity(f))
      BY <1>3
    <3>2. Identity(h) = Identity(f)
      BY <1>2, <3>1
    <3> QED BY <2>1, <3>1, <3>2
  <2>2. Whole(D, Identity(g)) \in G
    BY <1>3
  <2>3. Identity(Whole(D, Identity(g))) = Identity(g)
    BY <1>2
  <2> QED BY <2>1, <2>2, <2>3 DEF Sharing
<1>8. ASSUME NEW g \in D \cup P PROVE Whole(G, Identity(g)) = Whole(D, Identity(g))
  <2> DEFINE id == Identity(g)
             w  == Whole(D, id)
             x  == Whole(G, id)
  <2>1. w \in G /\ Identity(w) = id /\ w.clusters = Both(D, id)
    BY <1>2, <1>3
  <2>2. /\ x = [CHOOSE h \in Own(G, id) : TRUE EXCEPT !.clusters = Both(G, id)]
        /\ HasFields(w, {"name", "uuid", "clusters"})
    BY <1>4, <2>1 DEF Whole
  <2>3. Sharing(G, id) = {w}
    BY <1>7
  <2>4. Own(G, id) = {w}
    BY <2>3 DEF Own
  <2>5. Both(G, id) = Both(D, id)
    <3>1. Both(G, id) = w.clusters \cup UNION {h.clusters : h \in Sharing(P, id)}
      BY <2>3 DEF Both
    <3>2. Both(D, id) = Both(D, id) \cup UNION {h.clusters : h \in Sharing(P, id)}
      BY DEF Both
    <3> QED BY <2>1, <3>1, <3>2
  <2> HIDE DEF id, w, x
  <2>6. (CHOOSE h \in Own(G, id) : TRUE) = w
    BY <2>4
  <2>7. x = [w EXCEPT !.clusters = Both(D, id)]
    BY <2>2, <2>5, <2>6
  <2>8. x = w
    BY <2>1, <2>2, <2>7 DEF HasFields
  <2> QED BY <2>8 DEF x, w, id
<1>9. MergeGalaxies(G, P) = {Whole(G, Identity(g)) : g \in G \cup P}
  BY <1>1
<1>10. ASSUME NEW v PROVE v \in {Whole(G, Identity(g)) : g \in G \cup P} <=> v \in G
  <2>1. ASSUME NEW g \in G PROVE \E f \in D \cup P : Identity(g) = Identity(f) /\ g = Whole(D, Identity(f))
    BY <1>2, <1>3
  <2>2. ASSUME NEW g \in D \cup P PROVE \E f \in G \cup P : Identity(g) = Identity(f)
    <3>1. Whole(D, Identity(g)) \in G /\ Identity(Whole(D, Identity(g))) = Identity(g)
      BY <1>2, <1>3
    <3> QED BY <3>1
  <2>3. ASSUME NEW g \in G \cup P PROVE Whole(G, Identity(g)) \in G
    <3>1. PICK f \in D \cup P : Identity(g) = Identity(f)
      BY <2>1
    <3> QED BY <1>3, <1>8, <3>1
  <2>4. ASSUME v \in G PROVE \E g \in G \cup P : v = Whole(G, Identity(g))
    <3>1. PICK f \in D \cup P : v = Whole(D, Identity(f))
      BY <1>3, <2>4
    <3>2. PICK g \in G \cup P : Identity(g) = Identity(f)
      BY <2>2
    <3> QED BY <1>8, <3>1, <3>2
  <2> QED BY <2>3, <2>4
<1>11. MergeGalaxies(G, P) = G
  BY <1>9, <1>10
<1> QED BY <1>4, <1>5, <1>11 DEF G

\* A union of bags holds both, and uniting it again with one of them changes nothing.
LEMMA BagsUnited ==
    ASSUME NEW B, IsABag(B), NEW C, IsABag(C)
    PROVE  LET U == United(B, C)
           IN  IsABag(U) /\ B \sqsubseteq U /\ C \sqsubseteq U /\ United(U, C) = U
<1> DEFINE U == United(B, C)
           M == C (-) B
<1>0. /\ B \in [DOMAIN B -> {n \in Nat : n > 0}]
      /\ C \in [DOMAIN C -> {n \in Nat : n > 0}]
  BY DEF IsABag
<1>1. /\ DOMAIN M = {x \in DOMAIN C : x \in DOMAIN B => C[x] > B[x]}
      /\ \A x \in DOMAIN M : M[x] = IF x \in DOMAIN B THEN C[x] - B[x] ELSE C[x]
  BY <1>0 DEF (-)
<1>2. U = B (+) M
  BY DEF United
<1> HIDE DEF M
<1>3. /\ DOMAIN U = DOMAIN B \cup DOMAIN C
      /\ U = [x \in DOMAIN U |-> U[x]]
      /\ \A x \in DOMAIN U : /\ U[x] \in Nat /\ U[x] > 0
                             /\ x \in DOMAIN B => B[x] <= U[x]
                             /\ x \in DOMAIN C => C[x] <= U[x]
  BY <1>0, <1>1, <1>2 DEF (+)
<1> HIDE DEF U
<1>4. IsABag(U) /\ B \sqsubseteq U /\ C \sqsubseteq U
  BY <1>3 DEF IsABag, \sqsubseteq
<1>5. DOMAIN (C (-) U) = {}
  BY <1>0, <1>3 DEF (-)
<1>6. ASSUME NEW E, DOMAIN E = {} PROVE U (+) E = U
  BY <1>3, <1>6 DEF (+)
<1>7. United(U, C) = U
  BY <1>5, <1>6 DEF United
<1> QED BY <1>4, <1>7 DEF U

\* What has a UUID has it alone, and every object has one.
Apart(e) ==
    /\ \A x, y \in Members(e) : x[2].uuid = y[2].uuid /\ x[2].uuid # Null => x = y
    /\ \A o \in e.objects : o.uuid # Null
    /\ \A o, p \in e.objects : o.uuid = p.uuid => o = p

\* A server keeps events whose members are apart and all have UUIDs.
LEMMA ApartIs ==
    ASSUME NEW e
    PROVE  OneOfEach(e) /\ InOnePlace(e) <=> Apart(e) /\ \A x \in Members(e) : x[2].uuid # Null
<1>1. ASSUME OneOfEach(e), InOnePlace(e) PROVE Apart(e) /\ \A x \in Members(e) : x[2].uuid # Null
  BY <1>1, MembersAll DEF OneOfEach, InOnePlace, Apart
<1>2. ASSUME Apart(e), \A x \in Members(e) : x[2].uuid # Null PROVE OneOfEach(e) /\ InOnePlace(e)
  <2>1. ASSUME NEW a \in AllAttributes(e), NEW b \in AllAttributes(e), a.uuid = b.uuid PROVE a = b
    <3>1. PICK x \in Members(e), y \in Members(e) : x[2] = a /\ y[2] = b
      BY MembersAll
    <3> QED BY <1>2, <2>1, <3>1 DEF Apart
  <2>2. \A a \in AllAttributes(e) : a.uuid # Null
    BY <1>2, MembersAll
  <2> QED BY <1>2, <2>1, <2>2 DEF Apart, OneOfEach, InOnePlace
<1> QED BY <1>1, <1>2

\* Whatever is in the merged event was there, or is one of the offers.
LEMMA MergedMembers ==
    ASSUME NEW d, NEW p, Sides(d, p), NEW x \in Members(MergedEvent(d, p))
    PROVE  \/ x \in Members(d)
           \/ \E y \in LooseOffers(d, p) : x = <<Null, Loose(d, p)[y]>>
           \/ \E y \in PairedOffers(d, p) : x = <<y[1].uuid, Gains(d, p)[y]>>
           \/ \E y \in AdopteeOffers(d, p) : x = <<y[1].uuid, Others(d, p)[y]>>
<1> DEFINE m == MergedEvent(d, p)
<1>1. /\ m.attributes = d.attributes \cup Range(Loose(d, p))
      /\ m.objects = Alone(d, p) \cup {JoinedTwin(Gains(d, p), t) : t \in Twins(d, p)}
                                \cup {Adopted(Others(d, p), q) : q \in Alone(p, d)}
  BY MergedFields
<1>2. DOMAIN Loose(d, p) = LooseOffers(d, p)
  BY KeptAre
<1> HIDE DEF m
<1>3. CASE x \in {Null} \X m.attributes
  <2>1. CASE x[2] \in d.attributes
    BY <1>3, <2>1 DEF Members
  <2>2. CASE x[2] \in Range(Loose(d, p))
    BY <1>2, <1>3, <2>2 DEF Range
  <2> QED BY <1>1, <1>3, <2>1, <2>2
<1>4. ASSUME NEW o \in m.objects, x \in {o.uuid} \X o.attributes
      PROVE  \/ x \in Members(d)
             \/ \E y \in PairedOffers(d, p) : x = <<y[1].uuid, Gains(d, p)[y]>>
             \/ \E y \in AdopteeOffers(d, p) : x = <<y[1].uuid, Others(d, p)[y]>>
  <2>1. CASE o \in Alone(d, p)
    BY <1>4, <2>1 DEF Alone, Members
  <2>2. ASSUME NEW t \in Twins(d, p), o = JoinedTwin(Gains(d, p), t)
        PROVE  x \in Members(d) \/ \E y \in PairedOffers(d, p) : x = <<y[1].uuid, Gains(d, p)[y]>>
    <3>1. /\ t[1] \in d.objects /\ o.uuid = t[1].uuid
          /\ o.attributes = t[1].attributes \cup Gain(Gains(d, p), t)
      BY <2>2, JoinedTwinIs
    <3>2. CASE x[2] \in t[1].attributes
      BY <1>4, <3>1, <3>2 DEF Members
    <3>3. ASSUME NEW a \in NewTo(t[1].attributes, t[2].attributes), x[2] = Gains(d, p)[<<t[1], a>>]
          PROVE  \E y \in PairedOffers(d, p) : x = <<y[1].uuid, Gains(d, p)[y]>>
      <4> DEFINE y == <<t[1], a>>
      <4>1. y \in PairedOffers(d, p) /\ y[1] = t[1]
        BY PairsAre
      <4>2. x = <<y[1].uuid, Gains(d, p)[y]>>
        BY <1>4, <3>1, <3>3
      <4> HIDE DEF y
      <4> QED BY <4>1, <4>2
    <3> QED BY <1>4, <3>1, <3>2, <3>3 DEF Gain
  <2>3. ASSUME NEW q \in Alone(p, d), o = Adopted(Others(d, p), q)
        PROVE  \E y \in AdopteeOffers(d, p) : x = <<y[1].uuid, Others(d, p)[y]>>
    <3>1. o.uuid = q.uuid /\ o.attributes = {Others(d, p)[<<q, a>>] : a \in q.attributes}
      <4>1. "uuid" \in DOMAIN Object \ {"attributes"}
        BY DEF Object
      <4> QED BY <2>3, <4>1, AdoptedIs
    <3>2. PICK a \in q.attributes : x[2] = Others(d, p)[<<q, a>>]
      BY <1>4, <3>1
    <3> DEFINE y == <<q, a>>
    <3>3. y \in AdopteeOffers(d, p) /\ y[1] = q
      BY DEF AdopteeOffers
    <3>4. x = <<y[1].uuid, Others(d, p)[y]>>
      BY <1>4, <3>1, <3>2
    <3> HIDE DEF y
    <3> QED BY <3>3, <3>4
  <2> QED BY <1>1, <2>1, <2>2, <2>3
<1>5. Members(m) = ({Null} \X m.attributes) \cup UNION {{o.uuid} \X o.attributes : o \in m.objects}
  BY DEF Members
<1> QED BY <1>3, <1>4, <1>5 DEF m

\* A merged event has each UUID once, however its sides moved what they share.
LEMMA MergedIsApart ==
    ASSUME NEW d, NEW p, Sides(d, p)
    PROVE  LET m == MergedEvent(d, p)
           IN  /\ IsEvent(m) /\ Apart(m)
               /\ Taken(m) \subseteq Taken(d) \cup Taken(p)
               /\ {o.uuid : o \in m.objects} = {o.uuid : o \in d.objects \cup p.objects}
<1> DEFINE m == MergedEvent(d, p)
           InD(x) == x \in Members(d)
           InL(x) == \E y \in LooseOffers(d, p) : x = <<Null, Loose(d, p)[y]>>
           InG(x) == \E y \in PairedOffers(d, p) : x = <<y[1].uuid, Gains(d, p)[y]>>
           InA(x) == \E y \in AdopteeOffers(d, p) : x = <<y[1].uuid, Others(d, p)[y]>>
<1>1. \A x \in Members(m) : InD(x) \/ InL(x) \/ InG(x) \/ InA(x)
  BY MergedMembers
<1> HIDE DEF m
<1>2. ASSUME NEW x, InD(x) PROVE x[2].uuid \in Taken(d)
  BY <1>2, MembersAll DEF Taken, Uuids, Sides, InOnePlace
<1>3. ASSUME NEW x, InL(x), x[2].uuid # Null
      PROVE x[2].uuid \in Claimed(LooseOffers(d, p)) /\ x[2].uuid \notin Taken(d) /\ x[2].uuid \in Taken(p)
  BY <1>3, KeptAre, OffersAre DEF Keeps, Claimed, Uuids, Taken
<1>4. ASSUME NEW x, InG(x), x[2].uuid # Null
      PROVE x[2].uuid \in Claimed(PairedOffers(d, p)) /\ x[2].uuid \notin Claims(d, p) /\ x[2].uuid \in Taken(p)
  BY <1>4, KeptAre, OffersAre DEF Keeps, Claimed, Uuids, Taken
<1>5. ASSUME NEW x, InA(x), x[2].uuid # Null
      PROVE /\ x[2].uuid \notin Claims(d, p) \cup Claimed(PairedOffers(d, p)) /\ x[2].uuid \in Taken(p)
  BY <1>5, KeptAre, OffersAre DEF Keeps, Claimed, Uuids, Taken
<1>6. ASSUME NEW x, NEW y, x[2].uuid = y[2].uuid, x[2].uuid # Null
      PROVE  /\ InD(x) /\ InD(y) => x = y
             /\ InL(x) /\ InL(y) => x = y
             /\ InG(x) /\ InG(y) => x = y
             /\ InA(x) /\ InA(y) => x = y
  <2>1. InD(x) /\ InD(y) => x = y
    BY <1>6, ApartIs DEF Sides, Apart
  <2>2. InL(x) /\ InL(y) => x = y
    BY <1>6, KeptAre
  <2>3. InG(x) /\ InG(y) => x = y
    BY <1>6, KeptAre
  <2>4. InA(x) /\ InA(y) => x = y
    BY <1>6, KeptAre
  <2> QED BY <2>1, <2>2, <2>3, <2>4
<1> HIDE DEF InD, InL, InG, InA
<1>7. ASSUME NEW x \in Members(m), NEW y \in Members(m), x[2].uuid = y[2].uuid, x[2].uuid # Null
      PROVE  x = y
  <2>1. Taken(d) \subseteq Claims(d, p) /\ Claimed(LooseOffers(d, p)) \subseteq Claims(d, p)
    BY DEF Claims
  <2> QED BY <1>1, <1>2, <1>3, <1>4, <1>5, <1>6, <1>7, <2>1
<1>8. Taken(m) \subseteq Taken(d) \cup Taken(p)
  <2>1. ASSUME NEW a \in AllAttributes(m), a.uuid # Null PROVE a.uuid \in Taken(d) \cup Taken(p)
    <3>1. PICK x \in Members(m) : x[2] = a
      BY MembersAll
    <3> QED BY <1>1, <1>2, <1>3, <1>4, <1>5, <2>1, <3>1
  <2> QED BY <2>1 DEF Taken, Uuids
<1>9. /\ HasFields(m, DOMAIN Blank)
      /\ \A f \in {"uuid", "info", "rest", "published", "distribution", "sharing", "org"} : m[f] = d[f]
      /\ m.attributes = d.attributes \cup Range(Loose(d, p))
      /\ m.objects = Alone(d, p) \cup {JoinedTwin(Gains(d, p), t) : t \in Twins(d, p)}
                                \cup {Adopted(Others(d, p), q) : q \in Alone(p, d)}
      /\ m.galaxies = MergeGalaxies(d.galaxies, p.galaxies)
      /\ m.sightings = United(d.sightings, p.sightings)
  BY MergedFields DEF m
<1>10. \A o \in Alone(d, p) : IsObject(o) /\ o \in d.objects /\ o.uuid \notin {q.uuid : q \in p.objects}
  BY NamesAre DEF Alone, Sides, IsEvent
<1>11. ASSUME NEW t \in Twins(d, p)
       PROVE  /\ t[1] \in d.objects /\ t[2] \in p.objects /\ t[1].uuid = t[2].uuid
              /\ IsObject(JoinedTwin(Gains(d, p), t)) /\ JoinedTwin(Gains(d, p), t).uuid = t[1].uuid
  BY JoinedTwinIs
<1>12. ASSUME NEW q \in Alone(p, d)
       PROVE  /\ q \in p.objects /\ q.uuid \notin {o.uuid : o \in d.objects}
              /\ IsObject(Adopted(Others(d, p), q)) /\ Adopted(Others(d, p), q).uuid = q.uuid
  <2>1. "uuid" \in DOMAIN Object \ {"attributes"}
    BY DEF Object
  <2> QED BY <2>1, AdoptedIs
<1>13. \A o \in m.objects : IsObject(o) /\ o.uuid \in {q.uuid : q \in d.objects \cup p.objects}
  BY <1>9, <1>10, <1>11, <1>12
<1>14. ASSUME NEW o \in d.objects \cup p.objects PROVE \E q \in m.objects : q.uuid = o.uuid
  <2>1. CASE o \in d.objects /\ \E q \in p.objects : o.uuid = q.uuid
    <3>1. PICK q \in p.objects : o.uuid = q.uuid
      BY <2>1
    <3>2. <<o, q>> \in Twins(d, p)
      BY <2>1, <3>1 DEF Twins
    <3> QED BY <1>9, <1>11, <3>2
  <2>2. CASE o \in d.objects /\ ~\E q \in p.objects : o.uuid = q.uuid
    <3>1. o \in Alone(d, p)
      BY <2>2, NamesAre DEF Alone, Sides
    <3> QED BY <1>9, <3>1
  <2>3. CASE o \in p.objects /\ ~\E q \in d.objects : o.uuid = q.uuid
    <3>1. o \in Alone(p, d)
      BY <2>3, NamesAre DEF Alone, Sides
    <3> QED BY <1>9, <1>12, <3>1
  <2>4. CASE o \in p.objects /\ \E q \in d.objects : o.uuid = q.uuid
    <3>1. PICK q \in d.objects : o.uuid = q.uuid
      BY <2>4
    <3>2. <<q, o>> \in Twins(d, p)
      BY <2>4, <3>1 DEF Twins
    <3> QED BY <1>9, <1>11, <3>1, <3>2
  <2> QED BY <2>1, <2>2, <2>3, <2>4
<1>15. ASSUME NEW o \in m.objects, NEW q \in m.objects, o.uuid = q.uuid PROVE o = q
  <2>1. \A x, y \in d.objects : x.uuid = y.uuid => x = y
    BY DEF Sides, OneOfEach
  <2>2. \A x, y \in p.objects : x.uuid = y.uuid => x = y
    BY DEF Sides, OneOfEach
  <2>3. ASSUME NEW t \in Twins(d, p), NEW w \in Twins(d, p), t[1].uuid = w[1].uuid PROVE t = w
    <3>1. t[1] = w[1] /\ t[2] = w[2]
      BY <1>11, <2>1, <2>2, <2>3
    <3> QED BY <3>1 DEF Twins
  <2>4. o \in Alone(d, p) /\ q \in Alone(d, p) => o = q
    BY <1>10, <1>15, <2>1
  <2>5. ASSUME NEW x \in Alone(d, p), NEW t \in Twins(d, p) PROVE x.uuid # JoinedTwin(Gains(d, p), t).uuid
    BY <1>10, <1>11
  <2>6. ASSUME NEW x \in Alone(d, p), NEW y \in Alone(p, d) PROVE x.uuid # Adopted(Others(d, p), y).uuid
    BY <1>10, <1>12
  <2>7. ASSUME NEW t \in Twins(d, p), NEW y \in Alone(p, d)
        PROVE  JoinedTwin(Gains(d, p), t).uuid # Adopted(Others(d, p), y).uuid
    BY <1>11, <1>12
  <2>8. ASSUME NEW t \in Twins(d, p), NEW w \in Twins(d, p),
               JoinedTwin(Gains(d, p), t).uuid = JoinedTwin(Gains(d, p), w).uuid
        PROVE  t = w
    BY <1>11, <2>3, <2>8
  <2>9. ASSUME NEW x \in Alone(p, d), NEW y \in Alone(p, d),
               Adopted(Others(d, p), x).uuid = Adopted(Others(d, p), y).uuid
        PROVE  x = y
    BY <1>12, <2>2, <2>9
  <2> QED BY <1>9, <1>15, <2>4, <2>5, <2>6, <2>7, <2>8, <2>9
<1>16. Apart(m)
  <2>1. \A o \in m.objects : o.uuid # Null
    BY <1>13 DEF Sides, InOnePlace
  <2> QED BY <1>7, <1>15, <2>1 DEF Apart
<1>17. IsFiniteSet(m.attributes) /\ \A a \in m.attributes : IsAttribute(a)
  <2>1. IsFiniteSet(LooseOffers(d, p))
    <3>1. NewTo(AllAttributes(d), p.attributes) \in SUBSET p.attributes /\ IsFiniteSet(p.attributes)
      BY DEF NewTo, Sides, IsEvent
    <3>2. IsFiniteSet(NewTo(AllAttributes(d), p.attributes)) /\ IsFiniteSet({d})
      BY <3>1, FS_Subset, FS_Singleton
    <3> QED BY <3>2, FS_Product DEF LooseOffers
  <2>2. DOMAIN Loose(d, p) = LooseOffers(d, p)
    BY KeptAre
  <2>3. IsFiniteSet(Range(Loose(d, p)))
    BY <2>1, <2>2, ImageIsFinite DEF Range
  <2>4. \A a \in Range(Loose(d, p)) : IsAttribute(a)
    BY <2>2, KeptAre DEF Range, Keeps
  <2>5. IsFiniteSet(d.attributes) /\ \A a \in d.attributes : IsAttribute(a)
    BY DEF Sides, IsEvent
  <2>6. IsFiniteSet(d.attributes \cup Range(Loose(d, p)))
    BY <2>3, <2>5, FS_Union
  <2> QED BY <1>9, <2>4, <2>5, <2>6
<1>18. IsFiniteSet(m.objects)
  <2>1. IsFiniteSet(d.objects) /\ IsFiniteSet(p.objects)
    BY DEF Sides, IsEvent
  <2>2. /\ Alone(d, p) \in SUBSET d.objects /\ Alone(p, d) \in SUBSET p.objects
        /\ Twins(d, p) \in SUBSET (d.objects \X p.objects)
    BY DEF Alone, Twins
  <2>3. IsFiniteSet(Alone(d, p)) /\ IsFiniteSet(Alone(p, d))
    BY <2>1, <2>2, FS_Subset
  <2>4. IsFiniteSet(Twins(d, p))
    <3>1. IsFiniteSet(d.objects \X p.objects)
      BY <2>1, FS_Product
    <3> QED BY <2>2, <3>1, FS_Subset
  <2> DEFINE f == [t \in Twins(d, p) |-> JoinedTwin(Gains(d, p), t)]
             g == [q \in Alone(p, d) |-> Adopted(Others(d, p), q)]
  <2>5. IsFiniteSet({f[t] : t \in Twins(d, p)}) /\ IsFiniteSet({g[q] : q \in Alone(p, d)})
    <3> HIDE DEF f, g
    <3>1. DOMAIN f = Twins(d, p) /\ DOMAIN g = Alone(p, d)
      BY DEF f, g
    <3> QED BY <2>3, <2>4, <3>1, ImageIsFinite
  <2>6. /\ {f[t] : t \in Twins(d, p)} = {JoinedTwin(Gains(d, p), t) : t \in Twins(d, p)}
        /\ {g[q] : q \in Alone(p, d)} = {Adopted(Others(d, p), q) : q \in Alone(p, d)}
    OBVIOUS
  <2> HIDE DEF f, g
  <2>7. IsFiniteSet(Alone(d, p) \cup {JoinedTwin(Gains(d, p), t) : t \in Twins(d, p)})
    BY <2>3, <2>5, <2>6, FS_Union
  <2>8. IsFiniteSet((Alone(d, p) \cup {JoinedTwin(Gains(d, p), t) : t \in Twins(d, p)})
                        \cup {Adopted(Others(d, p), q) : q \in Alone(p, d)})
    BY <2>5, <2>6, <2>7, FS_Union
  <2> QED BY <1>9, <2>8
<1>19. \A g \in m.galaxies : HasFields(g, {"name", "uuid", "clusters"})
  <2>1. \A g \in d.galaxies \cup p.galaxies : HasFields(g, {"name", "uuid", "clusters"})
    BY DEF Sides, IsEvent
  <2>2. \A g \in MergeGalaxies(d.galaxies, p.galaxies) : HasFields(g, {"name", "uuid", "clusters"})
    BY <2>1, GalaxiesMerged
  <2> QED BY <1>9, <2>2
<1>s. \A x \in BagToSet(m.sightings) : HasFields(x, {"uuid", "attribute"})
  <2>1. DOMAIN m.sightings \subseteq DOMAIN d.sightings \cup DOMAIN p.sightings
    BY <1>9 DEF United, (+), (-)
  <2> QED BY <2>1 DEF BagToSet, Sides, IsEvent
<1>20. IsEvent(m)
  <2>1. m.distribution = d.distribution /\ d.distribution \in Nat
    BY <1>9 DEF Sides, IsEvent
  <2> QED BY <1>9, <1>13, <1>17, <1>18, <1>19, <1>s, <2>1 DEF IsEvent
<1>21. {o.uuid : o \in m.objects} = {o.uuid : o \in d.objects \cup p.objects}
  BY <1>13, <1>14
<1> QED BY <1>8, <1>16, <1>20, <1>21 DEF m

\* An object has the content of another, under the same UUID ...
Covers(m, o) ==
    /\ m.uuid = o.uuid
    /\ \A a \in o.attributes : \E b \in m.attributes : Key(b) = Key(a)
    /\ \A r \in o.references : \E s \in m.references : s.target = r.target /\ s.kind = r.kind
\* ... and lacks no metadata that the other has.
Fills(m, q) ==
    /\ m.comment = NoComment => q.comment = NoComment
    /\ m.sharing = Null => q.sharing = Null
    /\ m.distribution = NoLevel => q.distribution = NoLevel
    /\ m.rest = Null => q.rest = Null

\* A merge keeps what was there and carries over what was proposed.
LEMMA MergedHolds ==
    ASSUME NEW d, NEW p, Sides(d, p)
    PROVE  LET m == MergedEvent(d, p)
           IN  /\ d.attributes \subseteq m.attributes
               /\ AllAttributes(d) \subseteq AllAttributes(m)
               /\ \A a \in p.attributes : \E b \in AllAttributes(m) : Key(b) = Key(a)
               /\ \A o \in d.objects : \E x \in m.objects : Covers(x, o)
               /\ \A q \in p.objects : \E x \in m.objects : Covers(x, q) /\ Fills(x, q)
<1> DEFINE m == MergedEvent(d, p)
<1>1. /\ m.attributes = d.attributes \cup Range(Loose(d, p))
      /\ m.objects = Alone(d, p) \cup {JoinedTwin(Gains(d, p), t) : t \in Twins(d, p)}
                                \cup {Adopted(Others(d, p), q) : q \in Alone(p, d)}
  BY MergedFields
<1> HIDE DEF m
<1>2. ASSUME NEW t \in Twins(d, p)
      PROVE  LET x == JoinedTwin(Gains(d, p), t)
             IN  /\ x \in m.objects /\ t[1].attributes \subseteq x.attributes
                 /\ Covers(x, t[1]) /\ Covers(x, t[2]) /\ Fills(x, t[2])
  <2> DEFINE o == t[1]
             q == t[2]
             x == JoinedTwin(Gains(d, p), t)
  <2>1. /\ o.uuid = q.uuid /\ x.uuid = o.uuid
        /\ x.attributes = o.attributes \cup Gain(Gains(d, p), t)
        /\ x.references = o.references \cup NewReferences(o.references, q.references)
        /\ x.comment = Either(o.comment, q.comment, NoComment)
        /\ x.sharing = Either(o.sharing, q.sharing, Null)
        /\ x.distribution = Either(o.distribution, q.distribution, NoLevel)
        /\ x.rest = Either(o.rest, q.rest, Null)
    BY JoinedTwinIs
  <2>2. x \in m.objects
    BY <1>1
  <2>3. ASSUME NEW a \in q.attributes PROVE \E b \in x.attributes : Key(b) = Key(a)
    <3>1. CASE a \in NewTo(o.attributes, q.attributes)
      <4>1. <<o, a>> \in PairedOffers(d, p)
        BY <3>1, PairsAre
      <4>2. Key(Gains(d, p)[<<o, a>>]) = Key(a)
        BY <4>1, KeptAre DEF Keeps
      <4>3. Gains(d, p)[<<o, a>>] \in Gain(Gains(d, p), t)
        BY <3>1 DEF Gain
      <4> QED BY <2>1, <4>2, <4>3
    <3>2. CASE a \notin NewTo(o.attributes, q.attributes)
      <4>1. \E b \in o.attributes : Key(b) = Key(a)
        BY <3>2 DEF NewTo
      <4> QED BY <2>1, <4>1
    <3> QED BY <3>1, <3>2
  <2>4. ASSUME NEW r \in q.references PROVE \E s \in x.references : s.target = r.target /\ s.kind = r.kind
    <3>1. CASE r \in NewReferences(o.references, q.references)
      BY <2>1, <3>1
    <3>2. CASE r \notin NewReferences(o.references, q.references)
      <4>1. \E s \in o.references : <<s.target, s.kind>> = <<r.target, r.kind>>
        BY <3>2 DEF NewReferences
      <4> QED BY <2>1, <4>1
    <3> QED BY <3>1, <3>2
  <2> HIDE DEF x, o, q
  <2>5. Covers(x, o) /\ o.attributes \subseteq x.attributes
    BY <2>1 DEF Covers
  <2>6. Covers(x, q)
    BY <2>1, <2>3, <2>4 DEF Covers
  <2>7. Fills(x, q)
    BY <2>1 DEF Fills, Either
  <2> QED BY <2>2, <2>5, <2>6, <2>7 DEF x, o, q
<1>3. ASSUME NEW q \in Alone(p, d)
      PROVE  LET x == Adopted(Others(d, p), q)
             IN  x \in m.objects /\ Covers(x, q) /\ Fills(x, q)
  <2> DEFINE x == Adopted(Others(d, p), q)
  <2>1. /\ \A f \in DOMAIN Object \ {"attributes"} : x[f] = q[f]
        /\ x.attributes = {Others(d, p)[<<q, a>>] : a \in q.attributes}
    BY AdoptedIs
  <2>2. x \in m.objects
    BY <1>1
  <2> HIDE DEF x
  <2>3. /\ x.uuid = q.uuid /\ x.references = q.references /\ x.comment = q.comment
        /\ x.sharing = q.sharing /\ x.distribution = q.distribution /\ x.rest = q.rest
    BY <2>1 DEF Object
  <2>4. ASSUME NEW a \in q.attributes PROVE \E b \in x.attributes : Key(b) = Key(a)
    <3>1. <<q, a>> \in AdopteeOffers(d, p)
      BY DEF AdopteeOffers
    <3>2. Key(Others(d, p)[<<q, a>>]) = Key(a)
      BY <3>1, KeptAre DEF Keeps
    <3> QED BY <2>1, <3>2
  <2>5. Covers(x, q)
    BY <2>3, <2>4 DEF Covers
  <2>6. Fills(x, q)
    BY <2>3 DEF Fills
  <2> QED BY <2>2, <2>5, <2>6 DEF x
<1>4. ASSUME NEW o \in d.objects
      PROVE  \E x \in m.objects : Covers(x, o) /\ o.attributes \subseteq x.attributes
  <2>1. CASE \E q \in p.objects : q.uuid = o.uuid
    <3>1. PICK q \in p.objects : q.uuid = o.uuid
      BY <2>1
    <3>2. <<o, q>> \in Twins(d, p) /\ <<o, q>>[1] = o
      BY <3>1 DEF Twins
    <3> QED BY <1>2, <3>2
  <2>2. CASE ~\E q \in p.objects : q.uuid = o.uuid
    <3>1. o \in m.objects
      BY <1>1, <2>2, NamesAre DEF Alone, Sides
    <3>2. Covers(o, o)
      BY DEF Covers
    <3> QED BY <3>1, <3>2
  <2> QED BY <2>1, <2>2
<1>5. ASSUME NEW q \in p.objects PROVE \E x \in m.objects : Covers(x, q) /\ Fills(x, q)
  <2>1. CASE \E o \in d.objects : q.uuid = o.uuid
    <3>1. PICK o \in d.objects : q.uuid = o.uuid
      BY <2>1
    <3>2. <<o, q>> \in Twins(d, p) /\ <<o, q>>[2] = q
      BY <3>1 DEF Twins
    <3> QED BY <1>2, <3>2
  <2>2. CASE ~\E o \in d.objects : q.uuid = o.uuid
    <3>1. q \in Alone(p, d)
      BY <2>2, NamesAre DEF Alone, Sides
    <3> QED BY <1>3, <3>1
  <2> QED BY <2>1, <2>2
<1>6. AllAttributes(d) \subseteq AllAttributes(m)
  BY <1>1, <1>4 DEF AllAttributes
<1>7. ASSUME NEW a \in p.attributes PROVE \E b \in AllAttributes(m) : Key(b) = Key(a)
  <2>1. CASE a \in NewTo(AllAttributes(d), p.attributes)
    <3>1. <<d, a>> \in LooseOffers(d, p)
      BY <2>1 DEF LooseOffers
    <3>2. Key(Loose(d, p)[<<d, a>>]) = Key(a) /\ Loose(d, p)[<<d, a>>] \in Range(Loose(d, p))
      BY <3>1, KeptAre DEF Keeps, Range
    <3> QED BY <1>1, <3>2 DEF AllAttributes
  <2>2. CASE a \notin NewTo(AllAttributes(d), p.attributes)
    <3>1. \E b \in AllAttributes(d) : Key(b) = Key(a)
      BY <2>2 DEF NewTo
    <3> QED BY <1>6, <3>1
  <2> QED BY <2>1, <2>2
<1> QED BY <1>1, <1>4, <1>5, <1>6, <1>7 DEF m

\* An event that has all of a proposal already is what the merge makes of them.
LEMMA NothingToMerge ==
    ASSUME NEW d, NEW p, Sides(d, p),
           \A a \in p.attributes : \E b \in AllAttributes(d) : Key(b) = Key(a),
           \A q \in p.objects : \E x \in d.objects : Covers(x, q) /\ Fills(x, q),
           MergeGalaxies(d.galaxies, p.galaxies) = d.galaxies, MergeTags(d.tags, p.tags) = d.tags,
           United(d.sightings, p.sightings) = d.sightings, United(d.proposals, p.proposals) = d.proposals
    PROVE  MergedEvent(d, p) = d
<1> DEFINE m == MergedEvent(d, p)
<1>1. /\ HasFields(m, DOMAIN Blank)
      /\ \A f \in {"uuid", "info", "rest", "published", "distribution", "sharing", "org"} : m[f] = d[f]
      /\ m.attributes = d.attributes \cup Range(Loose(d, p))
      /\ m.objects = Alone(d, p) \cup {JoinedTwin(Gains(d, p), t) : t \in Twins(d, p)}
                                \cup {Adopted(Others(d, p), q) : q \in Alone(p, d)}
      /\ m.galaxies = d.galaxies /\ m.tags = d.tags
      /\ m.sightings = d.sightings /\ m.proposals = d.proposals
  BY MergedFields
<1> HIDE DEF m
<1>2. Range(Loose(d, p)) = {}
  <2>1. NewTo(AllAttributes(d), p.attributes) = {}
    BY DEF NewTo
  <2>2. LooseOffers(d, p) = {}
    BY <2>1 DEF LooseOffers
  <2>3. DOMAIN Loose(d, p) = {}
    BY <2>2, KeptAre
  <2> QED BY <2>3 DEF Range
<1>3. Alone(p, d) = {}
  BY NamesAre DEF Alone, Sides, Covers
<1>4. ASSUME NEW t \in Twins(d, p) PROVE JoinedTwin(Gains(d, p), t) = t[1]
  <2> DEFINE o == t[1]
             q == t[2]
             x == JoinedTwin(Gains(d, p), t)
  <2>1. /\ o \in d.objects /\ q \in p.objects /\ o.uuid = q.uuid
        /\ IsObject(x) /\ x.uuid = o.uuid /\ x.name = o.name
        /\ x.attributes = o.attributes \cup Gain(Gains(d, p), t)
        /\ x.references = o.references \cup NewReferences(o.references, q.references)
        /\ x.comment = Either(o.comment, q.comment, NoComment)
        /\ x.sharing = Either(o.sharing, q.sharing, Null)
        /\ x.distribution = Either(o.distribution, q.distribution, NoLevel)
        /\ x.rest = Either(o.rest, q.rest, Null)
    BY JoinedTwinIs
  <2>2. NewTo(o.attributes, q.attributes) = {} => Gain(Gains(d, p), t) = {}
    BY DEF Gain
  <2> HIDE DEF x, o, q
  <2>3. Covers(o, q) /\ Fills(o, q)
    <3>1. PICK y \in d.objects : Covers(y, q) /\ Fills(y, q)
      BY <2>1
    <3>2. y = o
      BY <2>1, <3>1 DEF Covers, Sides, OneOfEach
    <3> QED BY <3>1, <3>2
  <2>4. NewTo(o.attributes, q.attributes) = {}
    BY <2>3 DEF Covers, NewTo
  <2>5. NewReferences(o.references, q.references) = {}
    BY <2>3 DEF Covers, NewReferences
  <2>6. /\ x.uuid = o.uuid /\ x.name = o.name /\ x.attributes = o.attributes
        /\ x.references = o.references /\ x.comment = o.comment /\ x.sharing = o.sharing
        /\ x.distribution = o.distribution /\ x.rest = o.rest
    BY <2>1, <2>2, <2>3, <2>4, <2>5 DEF Fills, Either
  <2>7. HasFields(x, DOMAIN Object) /\ HasFields(o, DOMAIN Object)
    BY <2>1 DEF IsObject, Sides, IsEvent
  <2>8. x = o
    BY <2>6, <2>7 DEF HasFields, Object
  <2> QED BY <2>8 DEF x, o
<1>5. m.objects = d.objects
  <2>1. ASSUME NEW o \in d.objects PROVE o \in Alone(d, p) \/ \E t \in Twins(d, p) : t[1] = o
    <3>1. ASSUME NEW q \in p.objects, q.uuid = o.uuid PROVE <<o, q>> \in Twins(d, p) /\ <<o, q>>[1] = o
      BY <3>1 DEF Twins
    <3>2. NamesOf(p.objects) = {q.uuid : q \in p.objects}
      BY NamesAre DEF Sides
    <3> QED BY <3>1, <3>2 DEF Alone
  <2>2. Alone(d, p) \subseteq d.objects /\ \A t \in Twins(d, p) : t[1] \in d.objects
    BY DEF Alone, Twins
  <2> QED BY <1>1, <1>3, <1>4, <2>1, <2>2
<1>6. HasFields(d, DOMAIN Blank)
  BY DEF Sides, IsEvent
<1>7. m = d
  BY <1>1, <1>2, <1>5, <1>6 DEF HasFields, Blank
<1> QED BY <1>7 DEF m

-----------------------------------------------------------------------------
(* What a server stores.                                                   *)

\* All that another object has, in the same attributes where they have UUIDs.
SameObject(x, o) ==
    /\ \A f \in DOMAIN Object \ {"attributes"} : x[f] = o[f]
    /\ \A a \in o.attributes : \E b \in x.attributes : Key(b) = Key(a) /\ (a.uuid # Null => b = a)

\* The server gives UUIDs that nothing had, and changes nothing else.
LEMMA StoredIs ==
    ASSUME NEW e, IsEvent(e), Apart(e), Takes(e)
    PROVE  LET s == Stored(e)
           IN  /\ IsEvent(s) /\ OneOfEach(s) /\ InOnePlace(s)
               /\ \A f \in DOMAIN Blank \ {"attributes", "objects"} : s[f] = e[f]
               /\ \A a \in e.attributes : \E b \in s.attributes : Key(b) = Key(a) /\ (a.uuid # Null => b = a)
               /\ \A o \in e.objects : \E x \in s.objects : SameObject(x, o)
               /\ {x.uuid : x \in s.objects} = {o.uuid : o \in e.objects}
               /\ Taken(s) \subseteq Taken(e) \cup Unused(e)
<1> DEFINE name == CHOOSE f \in Namings(e) : IsInjective(f)
           W(h, a) == IF a.uuid = Null THEN [a EXCEPT !.uuid = name[<<h, a>>]] ELSE a
           O(o) == [o EXCEPT !.attributes = {W(o, a) : a \in o.attributes}]
           Holder(h) == IF h = e THEN Null ELSE h.uuid
           s == Stored(e)
<1>1. /\ HasFields(s, DOMAIN Blank)
      /\ \A f \in DOMAIN Blank \ {"attributes", "objects"} : s[f] = e[f]
      /\ s.attributes = {W(e, a) : a \in e.attributes} /\ s.objects = {O(o) : o \in e.objects}
  <2> HIDE DEF name
  <2> QED BY DEF Stored, IsEvent, HasFields, Blank, name
<1>2. /\ IsInjective(name) /\ DOMAIN name = Nameless(e)
      /\ \A x \in Nameless(e) : name[x] \in Unused(e)
  <2>1. name \in Namings(e) /\ IsInjective(name)
    BY DEF Takes
  <2> HIDE DEF name
  <2> QED BY <2>1 DEF Namings
<1> HIDE DEF name, s
<1>3. \A u \in Unused(e) : u # Null /\ u \notin Taken(e)
  BY CasesAssumption DEF Unused, Taken
<1>4. ASSUME NEW x \in Placed(e)
      PROVE  x = <<x[1], x[2]>> /\ IsAttribute(x[2]) /\ x[2] \in AllAttributes(e)
  BY AttributesAre DEF Placed
<1>5. ASSUME NEW x \in Placed(e)
      PROVE  /\ IsAttribute(W(x[1], x[2])) /\ Key(W(x[1], x[2])) = Key(x[2])
             /\ x[2].uuid # Null => W(x[1], x[2]) = x[2] /\ x[2].uuid \in Taken(e)
             /\ x[2].uuid = Null => x \in Nameless(e) /\ W(x[1], x[2]).uuid = name[x]
                                    /\ name[x] \in Unused(e)
  <2>1. x[2].uuid = Null => x \in Nameless(e)
    BY DEF Nameless
  <2>2. x[2].uuid # Null => x[2].uuid \in Taken(e)
    BY <1>4 DEF Taken, Uuids
  <2>3. x = <<x[1], x[2]>> /\ IsAttribute(x[2])
    BY <1>4
  <2> DEFINE a == x[2]
             b == W(x[1], a)
  <2>4. /\ IsAttribute(b) /\ Key(b) = Key(a) /\ (a.uuid # Null => b = a)
        /\ (a.uuid = Null => b.uuid = name[<<x[1], a>>])
    <3> HIDE DEF a
    <3>1. IsAttribute(a)
      BY <2>3 DEF a
    <3> QED BY <3>1 DEF IsAttribute, Attribute, HasFields, Key
  <2> HIDE DEF W
  <2> QED BY <1>2, <2>1, <2>2, <2>3, <2>4
<1> HIDE DEF W
<1>6. e \notin e.objects
  <2>1. DOMAIN e = DOMAIN Blank /\ \A o \in e.objects : DOMAIN o = DOMAIN Object
    BY DEF IsEvent, IsObject, HasFields
  <2>2. "info" \in DOMAIN Blank /\ "info" \notin DOMAIN Object
    BY DEF Blank, Object
  <2> QED BY <2>1, <2>2
<1>7. ASSUME NEW x \in Placed(e) PROVE <<Holder(x[1]), x[2]>> \in Members(e)
  BY <1>6 DEF Placed, Members
<1>8. ASSUME NEW o \in e.objects
      PROVE  /\ HasFields(O(o), DOMAIN Object)
             /\ \A f \in DOMAIN Object \ {"attributes"} : O(o)[f] = o[f]
             /\ O(o).attributes = {W(o, a) : a \in o.attributes}
             /\ O(o).uuid = o.uuid /\ O(o).distribution = o.distribution /\ O(o).references = o.references
  <2> DEFINE fields == DOMAIN Object
             all    == {W(o, a) : a \in o.attributes}
  <2>1. o = [f \in fields |-> o[f]]
    BY DEF IsEvent, IsObject, HasFields
  <2>2. {"attributes", "uuid", "distribution", "references"} \subseteq fields
    BY DEF Object
  <2>3. O(o) = [o EXCEPT !.attributes = all]
    OBVIOUS
  <2> HIDE DEF fields, all, O
  <2>4. O(o) = [f \in fields |-> IF f = "attributes" THEN all ELSE o[f]]
    BY <2>1, <2>2, <2>3
  <2>5. /\ HasFields(O(o), fields)
        /\ \A f \in fields \ {"attributes"} : O(o)[f] = o[f]
        /\ O(o).attributes = all
    BY <2>2, <2>4 DEF HasFields
  <2>6. O(o).uuid = o.uuid /\ O(o).distribution = o.distribution /\ O(o).references = o.references
    BY <2>2, <2>5
  <2> QED BY <2>5, <2>6 DEF fields, all
<1> HIDE DEF O
<1>9. ASSUME NEW m \in Members(s)
      PROVE  \E x \in Placed(e) : m = <<Holder(x[1]), W(x[1], x[2])>>
  <2>1. CASE m \in {Null} \X s.attributes
    <3>1. PICK a \in e.attributes : m = <<Null, W(e, a)>>
      BY <1>1, <2>1
    <3>2. <<e, a>> \in Placed(e) /\ Holder(e) = Null
      BY DEF Placed
    <3> HIDE DEF Holder
    <3> QED BY <3>1, <3>2
  <2>2. ASSUME NEW o \in e.objects, m \in {O(o).uuid} \X O(o).attributes
        PROVE  \E x \in Placed(e) : m = <<Holder(x[1]), W(x[1], x[2])>>
    <3>1. PICK a \in o.attributes : m = <<o.uuid, W(o, a)>>
      BY <1>8, <2>2
    <3>2. <<o, a>> \in Placed(e) /\ Holder(o) = o.uuid
      BY <1>6 DEF Placed
    <3> HIDE DEF Holder
    <3> QED BY <3>1, <3>2
  <2> QED BY <1>1, <2>1, <2>2 DEF Members
<1>10. ASSUME NEW x \in Placed(e), NEW y \in Placed(e), W(x[1], x[2]).uuid = W(y[1], y[2]).uuid
       PROVE  <<Holder(x[1]), W(x[1], x[2])>> = <<Holder(y[1]), W(y[1], y[2])>>
  <2>1. CASE x[2].uuid = Null /\ y[2].uuid = Null
    <3>1. x \in Nameless(e) /\ y \in Nameless(e) /\ name[x] = name[y]
      BY <1>5, <1>10, <2>1
    <3>2. x = y
      BY <1>2, <3>1 DEF IsInjective
    <3> QED BY <3>2
  <2>2. CASE x[2].uuid # Null /\ y[2].uuid # Null
    <3>1. x[2].uuid = y[2].uuid /\ W(x[1], x[2]) = x[2] /\ W(y[1], y[2]) = y[2]
      BY <1>5, <1>10, <2>2
    <3> DEFINE m == <<Holder(x[1]), x[2]>>
               n == <<Holder(y[1]), y[2]>>
    <3>2. m \in Members(e) /\ n \in Members(e) /\ m[2] = x[2] /\ n[2] = y[2]
      BY <1>7
    <3> HIDE DEF m, n
    <3>3. m = n
      BY <2>2, <3>1, <3>2 DEF Apart
    <3> QED BY <3>1, <3>3 DEF m, n
  <2>3. ~(x[2].uuid = Null /\ y[2].uuid # Null)
    BY <1>3, <1>5, <1>10
  <2>4. ~(x[2].uuid # Null /\ y[2].uuid = Null)
    BY <1>3, <1>5, <1>10
  <2> QED BY <2>1, <2>2, <2>3, <2>4
<1>11. \A x \in Placed(e) : W(x[1], x[2]).uuid # Null /\ W(x[1], x[2]).uuid \in Taken(e) \cup Unused(e)
  BY <1>3, <1>5
<1> HIDE DEF Holder
<1>12. Apart(s) /\ \A m \in Members(s) : m[2].uuid # Null
  <2>1. \A m, n \in Members(s) : m[2].uuid = n[2].uuid => m = n
    BY <1>9, <1>10
  <2>2. \A m \in Members(s) : m[2].uuid # Null
    BY <1>9, <1>11
  <2>3. /\ \A o \in s.objects : o.uuid # Null
        /\ \A o, p \in s.objects : o.uuid = p.uuid => o = p
    BY <1>1, <1>8 DEF Apart
  <2> QED BY <2>1, <2>2, <2>3 DEF Apart
<1>13. Taken(s) \subseteq Taken(e) \cup Unused(e)
  <2>1. ASSUME NEW a \in AllAttributes(s) PROVE a.uuid \in Taken(e) \cup Unused(e)
    <3>1. PICK m \in Members(s) : m[2] = a
      BY MembersAll
    <3> QED BY <1>9, <1>11, <3>1
  <2> QED BY <2>1 DEF Taken, Uuids
<1>14. ASSUME NEW h, NEW S, IsFiniteSet(S), \A a \in S : <<h, a>> \in Placed(e)
       PROVE  /\ IsFiniteSet({W(h, a) : a \in S}) /\ \A b \in {W(h, a) : a \in S} : IsAttribute(b)
              /\ \A a \in S : \E b \in {W(h, c) : c \in S} : Key(b) = Key(a) /\ (a.uuid # Null => b = a)
  <2> DEFINE f == [a \in S |-> W(h, a)]
  <2>1. IsFiniteSet({f[a] : a \in S})
    <3> HIDE DEF f
    <3>1. DOMAIN f = S
      BY DEF f
    <3> QED BY <1>14, <3>1, ImageIsFinite
  <2>2. {f[a] : a \in S} = {W(h, a) : a \in S}
    OBVIOUS
  <2>3. ASSUME NEW a \in S PROVE IsAttribute(W(h, a)) /\ Key(W(h, a)) = Key(a) /\ (a.uuid # Null => W(h, a) = a)
    <3> DEFINE x == <<h, a>>
    <3>1. x \in Placed(e) /\ x[1] = h /\ x[2] = a
      BY <1>14
    <3> HIDE DEF x
    <3> QED BY <1>5, <3>1
  <2> HIDE DEF f
  <2> QED BY <2>1, <2>2, <2>3
<1>15. /\ IsFiniteSet(s.attributes) /\ \A a \in s.attributes : IsAttribute(a)
       /\ \A a \in e.attributes : \E b \in s.attributes : Key(b) = Key(a) /\ (a.uuid # Null => b = a)
  <2> DEFINE S == e.attributes
  <2>1. IsFiniteSet(S) /\ \A a \in S : <<e, a>> \in Placed(e)
    BY DEF IsEvent, Placed
  <2> HIDE DEF S
  <2>2. \A h : (\A a \in S : <<h, a>> \in Placed(e)) =>
            /\ IsFiniteSet({W(h, a) : a \in S}) /\ \A b \in {W(h, a) : a \in S} : IsAttribute(b)
            /\ \A a \in S : \E b \in {W(h, c) : c \in S} : Key(b) = Key(a) /\ (a.uuid # Null => b = a)
    BY <1>14, <2>1
  <2>3. /\ IsFiniteSet({W(e, a) : a \in S}) /\ \A b \in {W(e, a) : a \in S} : IsAttribute(b)
        /\ \A a \in S : \E b \in {W(e, c) : c \in S} : Key(b) = Key(a) /\ (a.uuid # Null => b = a)
    BY <2>1, <2>2
  <2> QED BY <1>1, <2>3 DEF S
<1>16. ASSUME NEW o \in e.objects PROVE IsObject(O(o)) /\ SameObject(O(o), o)
  <2>1. IsObject(o) /\ \A a \in o.attributes : <<o, a>> \in Placed(e)
    BY DEF IsEvent, Placed
  <2>2. /\ IsFiniteSet({W(o, a) : a \in o.attributes})
        /\ \A b \in {W(o, a) : a \in o.attributes} : IsAttribute(b)
        /\ \A a \in o.attributes :
            \E b \in {W(o, c) : c \in o.attributes} : Key(b) = Key(a) /\ (a.uuid # Null => b = a)
    BY <1>14, <2>1 DEF IsObject
  <2> QED BY <1>8, <2>1, <2>2 DEF IsObject, SameObject
<1>17. IsFiniteSet(s.objects)
  <2> DEFINE f == [o \in e.objects |-> O(o)]
  <2>1. DOMAIN f = e.objects /\ {f[o] : o \in e.objects} = s.objects
    BY <1>1
  <2>2. IsFiniteSet(e.objects)
    BY DEF IsEvent
  <2> HIDE DEF f
  <2> QED BY <2>1, <2>2, ImageIsFinite
<1>18. s.distribution = e.distribution /\ s.galaxies = e.galaxies /\ s.sightings = e.sightings
  BY <1>1 DEF Blank
<1>19. IsEvent(s)
  BY <1>1, <1>15, <1>16, <1>17, <1>18 DEF IsEvent
<1>20. {x.uuid : x \in s.objects} = {o.uuid : o \in e.objects}
  BY <1>1, <1>8
<1> QED BY <1>1, <1>12, <1>13, <1>15, <1>16, <1>19, <1>20, ApartIs DEF s

-----------------------------------------------------------------------------
(* A copy with a fresh identity.                                           *)

CopiedNames(n) == {Copied[<<n, u>>] : u \in Known \cup {Null}}

\* Fresh UUIDs differ from each other, from those of other copies and from all others.
LEMMA FreshIs ==
    ASSUME NEW n \in 1..MaxCopies
    PROVE  /\ \A u, v \in Known \cup {Null} : Fresh(n)[u] = Fresh(n)[v] => u = v
           /\ \A u \in Known \cup {Null} : Fresh(n)[u] \in CopiedNames(n)
           /\ CopiedNames(n) \cap (Known \cup Given \cup {Null}) = {}
           /\ \A k \in 1..MaxCopies : k # n => CopiedNames(k) \cap CopiedNames(n) = {}
<1>1. ASSUME NEW k \in 1..MaxCopies, NEW u \in Known \cup {Null}
      PROVE  <<k, u>> \in DOMAIN Copied /\ Copied[<<k, u>>] \in Range(Copied)
  BY CasesAssumption DEF Range
<1>2. ASSUME NEW k \in 1..MaxCopies, NEW u \in Known \cup {Null}, NEW l \in 1..MaxCopies,
             NEW v \in Known \cup {Null}, Copied[<<k, u>>] = Copied[<<l, v>>]
      PROVE  k = l /\ u = v
  <2>1. <<k, u>> = <<l, v>>
    BY <1>1, <1>2, CasesAssumption DEF IsInjective
  <2> QED BY <2>1
<1>3. \A u, v \in Known \cup {Null} : Fresh(n)[u] = Fresh(n)[v] => u = v
  BY <1>2 DEF Fresh
<1>4. \A u \in Known \cup {Null} : Fresh(n)[u] \in CopiedNames(n)
  BY DEF Fresh, CopiedNames
<1>5. CopiedNames(n) \cap (Known \cup Given \cup {Null}) = {}
  <2>1. CopiedNames(n) \subseteq Range(Copied)
    BY <1>1 DEF CopiedNames
  <2>2. Range(Copied) \cap (Known \cup Given \cup {Null}) = {}
    BY CasesAssumption
  <2> QED BY <2>1, <2>2
<1>6. \A k \in 1..MaxCopies : k # n => CopiedNames(k) \cap CopiedNames(n) = {}
  BY <1>2 DEF CopiedNames
<1> QED BY <1>3, <1>4, <1>5, <1>6

\* Whatever the event points to: what the copy points to is not in the original.
LEMMA RenumberedIs ==
    ASSUME NEW e, IsKept(e), NEW n \in 1..MaxCopies
    PROVE  LET r == RenumberedEvent(e, Fresh(n))
           IN  /\ IsEvent(r) /\ OneOfEach(r) /\ InOnePlace(r)
               /\ Inside(r) \subseteq CopiedNames(n)
               /\ Targets(r) \cap Inside(e) = {}
<1> DEFINE fresh == Fresh(n)
           Mapped(u) == IF u \in OwnUuids(e) \ {Null} THEN fresh[u] ELSE u
           A(a) == [a EXCEPT !.uuid = fresh[a.uuid]]
           Q(q) == [q EXCEPT !.uuid = fresh[q.uuid], !.target = Mapped(q.target)]
           S(s) == [s EXCEPT !.uuid = fresh[s.uuid], !.attribute = Mapped(s.attribute)]
           O(o) == [o EXCEPT !.uuid = fresh[o.uuid], !.attributes = {A(a) : a \in o.attributes},
                             !.references = {Q(q) : q \in o.references}]
           r == RenumberedEvent(e, fresh)
<1>1. /\ HasFields(r, DOMAIN Blank)
      /\ r.uuid = fresh[e.uuid] /\ r.distribution = e.distribution /\ r.galaxies = e.galaxies
      /\ r.attributes = {A(a) : a \in e.attributes} /\ r.objects = {O(o) : o \in e.objects}
      /\ DOMAIN r.sightings = {S(s) : s \in DOMAIN e.sightings}
  <2>1. HasFields(e, DOMAIN Blank)
    BY DEF IsKept, IsEvent
  <2>2. r = [e EXCEPT !.uuid = fresh[@], !.attributes = {A(a) : a \in @}, !.objects = {O(o) : o \in @},
                      !.sightings = BagOfAll(S, @),
                      !.proposals = BagOfAll(LAMBDA p : [p EXCEPT !.uuid = fresh[@]], @)]
    BY DEF RenumberedEvent
  <2>3. DOMAIN BagOfAll(S, e.sightings) = {S(s) : s \in DOMAIN e.sightings}
    BY DEF BagOfAll, BagToSet
  <2> HIDE DEF r, A, O, S, fresh
  <2> QED BY <2>1, <2>2, <2>3 DEF HasFields, Blank
<1>2. /\ \A u, v \in Known \cup {Null} : fresh[u] = fresh[v] => u = v
      /\ \A u \in Known \cup {Null} : fresh[u] \in CopiedNames(n)
      /\ CopiedNames(n) \cap (Known \cup Given \cup {Null}) = {}
  BY FreshIs
<1> HIDE DEF r, fresh
<1>3. /\ OwnUuids(e) \subseteq Known \cup {Null} /\ e.uuid \in Known
      /\ \A a \in AllAttributes(e) : a.uuid \in Known /\ IsAttribute(a)
      /\ \A o \in e.objects : o.uuid \in Known /\ IsObject(o)
  <2>1. OwnUuids(e) \subseteq Known \cup {Null} /\ InOnePlace(e) /\ IsEvent(e) /\ e.uuid \in Known
    BY CasesAssumption DEF IsKept
  <2>2. \A a \in AllAttributes(e) : a.uuid \in Known
    BY <2>1 DEF OwnUuids, InOnePlace
  <2>3. \A o \in e.objects : o.uuid \in Known
    BY <2>1 DEF OwnUuids, InOnePlace
  <2> QED BY <2>1, <2>2, <2>3, AttributesAre DEF IsEvent
<1>4. ASSUME NEW a, IsAttribute(a) PROVE IsAttribute(A(a)) /\ A(a).uuid = fresh[a.uuid]
  BY <1>4 DEF IsAttribute, Attribute, HasFields
<1>5. ASSUME NEW q, HasFields(q, {"uuid", "target", "kind"})
      PROVE  HasFields(Q(q), {"uuid", "target", "kind"}) /\ Q(q).target = Mapped(q.target)
  <2> HIDE DEF Mapped
  <2> QED BY <1>5 DEF HasFields
<1>6. ASSUME NEW s, HasFields(s, {"uuid", "attribute"})
      PROVE  HasFields(S(s), {"uuid", "attribute"}) /\ S(s).attribute = Mapped(s.attribute)
  <2> HIDE DEF Mapped
  <2> QED BY <1>6 DEF HasFields
<1> HIDE DEF A, Q, S
<1>7. ASSUME NEW o, IsObject(o)
      PROVE  /\ HasFields(O(o), DOMAIN Object) /\ O(o).distribution = o.distribution
             /\ O(o).uuid = fresh[o.uuid] /\ O(o).attributes = {A(a) : a \in o.attributes}
             /\ O(o).references = {Q(q) : q \in o.references}
  BY <1>7 DEF IsObject, HasFields, Object
<1> HIDE DEF O
<1>8. ASSUME NEW T, IsFiniteSet(T) PROVE IsFiniteSet({A(a) : a \in T})
  <2> DEFINE f == [a \in T |-> A(a)]
  <2>1. DOMAIN f = T /\ {f[a] : a \in T} = {A(a) : a \in T}
    OBVIOUS
  <2> HIDE DEF f
  <2> QED BY <1>8, <2>1, ImageIsFinite
<1>9. ASSUME NEW o \in e.objects PROVE IsObject(O(o))
  <2>1. IsObject(o)
    BY <1>3
  <2>2. IsFiniteSet(O(o).attributes) /\ \A a \in O(o).attributes : IsAttribute(a)
    BY <1>4, <1>7, <1>8, <2>1 DEF IsObject
  <2>3. \A q \in O(o).references : HasFields(q, {"uuid", "target", "kind"})
    BY <1>5, <1>7, <2>1 DEF IsObject
  <2> QED BY <1>7, <2>1, <2>2, <2>3 DEF IsObject
<1>10. IsFiniteSet(r.objects)
  <2> DEFINE f == [o \in e.objects |-> O(o)]
  <2>1. DOMAIN f = e.objects /\ {f[o] : o \in e.objects} = r.objects
    BY <1>1
  <2>2. IsFiniteSet(e.objects)
    BY DEF IsKept, IsEvent
  <2> HIDE DEF f
  <2> QED BY <2>1, <2>2, ImageIsFinite
<1>11. \A s \in BagToSet(r.sightings) : HasFields(s, {"uuid", "attribute"})
  BY <1>1, <1>6 DEF BagToSet, IsKept, IsEvent
<1>12. IsFiniteSet(r.attributes) /\ \A a \in r.attributes : IsAttribute(a)
  <2>1. IsFiniteSet(e.attributes)
    BY DEF IsKept, IsEvent
  <2>2. \A a \in e.attributes : IsAttribute(a)
    BY DEF IsKept, IsEvent
  <2>3. IsFiniteSet({A(a) : a \in e.attributes})
    BY <1>8, <2>1
  <2> QED BY <1>1, <1>4, <2>2, <2>3
<1>13. IsEvent(r)
  <2>1. r.distribution \in Nat /\ \A g \in r.galaxies : HasFields(g, {"name", "uuid", "clusters"})
    BY <1>1 DEF IsKept, IsEvent
  <2> QED BY <1>1, <1>9, <1>10, <1>11, <1>12, <2>1 DEF IsEvent
<1>14. ASSUME NEW m \in Members(r)
       PROVE  \E x \in Members(e) : m = <<IF x[1] = Null THEN Null ELSE fresh[x[1]], A(x[2])>>
  <2>1. CASE m \in {Null} \X r.attributes
    <3>1. PICK a \in e.attributes : m = <<Null, A(a)>>
      BY <1>1, <2>1
    <3> DEFINE x == <<Null, a>>
    <3>2. x \in Members(e) /\ x[1] = Null /\ x[2] = a
      BY DEF Members
    <3> HIDE DEF x
    <3> QED BY <3>1, <3>2
  <2>2. ASSUME NEW o \in e.objects, m \in {O(o).uuid} \X O(o).attributes
        PROVE  \E x \in Members(e) : m = <<IF x[1] = Null THEN Null ELSE fresh[x[1]], A(x[2])>>
    <3>1. IsObject(o) /\ o.uuid # Null
      BY <1>3, CasesAssumption
    <3>2. PICK a \in o.attributes : m = <<fresh[o.uuid], A(a)>>
      BY <1>7, <2>2, <3>1
    <3> DEFINE x == <<o.uuid, a>>
    <3>3. x \in Members(e) /\ x[1] = o.uuid /\ x[2] = a
      BY DEF Members
    <3> HIDE DEF x
    <3> QED BY <3>1, <3>2, <3>3
  <2> QED BY <1>1, <2>1, <2>2 DEF Members
<1>15. Apart(e) /\ \A x \in Members(e) : x[2].uuid # Null /\ x[2].uuid \in Known /\ IsAttribute(x[2])
  BY <1>3, ApartIs, MembersAll DEF IsKept
<1>16. \A m \in Members(r) : m[2].uuid \in CopiedNames(n)
  BY <1>2, <1>4, <1>14, <1>15
<1>17. ASSUME NEW m \in Members(r), NEW k \in Members(r), m[2].uuid = k[2].uuid PROVE m = k
  <2>1. PICK x \in Members(e) : m = <<IF x[1] = Null THEN Null ELSE fresh[x[1]], A(x[2])>>
    BY <1>14
  <2>2. PICK y \in Members(e) : k = <<IF y[1] = Null THEN Null ELSE fresh[y[1]], A(y[2])>>
    BY <1>14
  <2>3. fresh[x[2].uuid] = fresh[y[2].uuid]
    BY <1>4, <1>15, <1>17, <2>1, <2>2
  <2>4. x[2].uuid = y[2].uuid
    BY <1>2, <1>15, <2>3
  <2>5. x = y
    BY <1>15, <2>4 DEF Apart
  <2> QED BY <2>1, <2>2, <2>5
<1>18. \A o \in r.objects : o.uuid \in CopiedNames(n)
  BY <1>1, <1>2, <1>3, <1>7
<1>19. ASSUME NEW o \in r.objects, NEW p \in r.objects, o.uuid = p.uuid PROVE o = p
  <2>1. PICK x \in e.objects, y \in e.objects : o = O(x) /\ p = O(y)
    BY <1>1
  <2>2. fresh[x.uuid] = fresh[y.uuid]
    BY <1>3, <1>7, <1>19, <2>1
  <2>3. x.uuid = y.uuid
    BY <1>2, <1>3, <2>2
  <2>4. x = y
    BY <2>3 DEF IsKept, OneOfEach
  <2> QED BY <2>1, <2>4
<1>20. OneOfEach(r) /\ InOnePlace(r)
  <2>1. Apart(r)
    BY <1>2, <1>17, <1>18, <1>19 DEF Apart
  <2>2. \A m \in Members(r) : m[2].uuid # Null
    BY <1>2, <1>16
  <2> QED BY <2>1, <2>2, ApartIs
<1>21. Inside(r) \subseteq CopiedNames(n)
  <2>1. r.uuid \in CopiedNames(n)
    BY <1>1, <1>2, <1>3
  <2>2. \A a \in AllAttributes(r) : a.uuid \in CopiedNames(n)
    BY <1>16, MembersAll
  <2> QED BY <1>18, <2>1, <2>2 DEF Inside, Uuids
<1>22. Inside(e) \subseteq OwnUuids(e) \cap Known
  <2>1. \A u \in Inside(e) : u \in OwnUuids(e)
    BY DEF Inside, OwnUuids, Uuids
  <2>2. \A u \in Inside(e) : u \in Known
    BY <1>3 DEF Inside, Uuids
  <2> QED BY <2>1, <2>2
<1>23. ASSUME NEW u PROVE Mapped(u) \notin Inside(e)
  <2>1. CASE u \in OwnUuids(e) \ {Null}
    BY <1>2, <1>3, <1>22, <2>1
  <2>2. CASE u \notin OwnUuids(e) \ {Null}
    BY <1>22, <2>2, CasesAssumption
  <2> QED BY <2>1, <2>2
<1> HIDE DEF Mapped
<1>24. Targets(r) \cap Inside(e) = {}
  <2>1. ASSUME NEW o \in r.objects, NEW q \in o.references PROVE q.target \notin Inside(e)
    <3>1. PICK p \in e.objects : o = O(p)
      BY <1>1
    <3>2. PICK x \in p.references : q = Q(x)
      BY <1>3, <1>7, <3>1
    <3>3. q.target = Mapped(x.target)
      BY <1>3, <1>5, <3>2 DEF IsObject
    <3> QED BY <1>23, <3>3
  <2>2. ASSUME NEW s \in BagToSet(r.sightings) PROVE s.attribute \notin Inside(e)
    <3>1. PICK x \in DOMAIN e.sightings : s = S(x)
      BY <1>1 DEF BagToSet
    <3>2. s.attribute = Mapped(x.attribute)
      BY <1>6, <3>1 DEF IsKept, IsEvent, BagToSet
    <3> QED BY <1>23, <3>2
  <2> QED BY <2>1, <2>2 DEF Targets
<1> QED BY <1>13, <1>20, <1>21, <1>24 DEF r, fresh

-----------------------------------------------------------------------------
(* A merge, as the server keeps it.                                        *)

\* A union of tags holds both sides, and uniting it again with one changes nothing.
LEMMA TagsMerged ==
    ASSUME NEW D, NEW P
    PROVE  LET T == MergeTags(D, P)
           IN  D \subseteq T /\ Folded(P) \subseteq Folded(T) /\ MergeTags(T, P) = T
<1> DEFINE T == MergeTags(D, P)
<1>1. T = D \cup {t \in P : t[1] \notin Folded(D)}
  BY DEF MergeTags
<1>2. Folded(D) \subseteq Folded(T)
  BY <1>1 DEF Folded
<1>3. \A t \in P : t[1] \in Folded(T)
  <2> SUFFICES ASSUME NEW t \in P PROVE t[1] \in Folded(T)
    OBVIOUS
  <2>1. CASE t[1] \in Folded(D)
    BY <1>2, <2>1
  <2>2. CASE t[1] \notin Folded(D)
    BY <1>1, <2>2 DEF Folded
  <2> QED BY <2>1, <2>2
<1> HIDE DEF T
<1>4. {t \in P : t[1] \notin Folded(T)} = {}
  BY <1>3
<1>5. MergeTags(T, P) = T
  BY <1>4 DEF MergeTags
<1> QED BY <1>1, <1>3, <1>5 DEF Folded, T

\* What the merge made of two events, with the UUIDs that the server gave, holds both.
LEMMA MergeDoes ==
    ASSUME NEW d, NEW p, Sides(d, p), Takes(MergedEvent(d, p)),
           IsABag(d.sightings), IsABag(d.proposals), IsABag(p.sightings), IsABag(p.proposals)
    PROVE  LET s == Stored(MergedEvent(d, p))
           IN  /\ IsEvent(s) /\ OneOfEach(s) /\ InOnePlace(s)
               /\ s.uuid = d.uuid /\ {x.uuid : x \in s.objects} = {o.uuid : o \in d.objects \cup p.objects}
               /\ IsABag(s.sightings) /\ IsABag(s.proposals)
               /\ Taken(s) \subseteq Taken(d) \cup Taken(p) \cup Unused(MergedEvent(d, p))
               /\ Holds(s, d) /\ Holds(s, p)
               /\ d.attributes \subseteq s.attributes /\ AllAttributes(d) \subseteq AllAttributes(s)
               /\ d.tags \subseteq s.tags
               /\ MergedEvent(s, p) = s
<1> DEFINE m == MergedEvent(d, p)
           s == Stored(m)
<1>1. /\ IsEvent(m) /\ Apart(m) /\ Taken(m) \subseteq Taken(d) \cup Taken(p)
      /\ {o.uuid : o \in m.objects} = {o.uuid : o \in d.objects \cup p.objects}
  BY MergedIsApart
<1>2. /\ m.uuid = d.uuid /\ m.tags = MergeTags(d.tags, p.tags)
      /\ m.galaxies = MergeGalaxies(d.galaxies, p.galaxies)
      /\ m.sightings = United(d.sightings, p.sightings) /\ m.proposals = United(d.proposals, p.proposals)
  BY MergedFields
<1>3. /\ d.attributes \subseteq m.attributes /\ AllAttributes(d) \subseteq AllAttributes(m)
      /\ \A a \in p.attributes : \E b \in AllAttributes(m) : Key(b) = Key(a)
      /\ \A o \in d.objects : \E x \in m.objects : Covers(x, o)
      /\ \A q \in p.objects : \E x \in m.objects : Covers(x, q) /\ Fills(x, q)
  BY MergedHolds
<1>4. Takes(m)
  OBVIOUS
<1> HIDE DEF m
<1>5. /\ IsEvent(s) /\ OneOfEach(s) /\ InOnePlace(s)
      /\ \A f \in DOMAIN Blank \ {"attributes", "objects"} : s[f] = m[f]
      /\ \A a \in m.attributes : \E b \in s.attributes : Key(b) = Key(a) /\ (a.uuid # Null => b = a)
      /\ \A o \in m.objects : \E x \in s.objects : SameObject(x, o)
      /\ {x.uuid : x \in s.objects} = {o.uuid : o \in m.objects}
      /\ Taken(s) \subseteq Taken(m) \cup Unused(m)
  BY <1>1, <1>4, StoredIs
<1> HIDE DEF s
<1>6. /\ s.uuid = m.uuid /\ s.tags = m.tags /\ s.galaxies = m.galaxies
      /\ s.sightings = m.sightings /\ s.proposals = m.proposals
  BY <1>5 DEF Blank
<1>7. /\ d.tags \subseteq s.tags /\ Folded(d.tags) \subseteq Folded(s.tags)
      /\ Folded(p.tags) \subseteq Folded(s.tags) /\ MergeTags(s.tags, p.tags) = s.tags
  <2>1. s.tags = MergeTags(d.tags, p.tags)
    BY <1>2, <1>6
  <2>2. LET T == MergeTags(d.tags, p.tags)
        IN  d.tags \subseteq T /\ Folded(p.tags) \subseteq Folded(T) /\ MergeTags(T, p.tags) = T
    BY TagsMerged
  <2>3. d.tags \subseteq s.tags /\ Folded(p.tags) \subseteq Folded(s.tags) /\ MergeTags(s.tags, p.tags) = s.tags
    BY <2>1, <2>2
  <2> QED BY <2>3 DEF Folded
<1>8. ASSUME NEW g \in d.galaxies \cup p.galaxies
      PROVE  g.clusters \subseteq ClustersOf(s.galaxies, g.uuid)
  <2>1. \A h \in d.galaxies \cup p.galaxies : HasFields(h, {"name", "uuid", "clusters"})
    BY DEF Sides, IsEvent
  <2>2. \A k \in d.galaxies \cup p.galaxies : \E h \in MergeGalaxies(d.galaxies, p.galaxies) :
            h.uuid = k.uuid /\ k.clusters \subseteq h.clusters
    <3>1. LET G == MergeGalaxies(d.galaxies, p.galaxies)
          IN  /\ \A i \in G : HasFields(i, {"name", "uuid", "clusters"})
              /\ \A k \in d.galaxies \cup p.galaxies :
                    \E h \in G : h.uuid = k.uuid /\ k.clusters \subseteq h.clusters
              /\ MergeGalaxies(G, p.galaxies) = G
      BY <2>1, GalaxiesMerged
    <3> QED BY <3>1
  <2>4. s.galaxies = MergeGalaxies(d.galaxies, p.galaxies)
    BY <1>2, <1>6
  <2>5. \E h \in s.galaxies : h.uuid = g.uuid /\ g.clusters \subseteq h.clusters
    BY <2>2, <2>4
  <2>3. \A h \in s.galaxies : h.uuid = g.uuid => h.clusters \subseteq ClustersOf(s.galaxies, g.uuid)
    BY DEF ClustersOf
  <2> QED BY <2>3, <2>5
<1>9. MergeGalaxies(s.galaxies, p.galaxies) = s.galaxies
  <2>1. \A h \in d.galaxies \cup p.galaxies : HasFields(h, {"name", "uuid", "clusters"})
    BY DEF Sides, IsEvent
  <2> QED BY <1>2, <1>6, <2>1, GalaxiesMerged
<1>10. /\ IsABag(s.sightings) /\ d.sightings \sqsubseteq s.sightings /\ p.sightings \sqsubseteq s.sightings
       /\ United(s.sightings, p.sightings) = s.sightings
  BY <1>2, <1>6, BagsUnited
<1>11. /\ IsABag(s.proposals) /\ d.proposals \sqsubseteq s.proposals /\ p.proposals \sqsubseteq s.proposals
       /\ United(s.proposals, p.proposals) = s.proposals
  BY <1>2, <1>6, BagsUnited
<1>12. \A a \in AllAttributes(d) : a.uuid # Null
  BY DEF Sides, InOnePlace
<1>13. d.attributes \subseteq s.attributes
  <2>1. \A a \in d.attributes : a \in m.attributes /\ a.uuid # Null
    BY <1>3, <1>12 DEF AllAttributes
  <2> QED BY <1>5, <2>1
<1>14. ASSUME NEW a \in AllAttributes(m)
       PROVE  \E b \in AllAttributes(s) : Key(b) = Key(a) /\ (a.uuid # Null => b = a)
  <2>1. CASE a \in m.attributes
    BY <1>5, <2>1 DEF AllAttributes
  <2>2. ASSUME NEW o \in m.objects, a \in o.attributes
        PROVE  \E b \in AllAttributes(s) : Key(b) = Key(a) /\ (a.uuid # Null => b = a)
    <3>1. PICK x \in s.objects : SameObject(x, o)
      BY <1>5
    <3>2. PICK b \in x.attributes : Key(b) = Key(a) /\ (a.uuid # Null => b = a)
      BY <2>2, <3>1 DEF SameObject
    <3>3. b \in AllAttributes(s)
      BY <3>1, <3>2 DEF AllAttributes
    <3> QED BY <3>2, <3>3
  <2> QED BY <2>1, <2>2 DEF AllAttributes
<1>15. AllAttributes(d) \subseteq AllAttributes(s)
  <2> SUFFICES ASSUME NEW a \in AllAttributes(d) PROVE a \in AllAttributes(s)
    OBVIOUS
  <2>1. a \in AllAttributes(m) /\ a.uuid # Null
    BY <1>3, <1>12
  <2> QED BY <1>14, <2>1
<1>16. \A a \in p.attributes : \E b \in AllAttributes(s) : Key(b) = Key(a)
  <2> SUFFICES ASSUME NEW a \in p.attributes PROVE \E b \in AllAttributes(s) : Key(b) = Key(a)
    OBVIOUS
  <2>1. PICK c \in AllAttributes(m) : Key(c) = Key(a)
    BY <1>3
  <2>2. PICK b \in AllAttributes(s) : Key(b) = Key(c)
    BY <1>14
  <2> QED BY <2>1, <2>2
<1>17. ASSUME NEW o, NEW x, Covers(x, o), NEW y, SameObject(y, x) PROVE Covers(y, o)
  <2>1. y.uuid = x.uuid /\ y.references = x.references
    BY <1>17 DEF SameObject, Object
  <2>2. ASSUME NEW a \in o.attributes PROVE \E b \in y.attributes : Key(b) = Key(a)
    <3>1. PICK c \in x.attributes : Key(c) = Key(a)
      BY <1>17 DEF Covers
    <3>2. PICK b \in y.attributes : Key(b) = Key(c)
      BY <1>17 DEF SameObject
    <3> QED BY <3>1, <3>2
  <2> QED BY <1>17, <2>1, <2>2 DEF Covers
<1>18. ASSUME NEW o, NEW x, Fills(x, o), NEW y, SameObject(y, x) PROVE Fills(y, o)
  <2>1. /\ y.comment = x.comment /\ y.sharing = x.sharing
        /\ y.distribution = x.distribution /\ y.rest = x.rest
    BY <1>18 DEF SameObject, Object
  <2> QED BY <1>18, <2>1 DEF Fills
<1>19. \A o \in d.objects : \E y \in s.objects : Covers(y, o)
  <2> SUFFICES ASSUME NEW o \in d.objects PROVE \E y \in s.objects : Covers(y, o)
    OBVIOUS
  <2>1. PICK x \in m.objects : Covers(x, o)
    BY <1>3
  <2>2. PICK y \in s.objects : SameObject(y, x)
    BY <1>5
  <2> QED BY <1>17, <2>1, <2>2
<1>20. \A q \in p.objects : \E y \in s.objects : Covers(y, q) /\ Fills(y, q)
  <2> SUFFICES ASSUME NEW q \in p.objects PROVE \E y \in s.objects : Covers(y, q) /\ Fills(y, q)
    OBVIOUS
  <2>1. PICK x \in m.objects : Covers(x, q) /\ Fills(x, q)
    BY <1>3
  <2>2. PICK y \in s.objects : SameObject(y, x)
    BY <1>5
  <2> QED BY <1>17, <1>18, <2>1, <2>2
<1>21. ASSUME NEW e,
              \A a \in e.attributes : \E b \in AllAttributes(s) : Key(b) = Key(a),
              \A o \in e.objects : \E y \in s.objects : Covers(y, o),
              Folded(e.tags) \subseteq Folded(s.tags),
              \A g \in e.galaxies : g.clusters \subseteq ClustersOf(s.galaxies, g.uuid),
              e.sightings \sqsubseteq s.sightings, e.proposals \sqsubseteq s.proposals
       PROVE  Holds(s, e)
  <2>1. {Key(a) : a \in e.attributes} \subseteq {Key(a) : a \in AllAttributes(s)}
    BY <1>21
  <2>2. ASSUME NEW o \in e.objects
        PROVE  \E y \in s.objects :
                /\ y.uuid = o.uuid
                /\ {Key(a) : a \in o.attributes} \subseteq {Key(a) : a \in y.attributes}
                /\ {<<r.target, r.kind>> : r \in o.references} \subseteq
                        {<<r.target, r.kind>> : r \in y.references}
    <3>1. PICK y \in s.objects : Covers(y, o)
      BY <1>21
    <3> QED BY <3>1 DEF Covers
  <2> QED BY <1>21, <2>1, <2>2 DEF Holds
<1>22. Holds(s, d)
  <2>1. \A a \in d.attributes : \E b \in AllAttributes(s) : Key(b) = Key(a)
    BY <1>15 DEF AllAttributes
  <2> QED BY <1>7, <1>8, <1>10, <1>11, <1>19, <1>21, <2>1
<1>23. Holds(s, p)
  <2>1. \A o \in p.objects : \E y \in s.objects : Covers(y, o)
    BY <1>20
  <2> QED BY <1>7, <1>8, <1>10, <1>11, <1>16, <1>21, <2>1
<1>24. MergedEvent(s, p) = s
  <2>1. Sides(s, p)
    BY <1>5 DEF Sides
  <2> QED BY <1>7, <1>9, <1>10, <1>11, <1>16, <1>20, <2>1, NothingToMerge
<1>25. Taken(s) \subseteq Taken(d) \cup Taken(p) \cup Unused(m)
  BY <1>1, <1>5
<1>26. s.uuid = d.uuid /\ {x.uuid : x \in s.objects} = {o.uuid : o \in d.objects \cup p.objects}
  BY <1>1, <1>2, <1>5, <1>6
<1>27. /\ IsEvent(s) /\ OneOfEach(s) /\ InOnePlace(s) /\ IsABag(s.sightings) /\ IsABag(s.proposals)
       /\ d.tags \subseteq s.tags
  BY <1>5, <1>7, <1>10, <1>11
<1> QED BY <1>13, <1>15, <1>22, <1>23, <1>24, <1>25, <1>26, <1>27 DEF s, m

-----------------------------------------------------------------------------
(* What the destination holds.                                             *)

\* The UUIDs that the n-th event has, beside those that the server gave.
Names(n) == IF n = 1 THEN Known ELSE CopiedNames(n - 1)

\* No two of the events have UUIDs in common, and the server gives none of them.
LEMMA NamesApart ==
    ASSUME NEW n \in 1..(MaxCopies + 1)
    PROVE  /\ Names(n) \cap (Given \cup {Null}) = {}
           /\ \A k \in 1..(MaxCopies + 1) : k # n => Names(k) \cap Names(n) = {}
<1>1. \A k \in 1..(MaxCopies + 1) : k = 1 \/ k - 1 \in 1..MaxCopies
  BY CasesAssumption
<1>2. \A k \in 1..MaxCopies : CopiedNames(k) \cap (Known \cup Given \cup {Null}) = {}
  BY FreshIs
<1>3. \A k \in 1..MaxCopies, l \in 1..MaxCopies : k # l => CopiedNames(k) \cap CopiedNames(l) = {}
  BY FreshIs
<1>4. Names(n) \cap (Given \cup {Null}) = {}
  <2>1. CASE n = 1
    BY <2>1, CasesAssumption DEF Names
  <2>2. CASE n # 1
    BY <1>1, <1>2, <2>2 DEF Names
  <2> QED BY <2>1, <2>2
<1>5. ASSUME NEW k \in 1..(MaxCopies + 1), k # n PROVE Names(k) \cap Names(n) = {}
  <2>1. CASE n = 1
    BY <1>1, <1>2, <1>5, <2>1 DEF Names
  <2>2. CASE k = 1
    BY <1>1, <1>2, <1>5, <2>2 DEF Names
  <2>3. CASE k # 1 /\ n # 1
    <3>1. k - 1 \in 1..MaxCopies /\ n - 1 \in 1..MaxCopies /\ k - 1 # n - 1
      BY <1>1, <1>5, <2>3
    <3> QED BY <1>3, <2>3, <3>1 DEF Names
  <2> QED BY <2>1, <2>2, <2>3
<1> QED BY <1>4, <1>5

Keeper(e, n) ==
    /\ IsEvent(e) /\ OneOfEach(e) /\ InOnePlace(e)
    /\ e.uuid \in Names(n) /\ \A o \in e.objects : o.uuid \in Names(n)
    /\ Taken(e) \subseteq Names(n) \cup Given

IsFirst(e) == e.uuid = Original /\ IsABag(e.sightings) /\ IsABag(e.proposals)

\* No attribute of one event has the UUID of another event's.
Keepers(events) ==
    /\ events \in Seq(Range(events)) /\ Len(events) <= MaxCopies + 1
    /\ \A n \in DOMAIN events : Keeper(events[n], n)
    /\ \A m, n \in DOMAIN events : m # n => Taken(events[m]) \cap Taken(events[n]) = {}
    /\ events # <<>> => IsFirst(events[1])

\* The original's event is replaced by one whose UUIDs the copies do not have.
LEMMA PutFirst ==
    ASSUME NEW events, Keepers(events), events # <<>>, NEW e, Keeper(e, 1), IsFirst(e),
           \A n \in DOMAIN events : n # 1 => Taken(e) \cap Taken(events[n]) = {}
    PROVE  Keepers([events EXCEPT ![1] = e])
<1> DEFINE S == Range(events) \cup {e}
           all == [events EXCEPT ![1] = e]
<1>1. events \in Seq(S) /\ Len(events) \in Nat \ {0} /\ DOMAIN events = 1..Len(events)
  BY DEF Keepers
<1>2. /\ Len(all) = Len(events) /\ DOMAIN all = 1..Len(events)
      /\ \A n \in 1..Len(events) : all[n] = IF n = 1 THEN e ELSE events[n]
  BY <1>1
<1>3. all \in Seq(Range(all))
  <2>1. \A n \in 1..Len(events) : all[n] \in Range(all)
    BY <1>2 DEF Range
  <2>2. all \in [1..Len(events) -> Range(all)]
    BY <1>1, <1>2, <2>1
  <2> HIDE DEF all
  <2> QED BY <1>1, <2>2
<1>4. all # <<>> /\ 1 \in 1..Len(events)
  BY <1>1, <1>2
<1> HIDE DEF all
<1>5. \A n \in DOMAIN all : Keeper(all[n], n)
  BY <1>1, <1>2 DEF Keepers
<1>6. \A m, n \in DOMAIN all : m # n => Taken(all[m]) \cap Taken(all[n]) = {}
  <2> SUFFICES ASSUME NEW m \in 1..Len(events), NEW n \in 1..Len(events), m # n
               PROVE  Taken(all[m]) \cap Taken(all[n]) = {}
    BY <1>2
  <2>1. CASE m = 1
    BY <1>1, <1>2, <2>1
  <2>2. CASE n = 1
    BY <1>1, <1>2, <2>2
  <2>3. CASE m # 1 /\ n # 1
    BY <1>1, <1>2, <2>3 DEF Keepers
  <2> QED BY <2>1, <2>2, <2>3
<1>7. Len(all) <= MaxCopies + 1 /\ IsFirst(all[1])
  BY <1>1, <1>2, <1>4 DEF Keepers
<1> QED BY <1>3, <1>5, <1>6, <1>7 DEF Keepers, all

\* An event is put behind the others, none of whose UUIDs it has.
LEMMA PutLast ==
    ASSUME NEW events, Keepers(events), Len(events) <= MaxCopies,
           NEW e, Keeper(e, Len(events) + 1), events = <<>> => IsFirst(e),
           \A n \in DOMAIN events : Taken(e) \cap Taken(events[n]) = {}
    PROVE  Keepers(Append(events, e))
<1> DEFINE S == Range(events) \cup {e}
           all == Append(events, e)
<1>1. events \in Seq(S) /\ Len(events) \in Nat /\ DOMAIN events = 1..Len(events)
  BY DEF Keepers
<1>2. /\ Len(all) = Len(events) + 1 /\ DOMAIN all = 1..(Len(events) + 1)
      /\ \A n \in 1..Len(events) : all[n] = events[n]
      /\ all[Len(events) + 1] = e
  BY <1>1
<1>3. all \in Seq(Range(all))
  <2>1. \A n \in DOMAIN all : all[n] \in Range(all)
    BY DEF Range
  <2>2. all \in Seq(S)
    BY <1>1
  <2> HIDE DEF all
  <2>3. all \in [1..(Len(events) + 1) -> Range(all)]
    BY <1>2, <2>1, <2>2
  <2> QED BY <1>1, <2>3
<1>4. \A n \in 1..(Len(events) + 1) : n \in 1..Len(events) \/ n = Len(events) + 1
  BY <1>1
<1>5. IsFirst(all[1])
  <2>1. CASE events = <<>>
    BY <1>1, <1>2, <2>1
  <2>2. CASE events # <<>>
    <3>1. 1 \in 1..Len(events)
      BY <1>1, <2>2
    <3> QED BY <1>2, <2>2, <3>1 DEF Keepers
  <2> QED BY <2>1, <2>2
<1> HIDE DEF all
<1>6. \A n \in DOMAIN all : Keeper(all[n], n)
  BY <1>1, <1>2, <1>4 DEF Keepers
<1>7. ASSUME NEW m \in DOMAIN all, NEW n \in DOMAIN all, m # n
      PROVE  Taken(all[m]) \cap Taken(all[n]) = {}
  <2>1. CASE m \in 1..Len(events) /\ n \in 1..Len(events)
    BY <1>1, <1>2, <1>7, <2>1 DEF Keepers
  <2>2. CASE m = Len(events) + 1 /\ n \in 1..Len(events)
    BY <1>1, <1>2, <2>2
  <2>3. CASE n = Len(events) + 1 /\ m \in 1..Len(events)
    BY <1>1, <1>2, <2>3
  <2> QED BY <1>2, <1>4, <1>7, <2>1, <2>2, <2>3
<1>8. Len(all) <= MaxCopies + 1
  BY <1>1, <1>2, CasesAssumption
<1> QED BY <1>3, <1>5, <1>6, <1>7, <1>8 DEF Keepers, all

\* What the server has not given yet is in none of its events.
LEMMA UnusedIs ==
    ASSUME NEW e
    PROVE  /\ Unused(e) \subseteq Given /\ Unused(e) \cap Taken(e) = {}
           /\ \A n \in DOMAIN held : Unused(e) \cap Taken(held[n]) = {}
BY DEF Unused, Taken, Range

\* An event of the cases may stand for the original.
LEMMA KeptIs ==
    ASSUME NEW e, IsKept(e)
    PROVE  /\ Keeper(e, 1) /\ IsFirst(e) /\ Taken(e) \subseteq Known
           /\ \A o \in e.objects : o.uuid \in Known
<1>1. \A o \in e.objects : o.uuid \in Known
  BY DEF IsKept, OwnUuids, InOnePlace
<1>2. Taken(e) \subseteq Known
  BY DEF IsKept, OwnUuids, Taken, Uuids
<1> QED BY <1>1, <1>2, CasesAssumption DEF IsKept, Keeper, IsFirst, Names

\* A new event, with the UUIDs that the server gave, points where it did.
LEMMA StoredAnew ==
    ASSUME NEW e, IsEvent(e), OneOfEach(e), InOnePlace(e), Takes(e)
    PROVE  LET s == Stored(e)
           IN  /\ IsEvent(s) /\ OneOfEach(s) /\ InOnePlace(s)
               /\ s.uuid = e.uuid /\ {x.uuid : x \in s.objects} = {o.uuid : o \in e.objects}
               /\ s.sightings = e.sightings /\ s.proposals = e.proposals
               /\ Taken(s) \subseteq Taken(e) \cup Unused(e)
               /\ Targets(s) = Targets(e)
<1> DEFINE s == Stored(e)
<1>1. Apart(e)
  BY ApartIs
<1>2. /\ IsEvent(s) /\ OneOfEach(s) /\ InOnePlace(s)
      /\ \A f \in DOMAIN Blank \ {"attributes", "objects"} : s[f] = e[f]
      /\ \A o \in e.objects : \E x \in s.objects : SameObject(x, o)
      /\ {x.uuid : x \in s.objects} = {o.uuid : o \in e.objects}
      /\ Taken(s) \subseteq Taken(e) \cup Unused(e)
  BY <1>1, StoredIs
<1> HIDE DEF s
<1>3. s.uuid = e.uuid /\ s.sightings = e.sightings /\ s.proposals = e.proposals
  BY <1>2 DEF Blank
<1>4. \A o, x : SameObject(x, o) => x.uuid = o.uuid /\ x.references = o.references
  BY DEF SameObject, Object
<1>5. ASSUME NEW x \in s.objects PROVE \E o \in e.objects : x.references = o.references
  <2>1. PICK o \in e.objects : x.uuid = o.uuid
    BY <1>2
  <2>2. PICK y \in s.objects : SameObject(y, o)
    BY <1>2
  <2>3. x = y
    BY <1>2, <1>4, <2>1, <2>2 DEF OneOfEach
  <2> QED BY <1>4, <2>2, <2>3
<1>6. \A o \in e.objects : \E x \in s.objects : x.references = o.references
  BY <1>2, <1>4
<1>7. UNION {x.references : x \in s.objects} = UNION {o.references : o \in e.objects}
  BY <1>5, <1>6
<1>8. Targets(s) = Targets(e)
  BY <1>3, <1>7 DEF Targets
<1> QED BY <1>2, <1>3, <1>8 DEF s

HeldInv ==
    /\ Keepers(held)
    /\ done # "none" => plan.accepted /\ held # <<>>
    /\ done = "create-new-uuid" => Targets(held[Len(held)]) \cap Inside(plan.event) = {}
    /\ MergeSettles

\* The original comes first.
LEMMA FirstIs ==
    ASSUME HeldInv, held # <<>>
    PROVE  /\ held \in Seq(Range(held)) /\ Len(held) \in 1..(MaxCopies + 1) /\ DOMAIN held = 1..Len(held)
           /\ 1 \in DOMAIN held /\ Keeper(held[1], 1) /\ IsFirst(held[1])
BY CasesAssumption DEF HeldInv, Keepers

\* The second of the copies of an event has no UUID that the first one gave.
LEMMA Apiece ==
    ASSUME NEW n \in DOMAIN held, HeldInv, n # 1
    PROVE  Taken(held[n]) \cap Known = {}
<1>1. DOMAIN held = 1..Len(held) /\ Len(held) \in Nat /\ Len(held) <= MaxCopies + 1
  BY DEF HeldInv, Keepers
<1>2. n \in 1..(MaxCopies + 1) /\ 1 \in 1..(MaxCopies + 1)
  BY <1>1, CasesAssumption
<1>3. Names(1) \cap Names(n) = {}
  BY <1>2, NamesApart
<1>4. Names(1) = Known /\ Given \cap Known = {}
  BY CasesAssumption DEF Names
<1> QED BY <1>3, <1>4 DEF HeldInv, Keepers, Keeper

\* What a merge leaves in place of the destination's event.
LEMMA MergeKeeps ==
    ASSUME IndInv, HeldInv, Merge
    PROVE  /\ Keepers(held') /\ held' # <<>> /\ MergedEvent(held'[1], plan.event) = held'[1]
           /\ Holds(held'[1], held[1]) /\ Holds(held'[1], plan.event)
           /\ held[1].attributes \subseteq held'[1].attributes
           /\ AllAttributes(held[1]) \subseteq AllAttributes(held'[1])
           /\ held[1].tags \subseteq held'[1].tags
<1> DEFINE d == held[1]
           p == plan.event
           s == Stored(MergedEvent(d, p))
<1>1. held # <<>> /\ Takes(MergedEvent(d, p)) /\ held' = [held EXCEPT ![1] = s]
  BY DEF Merge
<1>2. Keeper(d, 1) /\ IsFirst(d) /\ 1 \in DOMAIN held /\ DOMAIN held = 1..Len(held)
      /\ Len(held) \in Nat \ {0} /\ held \in Seq(Range(held))
  BY <1>1, FirstIs
<1>3. IsKept(p) /\ Keeper(p, 1) /\ IsFirst(p) /\ Taken(p) \subseteq Known
  BY PlannedIsKept, KeptIs
<1> HIDE DEF d, p
<1>4. Sides(d, p)
  BY <1>2, <1>3 DEF Sides, Keeper
<1>5. /\ IsEvent(s) /\ OneOfEach(s) /\ InOnePlace(s)
      /\ s.uuid = d.uuid /\ {x.uuid : x \in s.objects} = {o.uuid : o \in d.objects \cup p.objects}
      /\ IsABag(s.sightings) /\ IsABag(s.proposals)
      /\ Taken(s) \subseteq Taken(d) \cup Taken(p) \cup Unused(MergedEvent(d, p))
      /\ Holds(s, d) /\ Holds(s, p)
      /\ d.attributes \subseteq s.attributes /\ AllAttributes(d) \subseteq AllAttributes(s)
      /\ d.tags \subseteq s.tags
      /\ MergedEvent(s, p) = s
  BY <1>1, <1>2, <1>3, <1>4, MergeDoes DEF IsFirst
<1> HIDE DEF s
<1>6. \A o \in s.objects : o.uuid \in Known
  <2>1. \A o \in d.objects \cup p.objects : o.uuid \in Known
    BY <1>2, <1>3 DEF Keeper, Names
  <2> QED BY <1>5, <2>1
<1>7. Keeper(s, 1) /\ IsFirst(s)
  <2>1. Taken(s) \subseteq Known \cup Given
    BY <1>2, <1>3, <1>5, UnusedIs DEF Keeper, Names
  <2> QED BY <1>2, <1>5, <1>6, <2>1 DEF Keeper, IsFirst, Names
<1>8. ASSUME NEW n \in DOMAIN held, n # 1 PROVE Taken(s) \cap Taken(held[n]) = {}
  <2>1. Taken(d) \cap Taken(held[n]) = {}
    BY <1>2, <1>8 DEF HeldInv, Keepers, d
  <2>2. Taken(p) \cap Taken(held[n]) = {}
    BY <1>3, <1>8, Apiece
  <2>3. Unused(MergedEvent(d, p)) \cap Taken(held[n]) = {}
    BY UnusedIs
  <2> QED BY <1>5, <2>1, <2>2, <2>3
<1>9. Keepers(held')
  <2>1. Keepers([held EXCEPT ![1] = s])
    BY <1>1, <1>7, <1>8, PutFirst DEF HeldInv
  <2> QED BY <1>1, <2>1
<1>10. held'[1] = s /\ held' # <<>>
  BY <1>1, <1>2
<1> QED BY <1>5, <1>9, <1>10 DEF d, p

\* Adding an event keeps the UUIDs apart.
LEMMA AddKeeps ==
    ASSUME IndInv, HeldInv, Add
    PROVE  Keepers(held') /\ held' # <<>>
<1> DEFINE p == plan.event
           s == Stored(p)
<1>1. held = <<>> /\ Takes(p) /\ held' = <<s>>
  BY DEF Add
<1>2. IsKept(p) /\ Keeper(p, 1) /\ IsFirst(p) /\ Taken(p) \subseteq Known
      /\ \A o \in p.objects : o.uuid \in Known
  BY PlannedIsKept, KeptIs
<1> HIDE DEF p
<1>3. /\ IsEvent(s) /\ OneOfEach(s) /\ InOnePlace(s)
      /\ s.uuid = p.uuid /\ {x.uuid : x \in s.objects} = {o.uuid : o \in p.objects}
      /\ s.sightings = p.sightings /\ s.proposals = p.proposals
      /\ Taken(s) \subseteq Taken(p) \cup Unused(p)
  BY <1>1, <1>2, StoredAnew DEF IsKept
<1> HIDE DEF s
<1>4. Keeper(s, 1) /\ IsFirst(s)
  <2>1. Taken(s) \subseteq Known \cup Given
    BY <1>2, <1>3, UnusedIs
  <2>2. \A o \in s.objects : o.uuid \in Known
    BY <1>2, <1>3
  <2> QED BY <1>2, <1>3, <2>1, <2>2 DEF Keeper, IsFirst, Names
<1>5. held' = Append(held, s) /\ Len(held) = 0 /\ DOMAIN held = {}
  BY <1>1
<1>6. Keepers(Append(held, s))
  <2>1. Len(held) <= MaxCopies /\ Len(held) + 1 = 1
    BY <1>5, CasesAssumption
  <2>2. Keeper(s, Len(held) + 1)
    BY <1>4, <2>1
  <2>3. Keepers(held) /\ \A n \in DOMAIN held : Taken(s) \cap Taken(held[n]) = {}
    BY <1>5 DEF HeldInv
  <2> QED BY <1>4, <2>1, <2>2, <2>3, PutLast
<1> QED BY <1>1, <1>5, <1>6

\* A copy with a fresh identity keeps the UUIDs apart, and points to nothing of its original.
LEMMA CopyKeeps ==
    ASSUME IndInv, HeldInv, CreateNewUuid
    PROVE  /\ Keepers(held') /\ held' # <<>>
           /\ Targets(held'[Len(held')]) \cap Inside(plan.event) = {}
<1> DEFINE p == plan.event
           n == Len(held)
           r == RenumberedEvent(p, Fresh(n))
           s == Stored(r)
<1>1. held # <<>> /\ n <= MaxCopies /\ Takes(r) /\ held' = Append(held, s)
  BY DEF CreateNewUuid
<1>2. /\ held \in Seq(Range(held)) /\ n \in 1..(MaxCopies + 1) /\ DOMAIN held = 1..n
      /\ MaxCopies \in Nat
  BY <1>1, FirstIs, CasesAssumption
<1>3. n \in 1..MaxCopies
  BY <1>1, <1>2
<1>4. IsKept(p)
  BY PlannedIsKept
<1> HIDE DEF p
<1>5. /\ IsEvent(r) /\ OneOfEach(r) /\ InOnePlace(r) /\ Inside(r) \subseteq CopiedNames(n)
      /\ Targets(r) \cap Inside(p) = {}
  BY <1>3, <1>4, RenumberedIs
<1> HIDE DEF r
<1>6. /\ IsEvent(s) /\ OneOfEach(s) /\ InOnePlace(s)
      /\ s.uuid = r.uuid /\ {x.uuid : x \in s.objects} = {o.uuid : o \in r.objects}
      /\ Taken(s) \subseteq Taken(r) \cup Unused(r)
      /\ Targets(s) = Targets(r)
  BY <1>1, <1>5, StoredAnew
<1> HIDE DEF s
<1>7. r.uuid \in CopiedNames(n) /\ (\A o \in r.objects : o.uuid \in CopiedNames(n))
      /\ Taken(r) \subseteq CopiedNames(n)
  BY <1>5 DEF Inside, Taken
<1>8. Names(n + 1) = CopiedNames(n)
  BY <1>3 DEF Names
<1>9. Keeper(s, n + 1)
  <2>1. Taken(s) \subseteq CopiedNames(n) \cup Given
    BY <1>6, <1>7, UnusedIs
  <2>2. \A o \in s.objects : o.uuid \in CopiedNames(n)
    BY <1>6, <1>7
  <2> HIDE DEF n
  <2> QED BY <1>6, <1>7, <1>8, <2>1, <2>2 DEF Keeper
<1>10. ASSUME NEW k \in DOMAIN held PROVE Taken(s) \cap Taken(held[k]) = {}
  <2>1. k \in 1..(MaxCopies + 1) /\ n + 1 \in 1..(MaxCopies + 1) /\ k # n + 1
    BY <1>2, <1>3
  <2>2. Names(k) \cap Names(n + 1) = {} /\ Names(n + 1) \cap Given = {}
    BY <2>1, NamesApart
  <2>3. Taken(held[k]) \subseteq Names(k) \cup Given
    BY DEF HeldInv, Keepers, Keeper
  <2>4. CopiedNames(n) \cap Taken(held[k]) = {}
    BY <1>8, <2>2, <2>3
  <2>5. Unused(r) \cap Taken(held[k]) = {}
    BY UnusedIs
  <2> QED BY <1>6, <1>7, <2>4, <2>5
<1>11. Keepers(Append(held, s))
  BY <1>1, <1>9, <1>10, PutLast DEF HeldInv
<1>12. Len(Append(held, s)) = n + 1 /\ Append(held, s)[n + 1] = s /\ Append(held, s) # <<>>
  <2>1. held \in Seq(Range(held) \cup {s})
    BY <1>2
  <2> QED BY <2>1
<1> QED BY <1>1, <1>5, <1>6, <1>11, <1>12 DEF p

\* An analyst's edit keeps the UUIDs apart.
LEMMA EditKeeps ==
    ASSUME IndInv, HeldInv, EditDestination
    PROVE  Keepers(held')
<1>1. PICK e \in This.destinations : held' = [held EXCEPT ![1] = e]
  BY DEF EditDestination
<1>2. held # <<>> /\ This \in Cases
  BY DEF EditDestination, IndInv, This
<1>3. IsKept(e)
  BY <1>2, CaseIs
<1>4. Keeper(e, 1) /\ IsFirst(e) /\ Taken(e) \subseteq Known
  BY <1>3, KeptIs
<1>5. \A n \in DOMAIN held : n # 1 => Taken(e) \cap Taken(held[n]) = {}
  BY <1>4, Apiece
<1>6. Keepers([held EXCEPT ![1] = e])
  BY <1>2, <1>4, <1>5, PutFirst DEF HeldInv
<1> QED BY <1>1, <1>6

\* What the destination holds keeps its UUIDs apart, through edits, merges and copies.
LEMMA HeldInductive == Spec => [](IndInv /\ HeldInv)
<1>1. Init => HeldInv
  <2> SUFFICES ASSUME Init PROVE HeldInv
    OBVIOUS
  <2>1. done = "none"
    BY DEF Init
  <2>2. PICK c \in Cases : held \in {<<d>> : d \in c.destinations} \cup {<<>>}
    BY DEF Init
  <2>3. Keepers(<<>>)
    BY CasesAssumption DEF Keepers, Range
  <2>4. ASSUME NEW d \in c.destinations, held = <<d>> PROVE Keepers(held)
    <3>1. Keeper(d, 1) /\ IsFirst(d)
      BY CaseIs, KeptIs
    <3>2. Keepers(Append(<<>>, d))
      <4>1. /\ Len(<<>>) <= MaxCopies /\ Len(<<>>) + 1 = 1
            /\ \A n \in DOMAIN <<>> : Taken(d) \cap Taken(<<>>[n]) = {}
        BY CasesAssumption
      <4>2. Keeper(d, Len(<<>>) + 1)
        BY <3>1, <4>1
      <4> QED BY <2>3, <3>1, <4>1, <4>2, PutLast
    <3>3. held = Append(<<>>, d)
      BY <2>4
    <3> QED BY <3>2, <3>3
  <2> QED BY <2>1, <2>2, <2>3, <2>4 DEF HeldInv, MergeSettles
<1>2. IndInv /\ HeldInv /\ [Next]_vars => HeldInv'
  <2> SUFFICES ASSUME IndInv, HeldInv, [Next]_vars PROVE HeldInv'
    OBVIOUS
  <2>1. CASE EditSource
    BY <2>1 DEF EditSource, HeldInv, MergeSettles
  <2>2. CASE EditDestination
    <3>1. Keepers(held') /\ done' = "none"
      BY <2>2, EditKeeps DEF EditDestination
    <3> QED BY <3>1 DEF HeldInv, MergeSettles
  <2>3. CASE Plan
    <3>1. done = "none"
      BY <2>3 DEF Plan, HeldInv, Unplanned
    <3> QED BY <2>3, <3>1 DEF Plan, HeldInv, MergeSettles
  <2>4. CASE Add
    <3>1. Keepers(held') /\ held' # <<>> /\ done' = "add" /\ plan' = plan /\ plan.accepted
      BY <2>4, AddKeeps DEF Add, Ready
    <3> QED BY <3>1 DEF HeldInv, MergeSettles
  <2>5. CASE Merge
    <3>1. done' = "merge" /\ plan' = plan /\ plan.accepted
      BY <2>5 DEF Merge, Ready
    <3>2. Keepers(held') /\ held' # <<>> /\ MergedEvent(held'[1], plan.event) = held'[1]
      BY <2>5, MergeKeeps
    <3> QED BY <3>1, <3>2 DEF HeldInv, MergeSettles
  <2>6. CASE CreateNewUuid
    <3>1. done' = "create-new-uuid" /\ plan' = plan /\ plan.accepted
      BY <2>6 DEF CreateNewUuid, Ready
    <3>2. Keepers(held') /\ held' # <<>> /\ Targets(held'[Len(held')]) \cap Inside(plan.event) = {}
      BY <2>6, CopyKeeps
    <3> QED BY <3>1, <3>2 DEF HeldInv, MergeSettles
  <2>7. CASE Again
    BY <2>7 DEF Again, HeldInv, MergeSettles
  <2>8. CASE UNCHANGED vars
    BY <2>8 DEF vars, HeldInv, MergeSettles
  <2> QED BY <2>1, <2>2, <2>3, <2>4, <2>5, <2>6, <2>7, <2>8 DEF Next
<1> QED BY Inductive, <1>1, <1>2, PTL DEF Spec

-----------------------------------------------------------------------------
(* What the writes of apply() promise.                                     *)

\* A server's events keep the UUIDs of their members apart, whatever is merged into
\* them, copied beside them and edited in between (services/copy.py:154, :198).
THEOREM IdentitiesKept == Spec => []IdentitiesHold
<1>1. ASSUME HeldInv PROVE IdentitiesHold
  <2>1. DOMAIN held = 1..Len(held) /\ Len(held) \in Nat /\ Len(held) <= MaxCopies + 1
    BY <1>1 DEF HeldInv, Keepers
  <2>2. ASSUME NEW n \in DOMAIN held PROVE Keeper(held[n], n) /\ n \in 1..(MaxCopies + 1)
    BY <1>1, <2>1, CasesAssumption DEF HeldInv, Keepers
  <2>3. ASSUME NEW n \in DOMAIN held
        PROVE  \A u \in Inside(held[n]) : u \in Names(n) \/ u \in Taken(held[n])
    BY <2>2 DEF Keeper, Inside, Taken
  <2>4. ASSUME NEW m \in DOMAIN held, NEW n \in DOMAIN held, m # n
        PROVE  Inside(held[m]) \cap Inside(held[n]) = {}
    <3>1. /\ Names(m) \cap Names(n) = {} /\ Names(m) \cap Given = {} /\ Names(n) \cap Given = {}
      BY <2>2, <2>4, NamesApart
    <3>2. Taken(held[m]) \cap Taken(held[n]) = {}
      BY <1>1, <2>4 DEF HeldInv, Keepers
    <3>3. Taken(held[m]) \subseteq Names(m) \cup Given /\ Taken(held[n]) \subseteq Names(n) \cup Given
      BY <2>2 DEF Keeper
    <3>4. ASSUME NEW u \in Inside(held[m]), u \in Inside(held[n]) PROVE FALSE
      <4>1. u \in Names(m) \/ u \in Taken(held[m])
        BY <2>3
      <4>2. u \in Names(n) \/ u \in Taken(held[n])
        BY <2>3, <3>4
      <4> QED BY <3>1, <3>2, <3>3, <4>1, <4>2
    <3> QED BY <3>4
  <2> QED BY <1>1, <2>2, <2>4 DEF IdentitiesHold, HeldInv, Keeper
<1> QED BY HeldInductive, <1>1, PTL

\* A second merge of what was merged changes nothing, whatever UUIDs the server gave
\* to what came without one, whatever was renamed, redacted or moved before
\* (services/copy.py:309, :361).
THEOREM MergesSettle == Spec => []MergeSettles
<1>1. HeldInv => MergeSettles
  BY DEF HeldInv
<1> QED BY HeldInductive, <1>1, PTL

\* A merge removes nothing of the destination's, not even a spelling or a UUID, and
\* leaves out nothing of what was proposed (services/copy.py:309).
THEOREM MergesUnite == Spec => MergeUnites
<1> DEFINE Unites ==
        done' = "merge" /\ done = "none" =>
            LET before == held[1]  after == held'[1]
            IN  /\ Holds(after, before) /\ Holds(after, plan.event)
                /\ before.attributes \subseteq after.attributes
                /\ AllAttributes(before) \subseteq AllAttributes(after)
                /\ before.tags \subseteq after.tags
<1>1. IndInv /\ HeldInv /\ [Next]_vars => [Unites]_vars
  <2> SUFFICES ASSUME IndInv, HeldInv, Next, done' = "merge", done = "none" PROVE Unites
    OBVIOUS
  <2>1. Merge
    BY DEF Next, EditSource, EditDestination, Plan, Add, CreateNewUuid, Again
  <2> QED BY <2>1, MergeKeeps
<1> HIDE DEF Unites
<1>2. Spec => [][Unites]_vars
  BY HeldInductive, <1>1, PTL DEF Spec
<1> QED BY <1>2 DEF MergeUnites, Unites

\* The diff and the fingerprint agree on whatever is read from the source, proposed to
\* the destination or held there (services/event_diff.py:25, domain/fingerprint.py:24).
THEOREM DiffAgrees == Spec => []DiffAgreesWithFingerprint
<1>1. ASSUME IndInv, HeldInv PROVE DiffAgreesWithFingerprint
  <2>1. \A l \in {source, plan.event} : IsEvent(l) /\ OneOfEach(l)
    BY <1>1, PlannedIsKept DEF IndInv, IsKept
  <2>2. \A n \in DOMAIN held : IsEvent(held[n]) /\ OneOfEach(held[n])
    BY <1>1 DEF HeldInv, Keepers, Keeper
  <2> SUFFICES ASSUME NEW l \in {source, plan.event}, NEW n \in DOMAIN held
               PROVE  Equivalent(l, held[n]) <=>
                        /\ Fingerprint(l) = Fingerprint(held[n])
                        /\ l.sightings = held[n].sightings /\ l.proposals = held[n].proposals
    BY DEF DiffAgreesWithFingerprint
  <2> QED BY <2>1, <2>2, DiffIsFingerprint
<1> QED BY HeldInductive, <1>1, PTL
=============================================================================
