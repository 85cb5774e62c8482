------------------------------ MODULE SyncProofs ------------------------------
(***************************************************************************)
(* The safety properties of Sync, for any events, facts, policies, jobs,   *)
(* stores to begin with and bounds: what a job writes keeps to its         *)
(* direction and its strategy, its result names every copy once, and a     *)
(* run that fails nowhere leaves the next one nothing to copy.             *)
(***************************************************************************)
EXTENDS Sync, TLAPS, FiniteSetTheorems, SequenceTheorems, WellFoundedInduction, NaturalsInduction

-----------------------------------------------------------------------------
(* The inductive invariant.                                                *)

\* What replaces an event of this side, the strategy gives up.
Yields(s) == job.strategy \notin {"skip", Prefer(s)}

\* A copy that the job may make, unless it is blocked.
Allowed(c) ==
    /\ Enabled(c.from)
    /\ c.action = "update" => Yields(Other(c.from))
    /\ c.blocked \/ ~Rejects(c.from, c.proposed)
AllAllowed(seq) == \A i \in 1..Len(seq) : Allowed(seq[i])

\* The plan, while it is made and as it stands.
PlanInv ==
    /\ phase # "listing right" => \A s \in Sides : single[s] # {} => Enabled(s)
    /\ \A s \in Sides : AllAllowed(copies[s])
    /\ phase = "sourced" => draft \in Copy /\ Allowed(draft)
    /\ phase = "comparing" => draft \in Event /\ shared # {}
    /\ \A s \in Sides : phase = Resolving(s) => Enabled(s) /\ Yields(Other(s)) /\ shared # {}

\* The application: what the command applies has no blocked copy, and what is
\* about to be written has been looked at.
ApplyInv ==
    /\ AllAllowed(queue)
    /\ phase \in Applying /\ job.caller = "sync run" => ~Blocked
    /\ phase \in {"checked", "sent"} =>
        draft \in Copy /\ Allowed(draft) /\ ~draft.blocked /\ queue # <<>>
    /\ phase = "sent" /\ draft.verb = "edit" => draft.action = "update"

\* One event, one copy: the events still to plan, the one being planned and those
\* of the plan are all different.
Of(s) == {copies[s][i].uuid : i \in 1..Len(copies[s])}
Copied == Of("left") \cup Of("right")
Single == single["left"] \cup single["right"]
Apart ==
    /\ \A s \in Sides : \A i, j \in 1..Len(copies[s]) :
            i # j => copies[s][i].uuid # copies[s][j].uuid
    /\ Of("left") \cap Of("right") = {}
UniqueInv ==
    /\ Apart
    /\ phase \in {"listing left", "listing right"} => shared = {} /\ Copied = {}
    /\ phase = "listing right" => single["right"] = {}
    /\ phase \notin {"listing left", "listing right"} =>
        /\ single["left"] \cap single["right"] = {} /\ Single \cap shared = {}
        /\ (Single \cup shared) \cap Copied = {}
        /\ phase = "sourced" => draft.uuid \notin Single \cup shared \cup Copied

\* The application is at one place of its plan: what is behind it is in the
\* result, what is before it in the queue.
Uuid(i) == Plan[i].uuid
Done == Len(Plan) - Len(queue)
Named == {applied[i] : i \in 1..Len(applied)}
CountInv ==
    /\ phase \in Planning \cup {"planned"} => applied = <<>> /\ failures = {}
    /\ phase \in Applying \cup {"done"} =>
        /\ \A i, j \in 1..Len(Plan) : i # j => Uuid(i) # Uuid(j)
        /\ Done \in Nat
        /\ \A i \in 1..Len(queue) : queue[i] = Plan[Done + i]
        /\ phase \in {"checked", "sent"} => draft.uuid = Uuid(Done + 1)
        /\ Named \cup failures = {Uuid(i) : i \in 1..Done}
        /\ Named \cap failures = {}
        /\ Len(applied) + Cardinality(failures) = Done
        /\ phase = "done" => queue = <<>> /\ log = <<Len(applied), Cardinality(failures)>>

IndInv == TypeOK /\ PlanInv /\ ApplyInv /\ UniqueInv /\ CountInv

-----------------------------------------------------------------------------
(* Why applying a plan brings the next one to rest.                        *)

\* The jobs that come to rest at all.
Restful == job.direction # "both" \/ \A s \in Sides : job.policy[s] = "none"

\* What a run of the job makes of an event as it is: whether it looks at it, and
\* copies it from this side.
Seen(u) == \E s \in Sides : Enabled(s) /\ u \in Listed(s)
Both(u) == \A s \in Sides : events[s][u] # Absent
Proposes(s, u) ==
    LET l == events["left"][u]
        r == events["right"][u]
    IN IF Both(u) THEN Seen(u) /\ ~InSync(l.content, r.content) /\ s \in Resolution(l.stamp, r.stamp)
       ELSE Enabled(s) /\ u \in Listed(s)
AtRest(u) == \A s \in Sides : Proposes(s, u) => Rejects(s, events[s][u].content)

\* What was listed and read is still so, if nobody edited anything.
Reading == Planning \ {"listing left", "listing right"}
ReadInv ==
    quiet =>
        /\ phase = "listing right" => single["left"] = Listed("left")
        /\ phase \in Reading =>
            /\ \A s \in Sides : single[s] \subseteq Listed(s)
            /\ \A u \in shared : Seen(u)
        /\ phase = "sourced" =>
            /\ IF draft.action = "abort" THEN draft.uuid \in Listed(draft.from)
               ELSE Proposes(draft.from, draft.uuid)
            /\ draft.blocked <=> Rejects(draft.from, events[draft.from][draft.uuid].content)
        /\ phase = "comparing" => draft = events["left"][First(shared)]
        /\ \A s \in Sides : phase = Resolving(s) => Both(First(shared)) /\ Proposes(s, First(shared))
        /\ phase \in {"checked", "sent"} =>
            LET e == events[draft.from][draft.uuid] IN e # Absent /\ e.content = draft.source

\* What is proposed is what the policy makes of the source.
Items(seq) == {seq[i] : i \in 1..Len(seq)}
Ordered == Items(copies["left"]) \cup Items(copies["right"])
Fits(c) == c.proposed = Proposed(c.from, c.source)
FitInv ==
    /\ \A c \in Ordered \cup Items(queue) : Fits(c)
    /\ phase \in {"sourced", "checked", "sent"} => Fits(draft)

\* An event is at rest, or the run has yet to come to it or has failed to copy it.
Waiting == {c.uuid : c \in Items(queue)}
CoveredInv ==
    quiet =>
        /\ phase \in Reading => \A u \in Uuids :
            \/ AtRest(u)
            \/ u \in Single \cup shared \cup Copied
            \/ phase = "sourced" /\ u = draft.uuid
        /\ phase = "planned" => \A u \in Uuids : AtRest(u) \/ u \in Copied
        /\ phase \in Applying => \A u \in Uuids : AtRest(u) \/ u \in failures \cup Waiting

\* After a run that failed nowhere every event is, and the next one copies nothing.
SettledInv ==
    settled =>
        /\ quiet /\ phase \notin {"checked", "sent"}
        /\ \A u \in Uuids : AtRest(u)
        /\ phase # "done" => \A c \in Ordered \cup Items(queue) : c.blocked

RestInv == Restful => ReadInv /\ FitInv /\ CoveredInv /\ SettledInv

-----------------------------------------------------------------------------
(* Types.                                                                  *)

\* sorted() gives an element of what it sorts.
LEMMA FirstIn == \A S \in SUBSET Uuids : S # {} => First(S) \in S
<1> SUFFICES ASSUME NEW S \in SUBSET Uuids, S # {} PROVE \E u \in S : \A v \in S : u <= v
  BY DEF First
<1>1. S \subseteq Nat
  BY ConstantsAssumption
<1>2. PICK u \in S : \A v \in S : ~(<<v, u>> \in OpToRel(<, Nat))
  BY <1>1, NatLessThanWellFounded, WFMin
<1>3. \A v \in S : ~(v < u)
  BY <1>1, <1>2, Zenon DEF OpToRel
<1> QED BY <1>1, <1>3

\* The plan is made of the copies of both sides.
LEMMA PlanIs ==
    ASSUME TypeOK
    PROVE  /\ Plan \in Seq(Copy) /\ Len(Plan) = Len(copies["left"]) + Len(copies["right"])
           /\ \A i \in 1..Len(Plan) :
                Plan[i] = IF i <= Len(copies["left"]) THEN copies["left"][i]
                          ELSE copies["right"][i - Len(copies["left"])]
<1>1. copies["left"] \in Seq(Copy) /\ copies["right"] \in Seq(Copy)
  BY DEF TypeOK, Sides
<1> QED BY ONLY <1>1, ConcatProperties DEF Plan

\* What Failed keeps of the types.
LEMMA FailedTypes ==
    ASSUME TypeOK, NEW c \in Copy, Failed(c), queue # <<>>
    PROVE  /\ queue' \in Seq(Copy) /\ applied' \in Seq(Uuids) /\ failures' \in SUBSET Uuids
           /\ phase' = "applying" /\ draft' = Absent
  BY DEF TypeOK, Failed, Copy

LEMMA ReadTypes ==
    ASSUME TypeOK, NEW s \in Sides, NEW u \in Uuids, NEW action \in {"abort", "update"},
           ReadSource(s, u, action)
    PROVE  /\ draft' \in Copy /\ phase' = "sourced" /\ draft'.from = s /\ draft'.uuid = u
           /\ draft'.action = action /\ (draft'.blocked \/ ~Rejects(s, draft'.proposed))
<1>1. PICK e \in Event : /\ e = events[s][u]
                         /\ draft' = [from |-> s, uuid |-> u, action |-> action, source |-> e.content,
                              proposed |-> Proposed(s, e.content), base |-> Absent,
                              stamps |-> <<e.stamp, 0>>, blocked |-> Rejects(s, e.content),
                              verb |-> "add"]
  BY DEF TypeOK, ReadSource
<1>2. e.content \in Contents /\ e.stamp \in Nat
  BY DEF Event
<1>3. Proposed(s, e.content) \in Contents /\ Rejects(s, e.content) \in BOOLEAN
  BY <1>2 DEF Proposed, Contents, Rejects
<1>4. Rejects(s, e.content) \/ ~Rejects(s, Proposed(s, e.content))
  BY DEF Proposed, Rejects
<1>5. draft' \in Copy
  BY <1>1, <1>2, <1>3 DEF Copy
<1> QED BY <1>1, <1>4, <1>5 DEF ReadSource

LEMMA TypeInit == Init => TypeOK
<1> SUFFICES ASSUME Init PROVE TypeOK
  OBVIOUS
<1>1. events \in [Sides -> [Uuids -> Event \cup {Absent}]]
  BY ConstantsAssumption DEF Init
<1>2. single \in [Sides -> SUBSET Uuids] /\ shared \in SUBSET Uuids
  BY DEF Init, None
<1>3. \A s \in Sides : copies[s] = <<>>
  BY DEF Init
<1>4. 0 \in 0..MaxEdits /\ 0 \in 0..MaxRuns
  BY ConstantsAssumption
<1>5. copies \in [Sides -> Seq(Copy)]
  BY EmptySeq DEF Init
<1>6. queue \in Seq(Copy) /\ applied \in Seq(Uuids) /\ failures \in SUBSET Uuids /\ log \in Seq(Nat)
  BY DEF Init
<1>7. phase \in Planning \cup Applying \cup {"idle", "planned", "done", "raised"}
  BY DEF Init
<1> QED BY <1>1, <1>2, <1>4, <1>5, <1>6, <1>7 DEF Init, TypeOK
\* A copy whose destination has been read, or could not be: it is planned, or its
\* event is to be compared.
LEMMA DraftEnds ==
    ASSUME TypeOK, draft \in Copy, PlanDestination \/ PlanUnreachable
    PROVE  /\ phase = "sourced" /\ phase' = "planning" /\ draft' = Absent
           /\ \/ /\ shared' = shared \cup {draft.uuid} /\ UNCHANGED copies
                 /\ draft.action = "abort"
              \/ UNCHANGED shared /\ \E c \in Copy :
                    /\ Planned(c) /\ c.from = draft.from /\ c.uuid = draft.uuid
                    /\ c.action = draft.action
                    /\ c.source = draft.source /\ c.proposed = draft.proposed
                    /\ \/ c.blocked
                       \/ /\ c.blocked = draft.blocked
                          /\ draft.action = "abort" => Held = Absent
<1>1. CASE PlanDestination
  <2>1. Other(draft.from) \in Sides /\ draft.uuid \in Uuids
    BY DEF Copy, Sides, Other
  <2>2. Held \in Event \cup {Absent}
    BY <2>1 DEF Held, TypeOK
  <2> DEFINE b == IF draft.action = "update" /\ Held # Absent THEN Held.content ELSE Absent
             n == IF Held # Absent THEN Held.stamp ELSE 0
             c == [draft EXCEPT !.base = b, !.stamps = <<@[1], n>>]
  <2>3. b \in Contents \cup {Absent} /\ n \in Nat
    BY <2>2 DEF Event
  <2>4. \/ shared' = shared \cup {draft.uuid} /\ UNCHANGED copies /\ draft.action = "abort"
        \/ UNCHANGED shared /\ Planned(c) /\ (draft.action = "abort" => Held = Absent)
    BY <1>1 DEF PlanDestination, KeepOrCompare
  <2> HIDE DEF b, n
  <2>5. c \in Copy /\ c.from = draft.from /\ c.uuid = draft.uuid /\ c.action = draft.action
        /\ c.blocked = draft.blocked /\ c.source = draft.source /\ c.proposed = draft.proposed
    BY <2>3 DEF Copy
  <2> HIDE DEF c
  <2> QED BY <1>1, <2>4, <2>5 DEF PlanDestination
<1>2. CASE PlanUnreachable
  <2> DEFINE c == [draft EXCEPT !.blocked = TRUE]
  <2>1. c \in Copy /\ c.from = draft.from /\ c.uuid = draft.uuid /\ c.action = draft.action
        /\ c.blocked /\ c.source = draft.source /\ c.proposed = draft.proposed
    BY DEF Copy
  <2>2. Planned(c) /\ UNCHANGED shared
    BY <1>2 DEF PlanUnreachable
  <2> HIDE DEF c
  <2> QED BY <1>2, <2>1, <2>2 DEF PlanUnreachable
<1> QED BY <1>1, <1>2

\* A copy joins those of its side.
LEMMA PlannedIs ==
    ASSUME TypeOK, NEW c \in Copy, Planned(c)
    PROVE  /\ copies' \in [Sides -> Seq(Copy)]
           /\ \A s \in Sides :
                copies'[s] = IF s = c.from THEN Append(copies[s], c) ELSE copies[s]
<1>1. c.from \in Sides
  BY DEF Copy
<1>2. Append(copies[c.from], c) \in Seq(Copy)
  BY <1>1 DEF TypeOK
<1> QED BY <1>1, <1>2 DEF Planned, TypeOK

\* What a run keeps when it begins, or ends with an exception.
LEMMA Forgotten ==
    ASSUME Forget
    PROVE  /\ single' \in [Sides -> SUBSET Uuids] /\ shared' = {} /\ draft' = Absent
           /\ copies' = [s \in Sides |-> <<>>]
           /\ \A s \in Sides : copies'[s] = <<>> /\ single'[s] = {}
           /\ queue' = <<>> /\ applied' = <<>> /\ failures' = {}
  BY DEF Forget, None

LEMMA TypeStep == TypeOK /\ PlanInv /\ ApplyInv /\ [Next]_vars => TypeOK'
<1> SUFFICES ASSUME TypeOK, PlanInv, ApplyInv, [Next]_vars PROVE TypeOK'
  OBVIOUS
<1> USE ConstantsAssumption DEF TypeOK, Planning, Applying, servers, result
<1>1. ASSUME Forget, UNCHANGED <<job, servers, log>>, runs' \in 0..MaxRuns,
             phase' \in Planning \cup {"raised"}, quiet' \in BOOLEAN, settled' \in BOOLEAN
      PROVE  TypeOK'
  <2>1. /\ single' \in [Sides -> SUBSET Uuids] /\ shared' \in SUBSET Uuids /\ draft' = Absent
        /\ queue' = <<>> /\ applied' = <<>> /\ failures' = {}
    BY <1>1, Forgotten
  <2>2. copies' \in [Sides -> Seq(Copy)]
    <3>1. copies' = [s \in Sides |-> <<>>]
      BY <1>1, Forgotten
    <3> QED BY ONLY <3>1, EmptySeq
  <2>3. queue' \in Seq(Copy) /\ applied' \in Seq(Uuids)
    BY <2>1, EmptySeq
  <2> QED BY <1>1, <2>1, <2>2, <2>3
<1>a. CASE Start
  <2>1. settled' \in BOOLEAN /\ quiet' \in BOOLEAN
    BY <1>a, Zenon DEF Start
  <2>2. runs' \in 0..MaxRuns
    <3>1. runs \in 0..MaxRuns /\ MaxRuns \in Nat /\ runs < MaxRuns /\ runs' = runs + 1
      BY <1>a DEF Start
    <3> QED BY ONLY <3>1
  <2> QED BY <1>a, <1>1, <2>1, <2>2 DEF Start
<1>b. CASE FailRead \/ FailRecord \/ Cancel
  BY <1>b, <1>1 DEF FailRead, FailRecord, Cancel, Raise
<1>2. CASE ListLeft
  BY <1>2 DEF ListLeft, None, Listed, Sides
<1>3. CASE ListRight
  <2>1. Listed("right") \subseteq Uuids /\ single["left"] \subseteq Uuids
    BY DEF Listed, Sides
  <2>2. single' \in [Sides -> SUBSET Uuids] /\ shared' \in SUBSET Uuids
    BY <1>3, <2>1 DEF ListRight
  <2> QED BY <1>3, <2>2 DEF ListRight
<1>4. CASE PlanSingle
  <2> DEFINE s == IF single["left"] # {} THEN "left" ELSE "right"
             u == First(single[s])
  <2>1. s \in Sides /\ u \in Uuids
    BY <1>4, FirstIn DEF PlanSingle, Sides, None
  <2>2. draft' \in Copy /\ phase' = "sourced"
    BY <1>4, <2>1, ReadTypes DEF PlanSingle
  <2>3. single' \in [Sides -> SUBSET Uuids]
    BY <1>4, <2>1 DEF PlanSingle
  <2> QED BY <1>4, <2>2, <2>3 DEF PlanSingle
<1>5. CASE PlanDestination \/ PlanUnreachable
  <2>1. draft \in Copy
    BY <1>5 DEF PlanInv, PlanDestination, PlanUnreachable
  <2>2. /\ phase' = "planning" /\ draft' = Absent /\ shared' \in SUBSET Uuids
        /\ copies' \in [Sides -> Seq(Copy)]
    BY <1>5, <2>1, DraftEnds, PlannedIs DEF Copy
  <2> QED BY <1>5, <2>2 DEF PlanDestination, PlanUnreachable
<1>6. CASE ReadLeft
  <2>1. First(shared) \in Uuids
    BY <1>6, FirstIn DEF ReadLeft
  <2> QED BY <1>6, <2>1 DEF ReadLeft, Sides
<1>7. CASE ReadRight
  <2>1. phase' \in {"planning", "resolving left", "resolving right"}
    BY <1>7 DEF ReadRight, Resolving
  <2> QED BY <1>7, <2>1 DEF ReadRight
<1>8. ASSUME NEW s \in Sides, PlanConflict(s) PROVE TypeOK'
  <2>1. First(shared) \in Uuids
    BY <1>8, FirstIn DEF PlanConflict, PlanInv
  <2>2. draft' \in Copy /\ phase' = "sourced"
    BY <1>8, <2>1, ReadTypes DEF PlanConflict
  <2> QED BY <1>8, <2>2 DEF PlanConflict
<1>9. CASE EndPlanning
  BY <1>9 DEF EndPlanning
<1>10. CASE Apply
  BY <1>10, PlanIs DEF Apply
<1>11. CASE CheckCopy
  <2>1. Head(queue) \in Copy
    BY <1>11 DEF CheckCopy
  <2> QED BY <1>11, <2>1, FailedTypes DEF CheckCopy
<1>12. CASE LookAtDestination
  <2>1. draft \in Copy /\ queue # <<>>
    BY <1>12 DEF LookAtDestination, ApplyInv
  <2>2. \A v \in {"add", "edit"} : [draft EXCEPT !.verb = v] \in Copy
    BY <2>1 DEF Copy
  <2> QED BY <1>12, <2>1, <2>2, FailedTypes DEF LookAtDestination
<1>13. ASSUME NEW answered \in BOOLEAN, Serve(answered) PROVE TypeOK'
  <2>1. draft \in Copy /\ queue # <<>>
    BY <1>13 DEF Serve, ApplyInv
  <2>2. draft.proposed \in Contents /\ draft.uuid \in Uuids
    BY <2>1 DEF Copy
  <2>3. [content |-> draft.proposed, stamp |-> clock + 1] \in Event
    <3>1. clock \in Nat
      OBVIOUS
    <3> QED BY ONLY <2>2, <3>1 DEF Event
  <2>4. events' \in [Sides -> [Uuids -> Event \cup {Absent}]] /\ clock' \in Nat
    <3>1. Other(draft.from) \in Sides
      BY <2>1 DEF Copy, Other, Sides
    <3>2. events \in [Sides -> [Uuids -> Event \cup {Absent}]] /\ clock \in Nat
      OBVIOUS
    <3>3. \/ UNCHANGED <<events, clock>>
          \/ /\ events' = [events EXCEPT ![Other(draft.from)][draft.uuid] =
                              [content |-> draft.proposed, stamp |-> clock + 1]]
             /\ clock' = clock + 1
      BY <1>13 DEF Serve
    <3> QED BY ONLY <2>2, <2>3, <3>1, <3>2, <3>3
  <2>5. /\ queue' \in Seq(Copy) /\ applied' \in Seq(Uuids) /\ failures' \in SUBSET Uuids
        /\ phase' = "applying" /\ draft' = Absent
    <3>1. \/ Failed(draft)
          \/ /\ applied' = Append(applied, draft.uuid) /\ queue' = Tail(queue)
             /\ phase' = "applying" /\ draft' = Absent /\ UNCHANGED failures
      BY <1>13 DEF Serve
    <3>2. queue \in Seq(Copy) /\ applied \in Seq(Uuids) /\ failures \in SUBSET Uuids
      OBVIOUS
    <3>3. CASE Failed(draft)
      BY <2>1, <3>3, FailedTypes
    <3>4. CASE ~Failed(draft)
      <4>1. Append(applied, draft.uuid) \in Seq(Uuids) /\ Tail(queue) \in Seq(Copy)
        BY ONLY <2>1, <2>2, <3>2, AppendProperties, HeadTailProperties
      <4> QED BY ONLY <3>1, <3>2, <3>4, <4>1
    <3> QED BY <3>3, <3>4
  <2> QED BY <1>13, <2>4, <2>5 DEF Serve
<1>14. CASE FailCopy
  <2>1. queue # <<>>
    BY <1>14 DEF FailCopy, ApplyInv
  <2>2. Head(queue) \in Copy
    BY <2>1, HeadTailProperties
  <2> QED BY <1>14, <2>1, <2>2, FailedTypes DEF FailCopy
<1>15. CASE Record
  <2>1. Len(applied) \in Nat /\ Cardinality(failures) \in Nat
    <3>1. IsFiniteSet(Uuids) /\ failures \subseteq Uuids /\ applied \in Seq(Uuids)
      OBVIOUS
    <3> QED BY ONLY <3>1, FS_Subset, FS_CardinalityType
  <2>2. log' \in Seq(Nat) /\ settled' \in BOOLEAN
    BY <1>15, <2>1 DEF Record
  <2> QED BY <1>15, <2>2 DEF Record
<1>16. ASSUME NEW s \in Sides, NEW d \in Drafts, Edit(s, d[1], d[2]) PROVE TypeOK'
  <2>1. d[1] \in Uuids /\ d[2] \in Contents \cup {Absent}
    OBVIOUS
  <2>2. d[2] # Absent => [content |-> d[2], stamp |-> clock + 1] \in Event
    <3>1. clock \in Nat
      OBVIOUS
    <3> QED BY ONLY <2>1, <3>1 DEF Event
  <2>3. events' \in [Sides -> [Uuids -> Event \cup {Absent}]] /\ clock' \in Nat
    <3> DEFINE new == IF d[2] = Absent THEN Absent ELSE [content |-> d[2], stamp |-> clock + 1]
    <3>1. new \in Event \cup {Absent}
      BY <2>2
    <3>2. events \in [Sides -> [Uuids -> Event \cup {Absent}]] /\ clock \in Nat
      OBVIOUS
    <3>3. events' = [events EXCEPT ![s][d[1]] = new] /\ clock' = clock + 1
      BY <1>16 DEF Edit
    <3> HIDE DEF new
    <3> QED BY ONLY s \in Sides, <2>1, <3>1, <3>2, <3>3
  <2>4. edits' \in 0..MaxEdits
    <3>1. edits \in 0..MaxEdits /\ MaxEdits \in Nat /\ edits < MaxEdits /\ edits' = edits + 1
      BY <1>16 DEF Edit
    <3> QED BY ONLY <3>1
  <2> QED BY <1>16, <2>3, <2>4 DEF Edit
<1>17. CASE UNCHANGED vars
  BY <1>17 DEF vars
<1> QED BY <1>a, <1>b, <1>2, <1>3, <1>4, <1>5, <1>6, <1>7, <1>8, <1>9, <1>10, <1>11, <1>12,
           <1>13, <1>14, <1>15, <1>16, <1>17 DEF Next

-----------------------------------------------------------------------------
(* What the plan and its application may hold.                             *)

\* No step changes the job, nor what it allows.
LEMMA JobStays == [Next]_vars => UNCHANGED job
  BY Zenon DEF Next, vars, Start, ListLeft, ListRight, PlanSingle, PlanDestination,
     PlanUnreachable, ReadLeft, ReadRight, FailRead, EndPlanning, PlanConflict, Apply, CheckCopy,
     LookAtDestination, FailCopy, Record, FailRecord, Cancel, Serve, Edit, Raise

LEMMA RulesStay ==
    ASSUME UNCHANGED job
    PROVE  /\ \A s \in Sides : (Enabled(s) <=> Enabled(s)') /\ (Yields(s) <=> Yields(s)')
           /\ \A c \in Copy : Allowed(c) <=> Allowed(c)'
<1>1. \A s : (Enabled(s) <=> Enabled(s)') /\ (Yields(s) <=> Yields(s)')
  BY DEF Enabled, Yields
<1>2. \A s, content : Rejects(s, content) <=> Rejects(s, content)'
  BY DEF Rejects
<1> QED BY <1>1, <1>2 DEF Allowed

LEMMA Empty == AllAllowed(<<>>) /\ AllAllowed(<<>>)'
  BY DEF AllAllowed

\* What is allowed stays so, whoever keeps it.
LEMMA AllowedStays ==
    ASSUME UNCHANGED job, NEW seq \in Seq(Copy), AllAllowed(seq)
    PROVE  AllAllowed(seq)'
<1>1. \A i \in 1..Len(seq) : seq[i] \in Copy
  OBVIOUS
<1> QED BY <1>1, RulesStay DEF AllAllowed

LEMMA AppendAllowed ==
    ASSUME NEW seq \in Seq(Copy), NEW c \in Copy, AllAllowed(seq), Allowed(c)
    PROVE  AllAllowed(Append(seq, c))
  BY AppendProperties DEF AllAllowed

LEMMA TailAllowed ==
    ASSUME NEW seq \in Seq(Copy), seq # <<>>, AllAllowed(seq)
    PROVE  AllAllowed(Tail(seq)) /\ Allowed(Head(seq))
  BY HeadTailProperties DEF AllAllowed

LEMMA PlanInvStep == TypeOK /\ TypeOK' /\ PlanInv /\ [Next]_vars => PlanInv'
<1> SUFFICES ASSUME TypeOK, TypeOK', PlanInv, [Next]_vars PROVE PlanInv'
  OBVIOUS
<1>j. UNCHANGED job
  BY JobStays
<1>t. /\ copies \in [Sides -> Seq(Copy)] /\ copies' \in [Sides -> Seq(Copy)]
      /\ single \in [Sides -> SUBSET Uuids] /\ shared \in SUBSET Uuids
  BY DEF TypeOK
<1>e. \A s \in Sides : Enabled(s) <=> Enabled(s)'
  BY <1>j, RulesStay
<1>c. \A s \in Sides : AllAllowed(copies[s])'  \/ ~(copies[s] = copies[s]')
  BY <1>j, <1>t, AllowedStays DEF PlanInv
\* A step that plans nothing.
<1>1. ASSUME UNCHANGED copies, phase # "listing right",
             \A s \in Sides : single'[s] \subseteq single[s],
             phase' \notin {"sourced", "comparing", "resolving left", "resolving right"}
      PROVE  PlanInv'
  BY <1>c, <1>e, <1>1 DEF PlanInv, Resolving
\* A run begins, or ends with an exception.
<1>2. ASSUME Forget, phase' \in {"listing left", "raised"}
      PROVE  PlanInv'
  <2>1. \A s \in Sides : copies'[s] = <<>> /\ single'[s] = {}
    BY <1>2, Forgotten
  <2> QED BY <1>2, <2>1, Empty DEF PlanInv, Resolving, AllAllowed
\* A source is read.
<1>3. ASSUME NEW s \in Sides, NEW u \in Uuids, NEW action \in {"abort", "update"},
             ReadSource(s, u, action), UNCHANGED copies, phase # "listing right",
             \A r \in Sides : single'[r] \subseteq single[r],
             Enabled(s), action = "update" => Yields(Other(s))
      PROVE  PlanInv'
  <2>1. /\ draft' \in Copy /\ phase' = "sourced" /\ draft'.from = s /\ draft'.action = action
        /\ draft'.blocked \/ ~Rejects(s, draft'.proposed)
    BY <1>3, ReadTypes
  <2>2. Allowed(draft')
    BY <1>3, <2>1 DEF Allowed
  <2>3. \A c \in Copy : Allowed(c) <=> Allowed(c)'
    BY <1>j, RulesStay
  <2>4. Allowed(draft)'
    BY <1>j, <2>1, <2>2 DEF Allowed, Enabled, Yields, Rejects
  <2> QED BY <1>c, <1>e, <1>3, <2>1, <2>4 DEF PlanInv, Resolving
<1>4. CASE Start
  BY <1>2, <1>4 DEF Start
<1>5. CASE FailRead \/ FailRecord \/ Cancel
  BY <1>2, <1>5 DEF FailRead, FailRecord, Cancel, Raise
<1>6. CASE ListLeft
  BY <1>c, <1>6 DEF ListLeft, PlanInv, Resolving
<1>7. CASE ListRight
  <2>1. \A s \in Sides : single'[s] # {} => Enabled(s)
    BY <1>7 DEF ListRight
  <2> QED BY <1>c, <1>e, <1>7, <2>1 DEF ListRight, PlanInv, Resolving
<1>8. CASE PlanSingle
  <2> DEFINE s == IF single["left"] # {} THEN "left" ELSE "right"
             u == First(single[s])
  <2>1. s \in Sides /\ u \in Uuids /\ single[s] # {}
    BY <1>8, <1>t, FirstIn DEF PlanSingle, Sides, None
  <2>2. \A r \in Sides : single'[r] \subseteq single[r]
    BY <1>8, <1>t, <2>1 DEF PlanSingle
  <2>3. Enabled(s)
    BY <1>8, <2>1 DEF PlanSingle, PlanInv
  <2> QED BY <1>3, <1>8, <2>1, <2>2, <2>3 DEF PlanSingle
<1>9. CASE PlanDestination \/ PlanUnreachable
  <2>1. draft \in Copy /\ Allowed(draft) /\ UNCHANGED single
    BY <1>9 DEF PlanDestination, PlanUnreachable, PlanInv
  <2>2. phase = "sourced" /\ phase' = "planning"
    BY <1>9, <2>1, DraftEnds
  <2>3. CASE UNCHANGED copies
    BY <1>1, <2>1, <2>2, <2>3
  <2>4. ASSUME NEW c \in Copy, Planned(c), c.from = draft.from, c.action = draft.action,
               c.blocked \/ (c.blocked = draft.blocked /\ c.proposed = draft.proposed)
        PROVE  PlanInv'
    <3>1. Allowed(c)
      BY <2>1, <2>4 DEF Allowed
    <3>2. \A r \in Sides : AllAllowed(copies'[r])
      BY <1>t, <2>4, <3>1, PlannedIs, AppendAllowed DEF PlanInv
    <3>3. \A r \in Sides : AllAllowed(copies[r])'
      BY <1>j, <1>t, <3>2 DEF AllAllowed, Allowed, Enabled, Yields, Rejects
    <3> QED BY <1>e, <2>1, <2>2, <3>3 DEF PlanInv, Resolving
  <2> QED BY <1>9, <2>1, <2>3, <2>4, DraftEnds
<1>10. CASE ReadLeft
  <2>1. First(shared) \in Uuids /\ "left" \in Sides
    BY <1>10, <1>t, FirstIn DEF ReadLeft, Sides
  <2>2. draft' \in Event /\ phase' = "comparing" /\ shared' # {} /\ UNCHANGED <<single, copies>>
    BY <1>10, <2>1 DEF ReadLeft, TypeOK
  <2> QED BY <1>c, <1>e, <1>10, <2>2 DEF ReadLeft, PlanInv, Resolving
<1>11. CASE ReadRight
  <2> DEFINE side == Resolution(draft.stamp, events["right"][First(shared)].stamp)
  <2>1. shared # {} /\ UNCHANGED <<single, copies>>
    BY <1>11 DEF ReadRight, PlanInv
  <2>2. CASE phase' = "planning"
    BY <1>1, <1>11, <2>1, <2>2 DEF ReadRight
  <2>3. ASSUME NEW s \in side, phase' = Resolving(s), UNCHANGED shared
        PROVE  PlanInv'
    <3>1. s \in Sides /\ Enabled(s) /\ job.strategy \in {Prefer(s), "newer-wins"}
      BY <2>3 DEF Resolution
    <3>2. Yields(Other(s))
      BY <3>1 DEF Yields, Prefer, Other, Sides
    <3>3. Enabled(s)' /\ Yields(Other(s))'
      BY <1>j, <3>1, <3>2 DEF Enabled, Yields
    <3>4. \A r \in Sides : phase' = Resolving(r) => r = s
      BY <2>3, <3>1 DEF Resolving, Sides
    <3> QED BY <1>c, <1>e, <1>11, <2>1, <2>3, <3>3, <3>4 DEF ReadRight, PlanInv, Resolving
  <2> QED BY <1>11, <2>2, <2>3 DEF ReadRight
<1>12. ASSUME NEW s \in Sides, PlanConflict(s) PROVE PlanInv'
  <2>1. First(shared) \in Uuids /\ Enabled(s) /\ Yields(Other(s)) /\ phase # "listing right"
    BY <1>12, <1>t, FirstIn DEF PlanConflict, PlanInv, Resolving
  <2> QED BY <1>3, <1>12, <2>1 DEF PlanConflict
<1>13. CASE EndPlanning \/ Apply
  BY <1>1, <1>13 DEF EndPlanning, Apply
<1>14. CASE CheckCopy \/ LookAtDestination \/ FailCopy \/ Record
  BY <1>1, <1>14 DEF CheckCopy, LookAtDestination, FailCopy, Record, Failed
<1>15. ASSUME NEW answered \in BOOLEAN, Serve(answered) PROVE PlanInv'
  BY <1>1, <1>15 DEF Serve, Failed
<1>16. CASE UNCHANGED <<phase, single, shared, draft, copies>>
  BY <1>c, <1>e, <1>j, <1>16, RulesStay
  DEF PlanInv, Allowed, Enabled, Yields, Rejects
<1>17. ASSUME NEW s \in Sides, NEW d \in Drafts, Edit(s, d[1], d[2])
       PROVE  UNCHANGED <<phase, single, shared, draft, copies>>
  BY <1>17 DEF Edit
<1>18. CASE UNCHANGED vars
  BY <1>16, <1>18 DEF vars
<1> QED BY <1>4, <1>5, <1>6, <1>7, <1>8, <1>9, <1>10, <1>11, <1>12, <1>13, <1>14, <1>15, <1>16,
           <1>17, <1>18 DEF Next

LEMMA ApplyInvStep == TypeOK /\ TypeOK' /\ PlanInv /\ ApplyInv /\ [Next]_vars => ApplyInv'
<1> SUFFICES ASSUME TypeOK, TypeOK', PlanInv, ApplyInv, [Next]_vars PROVE ApplyInv'
  OBVIOUS
<1>j. UNCHANGED job
  BY JobStays
<1>t. /\ copies \in [Sides -> Seq(Copy)] /\ queue \in Seq(Copy) /\ queue' \in Seq(Copy)
  BY DEF TypeOK
<1>q. \A seq \in Seq(Copy) : AllAllowed(seq) => AllAllowed(seq)'
  BY <1>j, AllowedStays
<1>u. \A c \in Copy : Allowed(c) <=> Allowed(c)'
  BY <1>j, RulesStay
<1>b. UNCHANGED copies => (Blocked <=> Blocked')
  BY DEF Blocked, Plan
\* A step outside the application, or one that ends it.
<1>1. ASSUME phase' \notin Applying, queue' = queue \/ queue' = <<>>
      PROVE  ApplyInv'
  <2>1. AllAllowed(queue)'
    BY <1>1, <1>t, <1>q, Empty DEF ApplyInv, AllAllowed, Allowed
  <2> QED BY <1>1, <2>1 DEF ApplyInv, Applying
\* A copy is dealt with.
<1>2. ASSUME phase \in Applying, phase' = "applying", UNCHANGED copies,
             queue # <<>>, queue' = Tail(queue)
      PROVE  ApplyInv'
  <2>1. AllAllowed(queue')
    BY <1>2, <1>t, TailAllowed DEF ApplyInv
  <2>2. AllAllowed(queue)'
    BY <1>j, <1>t, <2>1 DEF AllAllowed, Allowed, Enabled, Yields, Rejects
  <2> QED BY <1>2, <1>b, <1>j, <2>2 DEF ApplyInv, Applying
\* One is looked at, or sent.
<1>3. ASSUME phase \in Applying, phase' \in {"checked", "sent"}, UNCHANGED <<copies, queue>>,
             queue # <<>>, NEW c \in Copy, draft' = c, Allowed(c), ~c.blocked,
             phase' = "sent" /\ c.verb = "edit" => c.action = "update"
      PROVE  ApplyInv'
  <2>1. AllAllowed(queue)' /\ Allowed(draft)'
    BY <1>3, <1>q, <1>t, <1>u, <1>j DEF ApplyInv, AllAllowed, Allowed, Enabled, Yields, Rejects
  <2> QED BY <1>3, <1>b, <1>j, <2>1 DEF ApplyInv, Applying
<1>4. CASE Start \/ FailRead \/ FailRecord \/ Cancel
  <2>1. Forget /\ phase' \notin Applying
    BY <1>4 DEF Start, FailRead, FailRecord, Cancel, Raise, Applying
  <2> QED BY <1>1, <2>1, Forgotten
<1>5. CASE ListLeft \/ ListRight \/ PlanSingle \/ ReadLeft \/ EndPlanning
  BY <1>1, <1>5 DEF ListLeft, ListRight, PlanSingle, ReadSource, ReadLeft, EndPlanning, Applying, result
<1>6. CASE PlanDestination \/ PlanUnreachable
  BY <1>1, <1>6 DEF PlanDestination, PlanUnreachable, Applying, result
<1>7. CASE ReadRight
  BY <1>1, <1>7 DEF ReadRight, Resolving, Applying, result
<1>8. ASSUME NEW s \in Sides, PlanConflict(s) PROVE ApplyInv'
  BY <1>1, <1>8 DEF PlanConflict, ReadSource, Applying, result
<1>9. CASE Apply
  <2>1. AllAllowed(Plan)
    <3> SUFFICES ASSUME NEW i \in 1..Len(Plan) PROVE Allowed(Plan[i])
      BY DEF AllAllowed
    <3>1. /\ copies["left"] \in Seq(Copy) /\ copies["right"] \in Seq(Copy)
          /\ AllAllowed(copies["left"]) /\ AllAllowed(copies["right"])
      BY <1>t DEF PlanInv, Sides
    <3>2. /\ Len(Plan) = Len(copies["left"]) + Len(copies["right"])
          /\ Plan[i] = IF i <= Len(copies["left"]) THEN copies["left"][i]
                       ELSE copies["right"][i - Len(copies["left"])]
      BY PlanIs
    <3>3. Len(copies["left"]) \in Nat /\ Len(copies["right"]) \in Nat /\ i \in 1..Len(Plan)
      BY <3>1
    <3>4. CASE i <= Len(copies["left"])
      <4>1. i \in 1..Len(copies["left"]) /\ Plan[i] = copies["left"][i]
        BY ONLY <3>2, <3>3, <3>4
      <4> QED BY ONLY <3>1, <4>1 DEF AllAllowed
    <3>5. CASE ~(i <= Len(copies["left"]))
      <4>1. \A m, n \in Nat : \A k \in 1..(m + n) : ~(k <= m) => k - m \in 1..n
        OBVIOUS
      <4>2. i - Len(copies["left"]) \in 1..Len(copies["right"])
        BY <3>2, <3>3, <3>5, <4>1
      <4>3. Plan[i] = copies["right"][i - Len(copies["left"])]
        BY ONLY <3>2, <3>5
      <4> QED BY ONLY <3>1, <4>2, <4>3 DEF AllAllowed
    <3> QED BY <3>4, <3>5
  <2>2. AllAllowed(queue')
    BY <1>9, <2>1 DEF Apply
  <2>3. AllAllowed(queue)'
    BY <1>j, <1>t, <2>2 DEF AllAllowed, Allowed, Enabled, Yields, Rejects
  <2> QED BY <1>9, <1>b, <1>j, <2>3 DEF Apply, ApplyInv, Applying
<1>10. CASE CheckCopy
  <2>1. Head(queue) \in Copy /\ Allowed(Head(queue)) /\ queue # <<>> /\ phase \in Applying
    BY <1>10, <1>t, TailAllowed, HeadTailProperties DEF CheckCopy, ApplyInv, Applying
  <2>2. CASE Failed(Head(queue))
    BY <1>2, <1>10, <2>1, <2>2 DEF CheckCopy, Failed
  <2>3. CASE ~Failed(Head(queue))
    BY <1>3, <1>10, <2>1, <2>3 DEF CheckCopy
  <2> QED BY <2>2, <2>3
<1>11. CASE LookAtDestination
  <2>1. draft \in Copy /\ Allowed(draft) /\ ~draft.blocked /\ queue # <<>> /\ phase \in Applying
    BY <1>11 DEF LookAtDestination, ApplyInv, Applying
  <2>2. CASE Failed(draft)
    BY <1>2, <1>11, <2>1, <2>2 DEF LookAtDestination, Failed
  <2>3. CASE ~Failed(draft)
    <3> DEFINE v == IF Held = Absent THEN "add" ELSE "edit"
               c == [draft EXCEPT !.verb = v]
    <3>1. /\ phase' = "sent" /\ draft' = c /\ UNCHANGED <<copies, queue>>
          /\ v = "edit" => draft.action # "abort"
      BY <1>11, <2>3 DEF LookAtDestination
    <3>2. v \in {"add", "edit"}
      OBVIOUS
    <3> HIDE DEF v
    <3>3. /\ c \in Copy /\ c.verb = v /\ c.action = draft.action /\ c.blocked = draft.blocked
          /\ c.from = draft.from /\ c.proposed = draft.proposed
      BY <2>1, <3>2 DEF Copy
    <3>4. Allowed(c)
      BY <2>1, <3>3 DEF Allowed
    <3>5. draft.action \in {"abort", "update"}
      BY <2>1 DEF Copy
    <3> HIDE DEF c
    <3> QED BY <1>3, <2>1, <3>1, <3>3, <3>4, <3>5
  <2> QED BY <2>2, <2>3
<1>12. ASSUME NEW answered \in BOOLEAN, Serve(answered) PROVE ApplyInv'
  <2>1. queue # <<>> /\ phase \in Applying
    BY <1>12 DEF Serve, ApplyInv, Applying
  <2> QED BY <1>2, <1>12, <2>1 DEF Serve, Failed
<1>13. CASE FailCopy
  <2>1. queue # <<>> /\ phase \in Applying
    BY <1>13 DEF FailCopy, ApplyInv, Applying
  <2> QED BY <1>2, <1>13, <2>1 DEF FailCopy, Failed
<1>14. CASE Record
  BY <1>1, <1>14 DEF Record, Applying
<1>15. CASE UNCHANGED <<phase, draft, copies, queue>>
  <2>1. AllAllowed(queue)'
    BY <1>15, <1>q, <1>t DEF ApplyInv, AllAllowed, Allowed
  <2>2. draft \in Copy /\ Allowed(draft) => Allowed(draft)'
    BY <1>15, <1>j DEF Allowed, Enabled, Yields, Rejects
  <2> QED BY <1>15, <1>b, <1>j, <2>1, <2>2 DEF ApplyInv
<1>16. ASSUME NEW s \in Sides, NEW d \in Drafts, Edit(s, d[1], d[2])
       PROVE  UNCHANGED <<phase, draft, copies, queue>>
  BY <1>16 DEF Edit, result
<1>17. CASE UNCHANGED vars
  BY <1>15, <1>17 DEF vars, result
<1> QED BY <1>4, <1>5, <1>6, <1>7, <1>8, <1>9, <1>10, <1>11, <1>12, <1>13, <1>14, <1>15,
           <1>16, <1>17 DEF Next

\* A write is one that the job allows.
LEMMA WritesAllowed ==
    ASSUME TypeOK, PlanInv, ApplyInv, Next, NEW s \in Sides, NEW u \in Uuids, Writes(s, u)
    PROVE  /\ Enabled(Other(s))
           /\ job.caller = "sync run" => ~Blocked
           /\ ~Rejects(Other(s), draft.proposed)
           /\ events[s][u] # Absent => job.strategy \notin {"skip", Prefer(s)}
<1>1. phase = "sent" /\ events[s][u] # events'[s][u] /\ edits' = edits
  BY DEF Writes
<1>2. PICK answered \in BOOLEAN : Serve(answered)
  <2>1. ~(\E r \in Sides, d \in Drafts : Edit(r, d[1], d[2]))
    <3>1. edits \in Int
      BY ConstantsAssumption DEF TypeOK
    <3>2. ASSUME NEW r \in Sides, NEW d \in Drafts, Edit(r, d[1], d[2]) PROVE edits' = edits + 1
      BY <3>2 DEF Edit
    <3> QED BY <1>1, <3>1, <3>2
  <2> QED BY <1>1, <2>1 DEF Next, Start, ListLeft, ListRight, PlanSingle, PlanDestination,
       PlanUnreachable, ReadLeft, ReadRight, FailRead, EndPlanning, PlanConflict, Apply, CheckCopy,
       LookAtDestination, FailCopy, Record, FailRecord, Cancel, Raise, servers
<1>3. draft \in Copy /\ Allowed(draft) /\ ~draft.blocked
  BY <1>1 DEF ApplyInv
<1>4. /\ (Held = Absent) <=> (draft.verb = "add")
      /\ events' = [events EXCEPT ![Other(draft.from)][draft.uuid] =
                        [content |-> draft.proposed, stamp |-> clock + 1]]
  BY <1>1, <1>2 DEF Serve
<1>5. s = Other(draft.from) /\ u = draft.uuid
  <2>1. events \in [Sides -> [Uuids -> Event \cup {Absent}]]
    BY DEF TypeOK
  <2> QED BY ONLY <1>1, <1>4, <2>1, s \in Sides, u \in Uuids
<1>6. draft.from = Other(s) /\ draft.action \in {"abort", "update"} /\ draft.verb \in {"add", "edit"}
  BY <1>3, <1>5 DEF Copy, Other, Sides
<1>7. Held = events[s][u]
  BY <1>5 DEF Held
<1> QED BY <1>1, <1>3, <1>4, <1>5, <1>6, <1>7 DEF Allowed, ApplyInv, Applying, Yields

-----------------------------------------------------------------------------
(* One event, one copy.                                                    *)

\* The copies of a side, told apart by their events, stay so with a new event.
LEMMA AppendUnique ==
    ASSUME NEW seq \in Seq(Copy), NEW c \in Copy,
           \A i, j \in 1..Len(seq) : i # j => seq[i].uuid # seq[j].uuid,
           c.uuid \notin {seq[i].uuid : i \in 1..Len(seq)}
    PROVE  LET new == Append(seq, c) IN
           /\ \A i, j \in 1..Len(new) : i # j => new[i].uuid # new[j].uuid
           /\ {new[i].uuid : i \in 1..Len(new)} = {seq[i].uuid : i \in 1..Len(seq)} \cup {c.uuid}
<1> DEFINE new == Append(seq, c)
<1>1. /\ Len(seq) \in Nat /\ Len(new) = Len(seq) + 1 /\ new[Len(seq) + 1] = c
      /\ \A i \in 1..Len(seq) : new[i] = seq[i]
  BY AppendProperties
<1> HIDE DEF new
<1>2. \A i \in 1..Len(new) : i \in 1..Len(seq) \/ i = Len(seq) + 1
  BY <1>1
<1>3. \A i \in 1..Len(seq) : i \in 1..Len(new)
  BY <1>1
<1>4. Len(seq) + 1 \in 1..Len(new)
  BY <1>1
<1>5. \A i, j \in 1..Len(new) : i # j => new[i].uuid # new[j].uuid
  BY <1>1, <1>2
<1>6. {new[i].uuid : i \in 1..Len(new)} = {seq[i].uuid : i \in 1..Len(seq)} \cup {c.uuid}
  BY <1>1, <1>2, <1>3, <1>4
<1> QED BY <1>5, <1>6 DEF new

LEMMA PlannedApart ==
    ASSUME TypeOK, Apart, NEW c \in Copy, Planned(c), c.uuid \notin Copied
    PROVE  Apart' /\ Copied' = Copied \cup {c.uuid}
<1>1. /\ copies \in [Sides -> Seq(Copy)] /\ c.from \in Sides
      /\ \A s \in Sides : copies'[s] = IF s = c.from THEN Append(copies[s], c) ELSE copies[s]
  BY PlannedIs DEF TypeOK, Copy
<1>2. \A s \in Sides : c.uuid \notin Of(s)
  BY DEF Copied, Sides
<1>3. /\ \A i, j \in 1..Len(copies'[c.from]) :
            i # j => copies'[c.from][i].uuid # copies'[c.from][j].uuid
      /\ Of(c.from)' = Of(c.from) \cup {c.uuid}
  <2> DEFINE seq == copies[c.from]
  <2>1. /\ seq \in Seq(Copy) /\ copies'[c.from] = Append(seq, c)
        /\ \A i, j \in 1..Len(seq) : i # j => seq[i].uuid # seq[j].uuid
        /\ c.uuid \notin {seq[i].uuid : i \in 1..Len(seq)}
    BY <1>1, <1>2 DEF Apart, Of
  <2>2. /\ \A i, j \in 1..Len(Append(seq, c)) :
              i # j => Append(seq, c)[i].uuid # Append(seq, c)[j].uuid
        /\ {Append(seq, c)[i].uuid : i \in 1..Len(Append(seq, c))} =
             {seq[i].uuid : i \in 1..Len(seq)} \cup {c.uuid}
    BY <2>1, AppendUnique
  <2> QED BY <2>1, <2>2 DEF Of
<1>4. \A s \in Sides \ {c.from} : copies'[s] = copies[s] /\ Of(s)' = Of(s)
  BY <1>1 DEF Of
<1>5. Of("left")' \cap Of("right")' = {} /\ Copied' = Copied \cup {c.uuid}
  BY <1>1, <1>2, <1>3, <1>4 DEF Apart, Copied, Sides
<1> QED BY <1>1, <1>3, <1>4, <1>5 DEF Apart

LEMMA UniqueStep == TypeOK /\ PlanInv /\ ApplyInv /\ UniqueInv /\ [Next]_vars => UniqueInv'
<1> SUFFICES ASSUME TypeOK, PlanInv, ApplyInv, UniqueInv, [Next]_vars PROVE UniqueInv'
  OBVIOUS
<1>t. /\ single \in [Sides -> SUBSET Uuids] /\ shared \in SUBSET Uuids
  BY DEF TypeOK
<1>a. Apart
  BY DEF UniqueInv
<1>b. UNCHANGED copies => Apart' /\ Copied' = Copied
  BY <1>a DEF Apart, Of, Copied
\* A step that takes up nothing.
<1>1. ASSUME UNCHANGED copies, phase \notin {"listing left", "listing right"},
             phase' \notin {"listing left", "listing right", "sourced"}, UNCHANGED single,
             shared' \subseteq shared
      PROVE  UniqueInv'
  BY <1>b, <1>1 DEF UniqueInv, Single
\* A run begins, or ends with an exception.
<1>2. ASSUME Forget, phase' \in {"listing left", "raised"} PROVE UniqueInv'
  <2>1. \A s \in Sides : copies'[s] = <<>> /\ single'[s] = {}
    BY <1>2, Forgotten
  <2>2. shared' = {}
    BY <1>2, Forgotten
  <2>3. \A s \in Sides : Of(s)' = {} /\ Len(copies'[s]) = 0
    BY <2>1 DEF Of
  <2>4. Apart' /\ Copied' = {}
    BY <2>3 DEF Apart, Copied, Sides
  <2> QED BY <1>2, <2>1, <2>2, <2>4 DEF UniqueInv, Single, Sides
\* An event is taken up.
<1>3. ASSUME NEW s \in Sides, NEW u \in Uuids, NEW action \in {"abort", "update"},
             ReadSource(s, u, action), UNCHANGED copies,
             phase \notin {"listing left", "listing right", "sourced"},
             \A r \in Sides : single'[r] \subseteq single[r], shared' \subseteq shared,
             u \in Single \cup shared, u \notin Single' \cup shared'
      PROVE  UniqueInv'
  <2>1. draft'.uuid = u /\ phase' = "sourced"
    BY <1>3, ReadTypes
  <2>2. Single' \subseteq Single
    BY <1>3 DEF Single, Sides
  <2> QED BY <1>b, <1>3, <2>1, <2>2 DEF UniqueInv, Sides
<1>4. CASE Start
  BY <1>2, <1>4 DEF Start
<1>5. CASE FailRead \/ FailRecord \/ Cancel
  BY <1>2, <1>5 DEF FailRead, FailRecord, Cancel, Raise
<1>6. CASE ListLeft
  BY <1>b, <1>6 DEF ListLeft, None, UniqueInv, Sides
<1>7. CASE ListRight
  <2>1. /\ single'["left"] \subseteq single["left"] \ Listed("right")
        /\ single'["right"] \subseteq Listed("right") \ single["left"]
        /\ shared' = single["left"] \cap Listed("right") /\ phase' = "planning"
        /\ UNCHANGED copies /\ Copied = {}
    BY <1>7 DEF ListRight, UniqueInv, Sides
  <2> QED BY <1>b, <2>1 DEF UniqueInv, Single
<1>8. CASE PlanSingle
  <2> DEFINE s == IF single["left"] # {} THEN "left" ELSE "right"
             u == First(single[s])
  <2>1. s \in Sides /\ u \in Uuids /\ u \in single[s]
    BY <1>8, <1>t, FirstIn DEF PlanSingle, Sides, None
  <2>2. \A r \in Sides : single'[r] = IF r = s THEN single[r] \ {u} ELSE single[r]
    BY <1>8, <1>t, <2>1 DEF PlanSingle
  <2>3. UNCHANGED <<copies, shared>> /\ phase = "planning" /\ ReadSource(s, u, "abort")
    BY <1>8 DEF PlanSingle
  <2> HIDE DEF s, u
  <2>4. u \in Single /\ u \notin Single' \cup shared'
    BY <2>1, <2>2, <2>3 DEF UniqueInv, Single, Sides
  <2> QED BY <1>3, <2>1, <2>2, <2>3, <2>4
<1>9. CASE PlanDestination \/ PlanUnreachable
  <2>1. /\ draft \in Copy /\ UNCHANGED single /\ phase = "sourced" /\ phase' = "planning"
        /\ draft.uuid \notin Single \cup shared \cup Copied
    BY <1>9, DraftEnds DEF PlanDestination, PlanUnreachable, PlanInv, UniqueInv
  <2>2. CASE shared' = shared \cup {draft.uuid} /\ UNCHANGED copies
    BY <1>b, <2>1, <2>2 DEF UniqueInv, Single
  <2>3. ASSUME NEW c \in Copy, Planned(c), c.uuid = draft.uuid, UNCHANGED shared
        PROVE  UniqueInv'
    <3>1. Apart' /\ Copied' = Copied \cup {draft.uuid}
      BY <1>a, <2>1, <2>3, PlannedApart
    <3> QED BY <2>1, <2>3, <3>1 DEF UniqueInv, Single
  <2> QED BY <1>9, <2>1, <2>2, <2>3, DraftEnds
<1>10. CASE ReadLeft
  BY <1>1, <1>10 DEF ReadLeft
<1>11. CASE ReadRight
  BY <1>1, <1>11 DEF ReadRight, Resolving
<1>12. ASSUME NEW s \in Sides, PlanConflict(s) PROVE UniqueInv'
  <2> DEFINE u == First(shared)
  <2>1. u \in Uuids /\ u \in shared /\ phase \notin {"listing left", "listing right", "sourced"}
    BY <1>12, <1>t, FirstIn DEF PlanConflict, PlanInv, Resolving
  <2>2. /\ UNCHANGED <<copies, single>> /\ shared' = shared \ {u} /\ ReadSource(s, u, "update")
    BY <1>12 DEF PlanConflict
  <2> HIDE DEF u
  <2>3. u \notin Single' \cup shared'
    BY <2>1, <2>2 DEF UniqueInv, Single
  <2> QED BY <1>3, <2>1, <2>2, <2>3
<1>13. CASE EndPlanning \/ Apply
  BY <1>1, <1>13 DEF EndPlanning, Apply
<1>14. CASE CheckCopy \/ LookAtDestination \/ FailCopy \/ Record
  BY <1>1, <1>14 DEF CheckCopy, LookAtDestination, FailCopy, Record, Failed
<1>15. ASSUME NEW answered \in BOOLEAN, Serve(answered) PROVE UniqueInv'
  BY <1>1, <1>15 DEF Serve, Failed
<1>16. CASE UNCHANGED <<phase, single, shared, draft, copies>>
  BY <1>b, <1>16 DEF UniqueInv, Single
<1>17. ASSUME NEW s \in Sides, NEW d \in Drafts, Edit(s, d[1], d[2])
       PROVE  UNCHANGED <<phase, single, shared, draft, copies>>
  BY <1>17 DEF Edit
<1>18. CASE UNCHANGED vars
  BY <1>16, <1>18 DEF vars
<1> QED BY <1>4, <1>5, <1>6, <1>7, <1>8, <1>9, <1>10, <1>11, <1>12, <1>13, <1>14, <1>15, <1>16,
           <1>17, <1>18 DEF Next

-----------------------------------------------------------------------------
(* Every copy is in the result.                                            *)

LEMMA AppendNames ==
    ASSUME NEW seq \in Seq(Uuids), NEW u \in Uuids
    PROVE  LET new == Append(seq, u) IN
           /\ {new[i] : i \in 1..Len(new)} = {seq[i] : i \in 1..Len(seq)} \cup {u}
           /\ Len(new) = Len(seq) + 1
<1> DEFINE new == Append(seq, u)
<1>1. /\ Len(seq) \in Nat /\ Len(new) = Len(seq) + 1 /\ new[Len(seq) + 1] = u
      /\ \A i \in 1..Len(seq) : new[i] = seq[i]
  BY AppendProperties
<1> HIDE DEF new
<1>2. /\ \A i \in 1..Len(new) : i \in 1..Len(seq) \/ i = Len(seq) + 1
      /\ \A i \in 1..Len(seq) : i \in 1..Len(new)
      /\ Len(seq) + 1 \in 1..Len(new)
  BY <1>1
<1>3. {new[i] : i \in 1..Len(new)} = {seq[i] : i \in 1..Len(seq)} \cup {u}
  BY <1>1, <1>2
<1> QED BY <1>1, <1>3 DEF new

\* The copies of a plan are told apart by their events.
LEMMA PlanApart ==
    ASSUME TypeOK, Apart
    PROVE  \A i, j \in 1..Len(Plan) : i # j => Uuid(i) # Uuid(j)
<1> DEFINE l == copies["left"]
           r == copies["right"]
           n == Len(l)
<1>1. l \in Seq(Copy) /\ r \in Seq(Copy) /\ n \in Nat /\ Len(r) \in Nat /\ Len(Plan) = n + Len(r)
  BY PlanIs DEF TypeOK, Sides
<1>2. \A i \in 1..Len(Plan) : i <= n => i \in 1..n /\ Plan[i] = l[i]
  <2>1. \A i \in 1..Len(Plan) : i <= n => i \in 1..n
    BY <1>1
  <2>2. \A i \in 1..Len(Plan) : i <= n => Plan[i] = l[i]
    BY PlanIs
  <2> QED BY <2>1, <2>2
<1>3. \A i \in 1..Len(Plan) : ~(i <= n) => i - n \in 1..Len(r)
  <2>1. \A a, b \in Nat : \A k \in 1..(a + b) : ~(k <= a) => k - a \in 1..b
    OBVIOUS
  <2> QED BY <1>1, <2>1
<1>4. \A i \in 1..Len(Plan) : ~(i <= n) => Plan[i] = r[i - n]
  BY <1>1, PlanIs
<1>5. /\ \A i, j \in 1..n : i # j => l[i].uuid # l[j].uuid
      /\ \A i, j \in 1..Len(r) : i # j => r[i].uuid # r[j].uuid
      /\ \A i \in 1..n, j \in 1..Len(r) : l[i].uuid # r[j].uuid
  BY DEF Apart, Of, Sides
<1> HIDE DEF l, r, n
<1> SUFFICES ASSUME NEW i \in 1..Len(Plan), NEW j \in 1..Len(Plan), i # j
             PROVE  Plan[i].uuid # Plan[j].uuid
  BY DEF Uuid
<1>6. CASE i <= n /\ j <= n
  BY <1>2, <1>5, <1>6
<1>7. CASE ~(i <= n) /\ ~(j <= n)
  <2>1. i - n # j - n
    BY <1>1
  <2> QED BY <1>3, <1>4, <1>5, <1>7, <2>1
<1>8. CASE i <= n /\ ~(j <= n)
  BY <1>2, <1>3, <1>4, <1>5, <1>8
<1>9. CASE ~(i <= n) /\ j <= n
  BY <1>2, <1>3, <1>4, <1>5, <1>9
<1> QED BY <1>6, <1>7, <1>8, <1>9

\* The next copy of the queue gets its place in the result.
LEMMA Dealt ==
    ASSUME TypeOK, CountInv, phase \in Applying, queue # <<>>, UNCHANGED copies,
           queue' = Tail(queue), phase' = "applying", NEW u \in Uuids, u = Uuid(Done + 1),
           \/ failures' = failures \cup {u} /\ UNCHANGED applied
           \/ applied' = Append(applied, u) /\ UNCHANGED failures
    PROVE  CountInv'
<1>1. /\ Plan \in Seq(Copy) /\ Len(Plan) \in Nat /\ queue \in Seq(Copy) /\ Len(queue) \in Nat \ {0}
      /\ applied \in Seq(Uuids) /\ Len(applied) \in Nat /\ failures \subseteq Uuids
      /\ IsFiniteSet(failures) /\ Cardinality(failures) \in Nat
  <2>1. queue \in Seq(Copy) /\ applied \in Seq(Uuids) /\ failures \subseteq Uuids
    BY DEF TypeOK
  <2>2. Len(queue) \in Nat \ {0}
    BY <2>1, EmptySeq
  <2>3. IsFiniteSet(failures) /\ Cardinality(failures) \in Nat
    BY <2>1, ConstantsAssumption, FS_Subset, FS_CardinalityType
  <2>4. Plan \in Seq(Copy) /\ Len(Plan) \in Nat
    BY PlanIs
  <2> QED BY <2>1, <2>2, <2>3, <2>4
<1>2. Plan' = Plan /\ \A i : Uuid(i)' = Uuid(i)
  BY DEF Plan, Uuid
<1>3. /\ \A i, j \in 1..Len(Plan) : i # j => Uuid(i) # Uuid(j)
      /\ Done \in Nat
      /\ \A i \in 1..Len(queue) : queue[i] = Plan[Done + i]
      /\ Named \cup failures = {Uuid(i) : i \in 1..Done}
      /\ Named \cap failures = {}
      /\ Len(applied) + Cardinality(failures) = Done
  BY DEF CountInv, Applying
<1>4. /\ queue' \in Seq(Copy) /\ Len(queue') = Len(queue) - 1
      /\ \A i \in 1..Len(queue') : queue'[i] = queue[i + 1]
  BY <1>1, HeadTailProperties
<1>5. Done' = Done + 1 /\ Done + 1 \in 1..Len(Plan)
  BY <1>1, <1>2, <1>3, <1>4 DEF Done
<1>6. \A i \in 1..Len(queue') : queue'[i] = Plan[Done' + i]
  <2> SUFFICES ASSUME NEW i \in 1..Len(queue') PROVE queue'[i] = Plan[Done' + i]
    OBVIOUS
  <2>1. i + 1 \in 1..Len(queue) /\ Done + (i + 1) = Done' + i
    BY <1>1, <1>3, <1>4, <1>5
  <2> QED BY <1>3, <1>4, <2>1
<1>7. u \notin {Uuid(i) : i \in 1..Done}
  <2>1. \A i \in 1..Done : i \in 1..Len(Plan) /\ i # Done + 1
    BY <1>1, <1>3, <1>5
  <2> QED BY <1>3, <1>5, <2>1
<1>8. {Uuid(i) : i \in 1..(Done + 1)} = {Uuid(i) : i \in 1..Done} \cup {u}
  <2>1. \A i : i \in 1..(Done + 1) <=> i \in 1..Done \/ i = Done + 1
    BY <1>3
  <2> QED BY <2>1
<1>9. /\ Named' \cup failures' = {Uuid(i) : i \in 1..Done}  \cup {u}
      /\ Named' \cap failures' = {}
      /\ Len(applied') + Cardinality(failures') = Done + 1
  <2>1. CASE failures' = failures \cup {u} /\ UNCHANGED applied
    <3>1. Cardinality(failures \cup {u}) = Cardinality(failures) + 1
      BY <1>1, <1>3, <1>7, FS_AddElement
    <3>2. Named' = Named
      BY <2>1 DEF Named
    <3>3. Named' \cup failures' = {Uuid(i) : i \in 1..Done} \cup {u} /\ Named' \cap failures' = {}
      BY <1>3, <1>7, <2>1, <3>2
    <3>4. Len(applied') + Cardinality(failures') = Done + 1
      BY <1>1, <1>3, <2>1, <3>1
    <3> QED BY <3>3, <3>4
  <2>2. CASE applied' = Append(applied, u) /\ UNCHANGED failures
    <3>1. Named' = Named \cup {u} /\ Len(applied') = Len(applied) + 1
      <4>1. LET new == Append(applied, u) IN
              /\ {new[i] : i \in 1..Len(new)} = {applied[i] : i \in 1..Len(applied)} \cup {u}
              /\ Len(new) = Len(applied) + 1
        BY <1>1, AppendNames
      <4> QED BY <2>2, <4>1 DEF Named
    <3>2. Named' \cup failures' = {Uuid(i) : i \in 1..Done} \cup {u} /\ Named' \cap failures' = {}
      BY <1>3, <1>7, <2>2, <3>1
    <3>3. Len(applied') + Cardinality(failures') = Done + 1
      BY <1>1, <1>3, <2>2, <3>1
    <3> QED BY <3>2, <3>3
  <2> QED BY <2>1, <2>2
<1>10. {Uuid(i) : i \in 1..Done}' = {Uuid(i) : i \in 1..Done} \cup {u}
  BY <1>2, <1>5, <1>8
<1>11. \A i, j \in 1..Len(Plan') : i # j => Uuid(i)' # Uuid(j)'
  BY <1>2, <1>3
<1>12. \A i \in 1..Len(queue') : queue'[i] = Plan'[Done' + i]
  BY <1>2, <1>6
<1>13. Done' \in Nat /\ Len(applied') + Cardinality(failures') = Done'
  BY <1>3, <1>5, <1>9
<1>14. Named' \cup failures' = {Uuid(i) : i \in 1..Done}' /\ Named' \cap failures' = {}
  BY <1>9, <1>10
<1>15. phase' = "applying"
  OBVIOUS
<1> QED BY ONLY <1>11, <1>12, <1>13, <1>14, <1>15 DEF CountInv, Planning

\* The application is at the head of its queue.
LEMMA AtHead ==
    ASSUME TypeOK, CountInv, queue # <<>>, phase \in Applying
    PROVE  /\ Head(queue) \in Copy /\ Head(queue).uuid \in Uuids /\ Head(queue) = Plan[Done + 1]
           /\ phase \in {"checked", "sent"} =>
                draft.uuid = Uuid(Done + 1) /\ draft.uuid = Head(queue).uuid
<1>1. queue \in Seq(Copy) /\ Len(queue) \in Nat \ {0}
  BY EmptySeq DEF TypeOK
<1>2. Head(queue) \in Copy /\ Head(queue) = queue[1] /\ 1 \in 1..Len(queue)
  BY <1>1, HeadTailProperties
<1>3. queue[1] = Plan[Done + 1]
  BY <1>2 DEF CountInv
<1> QED BY <1>2, <1>3 DEF CountInv, Uuid, Copy

LEMMA CountStep ==
    TypeOK /\ TypeOK' /\ PlanInv /\ ApplyInv /\ UniqueInv /\ CountInv /\ [Next]_vars => CountInv'
<1> SUFFICES ASSUME TypeOK, TypeOK', PlanInv, ApplyInv, UniqueInv, CountInv, [Next]_vars
             PROVE  CountInv'
  OBVIOUS
<1>q. queue # <<>> /\ phase \in Applying =>
        /\ Head(queue) \in Copy /\ Head(queue).uuid \in Uuids /\ Head(queue) = Plan[Done + 1]
        /\ phase \in {"checked", "sent"} =>
             draft.uuid = Uuid(Done + 1) /\ draft.uuid = Head(queue).uuid
  BY AtHead
\* Nothing of the plan, the queue and the result changes.
<1>1. ASSUME UNCHANGED <<copies, queue, applied, failures>>,
             phase' \in Applying => phase \in Applying,
             phase' \in Planning \cup {"planned"} => phase \in Planning \cup {"planned"},
             phase' \in {"checked", "sent"} => draft'.uuid = Uuid(Done + 1),
             phase' = "done" => queue = <<>> /\ log' = <<Len(applied), Cardinality(failures)>>
                                /\ phase \in Applying \cup {"done"}
      PROVE  CountInv'
  <2>1. Plan' = Plan /\ Done' = Done /\ Named' = Named /\ \A i : Uuid(i)' = Uuid(i)
    BY <1>1 DEF Plan, Done, Named, Uuid
  <2>2. {Uuid(i) : i \in 1..Done}' = {Uuid(i) : i \in 1..Done}
    BY <2>1
  <2> QED BY <1>1, <2>1, <2>2 DEF CountInv
\* A run begins, or ends with an exception.
<1>2. ASSUME Forget, phase' \in {"listing left", "raised"} PROVE CountInv'
  BY <1>2, Forgotten DEF CountInv, Applying
\* A copy is dealt with.
<1>3. ASSUME phase \in Applying, queue # <<>>, Failed(Head(queue)), UNCHANGED copies
      PROVE  CountInv'
  <2> DEFINE u == Head(queue).uuid
  <2>1. u \in Uuids /\ u = Uuid(Done + 1)
    BY <1>3, <1>q DEF Uuid
  <2>2. /\ failures' = failures \cup {u} /\ UNCHANGED applied
        /\ queue' = Tail(queue) /\ phase' = "applying"
    BY <1>3 DEF Failed
  <2> HIDE DEF u
  <2> QED BY <1>3, <2>1, <2>2, Dealt
<1>4. CASE Start \/ FailRead \/ FailRecord \/ Cancel
  BY <1>2, <1>4 DEF Start, FailRead, FailRecord, Cancel, Raise
\* A step of the planning.
<1>5. ASSUME phase \in Planning, phase' \in Planning \cup {"planned"},
             UNCHANGED <<applied, failures>>
      PROVE  CountInv'
  BY <1>5 DEF CountInv, Planning, Applying
<1>6. CASE ListLeft \/ ListRight \/ PlanSingle \/ ReadLeft \/ EndPlanning
  BY <1>5, <1>6 DEF ListLeft, ListRight, PlanSingle, ReadSource, ReadLeft, EndPlanning, Planning, result
<1>7. CASE PlanDestination \/ PlanUnreachable
  BY <1>5, <1>7 DEF PlanDestination, PlanUnreachable, Planning, result
<1>8. CASE ReadRight
  BY <1>5, <1>8 DEF ReadRight, Resolving, Planning, result
<1>9. ASSUME NEW s \in Sides, PlanConflict(s) PROVE CountInv'
  BY <1>5, <1>9 DEF PlanConflict, ReadSource, Resolving, Planning, result
<1>10. CASE Apply
  <2>1. /\ phase = "planned" /\ phase' = "applying" /\ queue' = Plan /\ UNCHANGED copies
        /\ applied' = <<>> /\ failures' = {}
    BY <1>10 DEF Apply, CountInv
  <2>2. Plan' = Plan /\ \A i : Uuid(i)' = Uuid(i)
    BY <2>1 DEF Plan, Uuid
  <2>3. Len(Plan) \in Nat /\ \A i, j \in 1..Len(Plan) : i # j => Uuid(i) # Uuid(j)
    <3>1. Plan \in Seq(Copy) /\ Apart
      BY PlanIs DEF UniqueInv
    <3> QED BY <3>1, PlanApart
  <2>4. Done' = 0
    BY <2>1, <2>2, <2>3 DEF Done
  <2>5. Named' = {} /\ {Uuid(i) : i \in 1..Done}' = {} /\ Len(applied') = 0
    BY <2>1, <2>4 DEF Named
  <2>6. Cardinality(failures') = 0
    BY <2>1, FS_EmptySet
  <2>7. \A i \in 1..Len(queue') : queue'[i] = Plan'[Done' + i]
    <3>1. \A i \in 1..Len(Plan) : 0 + i = i
      OBVIOUS
    <3> QED BY <2>1, <2>2, <2>4, <3>1
  <2>8. \A i, j \in 1..Len(Plan') : i # j => Uuid(i)' # Uuid(j)'
    BY <2>2, <2>3
  <2> QED BY ONLY <2>1, <2>4, <2>5, <2>6, <2>7, <2>8 DEF CountInv, Planning
<1>11. CASE CheckCopy
  <2>1. phase = "applying" /\ phase \in Applying /\ queue # <<>>
    BY <1>11 DEF CheckCopy, Applying
  <2>2. CASE Failed(Head(queue))
    BY <1>3, <1>11, <2>1, <2>2 DEF CheckCopy
  <2>3. CASE ~Failed(Head(queue))
    <3>1. /\ phase' = "checked" /\ draft' = Head(queue)
          /\ UNCHANGED <<copies, queue, applied, failures>>
      BY <1>11, <2>3 DEF CheckCopy
    <3>2. draft'.uuid = Uuid(Done + 1)
      BY <1>q, <2>1, <3>1 DEF Uuid
    <3> QED BY <1>1, <2>1, <3>1, <3>2 DEF Planning
  <2> QED BY <2>2, <2>3
\* What is looked at is the head of the queue.
<1>h. ASSUME phase \in {"checked", "sent"}, Failed(draft) PROVE Failed(Head(queue))
  <2>1. queue # <<>> /\ phase \in Applying
    BY <1>h DEF ApplyInv, Applying
  <2>2. draft.uuid = Head(queue).uuid
    BY <1>h, <1>q, <2>1
  <2> QED BY <1>h, <2>2 DEF Failed
<1>12. CASE LookAtDestination
  <2>1. phase = "checked" /\ phase \in Applying /\ queue # <<>> /\ draft \in Copy
    BY <1>12 DEF LookAtDestination, ApplyInv, Applying
  <2>2. CASE Failed(draft)
    BY <1>3, <1>h, <1>12, <2>1, <2>2 DEF LookAtDestination
  <2>3. CASE ~Failed(draft)
    <3> DEFINE v == IF Held = Absent THEN "add" ELSE "edit"
    <3>1. /\ phase' = "sent" /\ draft' = [draft EXCEPT !.verb = v]
          /\ UNCHANGED <<copies, queue, applied, failures>>
      BY <1>12, <2>3 DEF LookAtDestination
    <3> HIDE DEF v
    <3>2. draft'.uuid = draft.uuid
      BY <2>1, <3>1 DEF Copy
    <3>3. draft'.uuid = Uuid(Done + 1)
      BY <1>q, <2>1, <3>2
    <3> QED BY <1>1, <2>1, <3>1, <3>3 DEF Planning
  <2> QED BY <2>2, <2>3
<1>13. ASSUME NEW answered \in BOOLEAN, Serve(answered) PROVE CountInv'
  <2>1. phase = "sent" /\ phase \in Applying /\ queue # <<>> /\ UNCHANGED copies
    BY <1>13 DEF Serve, ApplyInv, Applying
  <2>2. CASE Failed(draft)
    BY <1>3, <1>h, <2>1, <2>2
  <2>3. CASE ~Failed(draft)
    <3> DEFINE u == draft.uuid
    <3>1. /\ applied' = Append(applied, u) /\ queue' = Tail(queue)
          /\ phase' = "applying" /\ UNCHANGED failures
      BY <1>13, <2>3 DEF Serve
    <3>2. u \in Uuids /\ u = Uuid(Done + 1)
      BY <1>q, <2>1
    <3> HIDE DEF u
    <3> QED BY <2>1, <3>1, <3>2, Dealt
  <2> QED BY <2>2, <2>3
<1>14. CASE FailCopy
  <2>1. queue # <<>> /\ phase \in Applying
    BY <1>14 DEF FailCopy, ApplyInv, Applying
  <2> QED BY <1>3, <1>14, <2>1 DEF FailCopy
<1>15. CASE Record
  BY <1>1, <1>15 DEF Record, Applying, Planning
<1>16. CASE UNCHANGED <<phase, draft, copies, result>>
  <2>1. phase \in {"checked", "sent"} => draft.uuid = Uuid(Done + 1)
    BY DEF CountInv, Applying
  <2>2. phase = "done" => queue = <<>> /\ log = <<Len(applied), Cardinality(failures)>>
    BY DEF CountInv
  <2> QED BY <1>1, <1>16, <2>1, <2>2 DEF result
<1>17. ASSUME NEW s \in Sides, NEW d \in Drafts, Edit(s, d[1], d[2])
       PROVE  UNCHANGED <<phase, draft, copies, result>>
  BY <1>17 DEF Edit
<1>18. CASE UNCHANGED vars
  BY <1>16, <1>18 DEF vars
<1> QED BY <1>4, <1>6, <1>7, <1>8, <1>9, <1>10, <1>11, <1>12, <1>13, <1>14, <1>15, <1>16,
           <1>17, <1>18 DEF Next

-----------------------------------------------------------------------------
(* A run that failed nowhere leaves nothing to copy.                       *)

\* What Append and Tail do to the copies of a sequence.
LEMMA SeqItems ==
    ASSUME NEW seq \in Seq(Copy)
    PROVE  /\ Items(seq) \subseteq Copy
           /\ \A c \in Copy : Items(Append(seq, c)) = Items(seq) \cup {c}
           /\ seq # <<>> => /\ Head(seq) \in Items(seq) /\ Tail(seq) \in Seq(Copy)
                            /\ Items(seq) = {Head(seq)} \cup Items(Tail(seq))
<1>1. Items(seq) \subseteq Copy
  <2>1. \A i \in 1..Len(seq) : seq[i] \in Copy
    OBVIOUS
  <2> QED BY ONLY <2>1 DEF Items
<1>2. ASSUME NEW c \in Copy PROVE Items(Append(seq, c)) = Items(seq) \cup {c}
  <2> DEFINE new == Append(seq, c)
  <2>1. /\ Len(seq) \in Nat /\ Len(new) = Len(seq) + 1 /\ new[Len(seq) + 1] = c
        /\ \A i \in 1..Len(seq) : new[i] = seq[i]
    BY AppendProperties
  <2> HIDE DEF new
  <2>2. /\ \A i \in 1..Len(new) : i \in 1..Len(seq) \/ i = Len(seq) + 1
        /\ \A i \in 1..Len(seq) : i \in 1..Len(new)
        /\ Len(seq) + 1 \in 1..Len(new)
    BY <2>1
  <2>3. Items(new) = Items(seq) \cup {c}
    BY <2>1, <2>2 DEF Items
  <2> QED BY <2>3 DEF new
<1>3. ASSUME seq # <<>>
      PROVE  /\ Head(seq) \in Items(seq) /\ Tail(seq) \in Seq(Copy)
             /\ Items(seq) = {Head(seq)} \cup Items(Tail(seq))
  <2> DEFINE rest == Tail(seq)
  <2>1. /\ Len(seq) \in Nat \ {0} /\ rest \in Seq(Copy) /\ Len(rest) = Len(seq) - 1
        /\ \A i \in 1..Len(rest) : rest[i] = seq[i + 1]
        /\ Head(seq) = seq[1]
    BY <1>3, HeadTailProperties, EmptySeq
  <2> HIDE DEF rest
  <2>2. /\ 1 \in 1..Len(seq)
        /\ \A i \in 1..Len(seq) : i = 1 \/ (i - 1 \in 1..Len(rest) /\ (i - 1) + 1 = i)
        /\ \A i \in 1..Len(rest) : i + 1 \in 1..Len(seq)
    BY <2>1
  <2>3. Items(seq) = {Head(seq)} \cup Items(rest)
    <3>1. Items(seq) \subseteq {Head(seq)} \cup Items(rest)
      <4>1. \A i \in 1..Len(seq) : seq[i] = Head(seq) \/ \E j \in 1..Len(rest) : seq[i] = rest[j]
        <5> SUFFICES ASSUME NEW i \in 1..Len(seq), i # 1 PROVE seq[i] = rest[i - 1] /\ i - 1 \in 1..Len(rest)
          BY <2>1
        <5>1. rest[i - 1] = seq[(i - 1) + 1]
          BY <2>1, <2>2
        <5> QED BY <2>2, <5>1
      <4> QED BY ONLY <4>1 DEF Items
    <3>2. \A i \in 1..Len(rest) : \E j \in 1..Len(seq) : rest[i] = seq[j]
      BY <2>1, <2>2
    <3>3. Items(rest) \subseteq Items(seq)
      BY ONLY <3>2 DEF Items
    <3>4. Head(seq) \in Items(seq)
      BY <2>1, <2>2 DEF Items
    <3> QED BY <3>1, <3>3, <3>4
  <2>4. Head(seq) \in Items(seq)
    BY <2>3
  <2> QED BY <2>1, <2>3, <2>4 DEF rest
<1> QED BY <1>1, <1>2, <1>3

LEMMA NoItems == Items(<<>>) = {}
  BY DEF Items

\* The plan is made of the copies of both sides, and gains what is planned.
LEMMA PlanItems == ASSUME TypeOK PROVE Items(Plan) = Ordered
<1> DEFINE l == copies["left"]
           r == copies["right"]
           n == Len(l)
<1>1. l \in Seq(Copy) /\ r \in Seq(Copy) /\ n \in Nat /\ Len(r) \in Nat /\ Len(Plan) = n + Len(r)
  BY PlanIs DEF TypeOK, Sides
<1>2. \A i \in 1..Len(Plan) : Plan[i] = IF i <= n THEN l[i] ELSE r[i - n]
  BY PlanIs
<1> HIDE DEF l, r, n
<1>3. /\ \A i \in 1..Len(Plan) : i <= n => i \in 1..n
      /\ \A i \in 1..Len(Plan) : ~(i <= n) => i - n \in 1..Len(r)
  BY <1>1
<1>4. /\ \A i \in 1..n : i \in 1..Len(Plan) /\ i <= n
      /\ \A i \in 1..Len(r) : i + n \in 1..Len(Plan) /\ ~(i + n <= n) /\ (i + n) - n = i
  BY <1>1
<1>5. Items(Plan) \subseteq Items(l) \cup Items(r)
  BY <1>2, <1>3 DEF Items, n
<1>6. Items(l) \subseteq Items(Plan)
  BY <1>2, <1>4 DEF Items, n
<1>7. Items(r) \subseteq Items(Plan)
  BY <1>2, <1>4 DEF Items
<1> QED BY <1>5, <1>6, <1>7 DEF Ordered, l, r

LEMMA OrderedGrows ==
    ASSUME TypeOK, NEW c \in Copy, Planned(c)
    PROVE  Ordered' = Ordered \cup {c}
<1>1. /\ copies \in [Sides -> Seq(Copy)] /\ c.from \in Sides
      /\ \A s \in Sides : copies'[s] = IF s = c.from THEN Append(copies[s], c) ELSE copies[s]
  BY PlannedIs DEF TypeOK, Copy
<1>2. \A s \in Sides : Items(copies'[s]) = IF s = c.from THEN Items(copies[s]) \cup {c} ELSE Items(copies[s])
  BY <1>1, SeqItems
<1>3. Ordered' = Items(copies'["left"]) \cup Items(copies'["right"])
  BY DEF Ordered, Items
<1> QED BY <1>1, <1>2, <1>3 DEF Ordered, Sides

\* What a run makes of an event depends on it alone.
LEMMA RestStays ==
    ASSUME UNCHANGED job, NEW u \in Uuids, \A s \in Sides : events'[s][u] = events[s][u]
    PROVE  /\ \A s \in Sides : (u \in Listed(s) <=> u \in Listed(s)') /\ (Proposes(s, u) <=> Proposes(s, u)')
           /\ (AtRest(u) <=> AtRest(u)') /\ (Both(u) <=> Both(u)') /\ (Seen(u) <=> Seen(u)')
<1>0. "left" \in Sides /\ "right" \in Sides
  BY DEF Sides
<1>1. /\ \A s \in Sides : u \in Listed(s) <=> u \in Listed(s)'
      /\ \A s \in Sides : Enabled(s) <=> Enabled(s)'
      /\ Both(u) <=> Both(u)'
  BY DEF Listed, Enabled, Both
<1>2. Seen(u) <=> Seen(u)'
  BY <1>1 DEF Seen
<1>3. \A s, x : Rejects(s, x) <=> Rejects(s, x)'
  BY DEF Rejects
<1>4. \A s, x : Proposed(s, x) = Proposed(s, x)'
  BY <1>3 DEF Proposed
<1>5. \A x, y : InSync(x, y) <=> InSync(x, y)'
  BY <1>0, <1>1, <1>4 DEF InSync
<1>6. \A x, y : Resolution(x, y) = Resolution(x, y)'
  BY <1>1 DEF Resolution
<1>7. \A s \in Sides : Proposes(s, u) <=> Proposes(s, u)'
  BY <1>0, <1>1, <1>2, <1>5, <1>6 DEF Proposes
<1>8. AtRest(u) <=> AtRest(u)'
  BY <1>3, <1>7 DEF AtRest
<1> QED BY <1>1, <1>2, <1>7, <1>8

LEMMA AllStays ==
    ASSUME UNCHANGED <<job, events>>
    PROVE  /\ \A s \in Sides : Listed(s) = Listed(s)'
           /\ \A u \in Uuids : (AtRest(u) <=> AtRest(u)') /\ (Both(u) <=> Both(u)') /\ (Seen(u) <=> Seen(u)')
           /\ \A u \in Uuids, s \in Sides : Proposes(s, u) <=> Proposes(s, u)'
<1>1. \A s \in Sides : Listed(s) = Listed(s)'
  BY DEF Listed
<1> QED BY <1>1, RestStays

LEMMA FitsStays == ASSUME UNCHANGED job PROVE \A c : Fits(c) <=> Fits(c)'
<1>1. \A s, x : Rejects(s, x) <=> Rejects(s, x)'
  BY DEF Rejects
<1>2. \A s, x : Proposed(s, x) = Proposed(s, x)'
  BY <1>1 DEF Proposed
<1> QED BY <1>2 DEF Fits

LEMMA ReadIs ==
    ASSUME TypeOK, NEW s \in Sides, NEW u \in Uuids, NEW action \in {"abort", "update"},
           ReadSource(s, u, action)
    PROVE  /\ draft' \in Copy /\ phase' = "sourced" /\ draft'.from = s /\ draft'.uuid = u
           /\ draft'.action = action /\ events[s][u] # Absent
           /\ draft'.blocked <=> Rejects(s, events[s][u].content)
           /\ draft'.proposed = Proposed(s, draft'.source)
<1>1. draft' = [from |-> s, uuid |-> u, action |-> action, source |-> events[s][u].content,
                proposed |-> Proposed(s, events[s][u].content), base |-> Absent,
                stamps |-> <<events[s][u].stamp, 0>>,
                blocked |-> Rejects(s, events[s][u].content), verb |-> "add"]
  BY DEF ReadSource
<1>2. Rejects(s, events[s][u].content) \in BOOLEAN
  BY DEF Rejects
<1>3. /\ draft'.blocked = Rejects(s, events[s][u].content)
      /\ draft'.proposed = Proposed(s, events[s][u].content)
      /\ draft'.source = events[s][u].content
  BY <1>1
<1>4. events[s][u] # Absent
  BY DEF ReadSource
<1>5. /\ draft' \in Copy /\ phase' = "sourced" /\ draft'.from = s /\ draft'.uuid = u
      /\ draft'.action = action
  BY ReadTypes
<1> QED BY <1>2, <1>3, <1>4, <1>5

\* What was listed and read is still so.
LEMMA ReadStep == TypeOK /\ PlanInv /\ ApplyInv /\ ReadInv /\ [Next]_vars => ReadInv'
<1> SUFFICES ASSUME TypeOK, PlanInv, ApplyInv, ReadInv, [Next]_vars PROVE ReadInv'
  OBVIOUS
<1>j. UNCHANGED job
  BY JobStays
<1>t. /\ single \in [Sides -> SUBSET Uuids] /\ shared \in SUBSET Uuids
      /\ "left" \in Sides /\ "right" \in Sides
  BY DEF TypeOK, Sides
<1>r. \A s, x : Rejects(s, x) <=> Rejects(s, x)'
  BY <1>j DEF Rejects
<1>f. UNCHANGED shared => First(shared)' = First(shared)
  BY DEF First
\* A step after which nothing read counts.
<1>1. ASSUME phase' \notin Reading \cup {"listing right", "checked", "sent"} PROVE ReadInv'
  BY <1>1 DEF ReadInv, Resolving, Reading, Planning
\* One that takes something up, or drops it.
<1>2. ASSUME UNCHANGED <<events, quiet>>, phase' \in Reading,
             quiet => /\ \A s \in Sides : single'[s] \subseteq Listed(s)
                      /\ \A u \in shared' : u \in Uuids /\ Seen(u),
             phase' \in {"planning", "sourced", "comparing"},
             quiet /\ phase' = "comparing" => draft' = events["left"][First(shared')],
             quiet /\ phase' = "sourced" =>
                /\ draft' \in Copy
                /\ IF draft'.action = "abort" THEN draft'.uuid \in Listed(draft'.from)
                   ELSE Proposes(draft'.from, draft'.uuid)
                /\ draft'.blocked <=> Rejects(draft'.from, events[draft'.from][draft'.uuid].content)
      PROVE  ReadInv'
  <2> SUFFICES ASSUME quiet PROVE ReadInv'
    BY <1>2 DEF ReadInv
  <2>1. /\ \A s \in Sides : Listed(s) = Listed(s)'
        /\ \A u \in Uuids : Seen(u) <=> Seen(u)'
        /\ \A u \in Uuids, s \in Sides : Proposes(s, u) <=> Proposes(s, u)'
    BY <1>j, <1>2, AllStays
  <2>2. /\ \A s \in Sides : single'[s] \subseteq Listed(s)'
        /\ \A u \in shared' : Seen(u)'
    BY <1>2, <2>1
  <2>3. phase' = "sourced" =>
           /\ IF draft'.action = "abort" THEN draft'.uuid \in Listed(draft.from)'
              ELSE Proposes(draft.from, draft.uuid)'
           /\ draft'.blocked <=> Rejects(draft.from, events[draft.from][draft.uuid].content)'
    <3> SUFFICES ASSUME phase' = "sourced"
                 PROVE  /\ IF draft'.action = "abort" THEN draft'.uuid \in Listed(draft.from)'
                           ELSE Proposes(draft.from, draft.uuid)'
                        /\ draft'.blocked <=> Rejects(draft.from, events[draft.from][draft.uuid].content)'
      OBVIOUS
    <3>1. PICK s \in Sides, u \in Uuids : draft'.from = s /\ draft'.uuid = u
      BY <1>2 DEF Copy
    <3>2. /\ Listed(draft.from)' = Listed(s)' /\ (Proposes(draft.from, draft.uuid)' <=> Proposes(s, u)')
          /\ Rejects(draft.from, events[draft.from][draft.uuid].content)' <=> Rejects(s, events[s][u].content)
      BY <1>r, <1>2, <3>1
    <3> QED BY <1>2, <2>1, <3>1, <3>2
  <2>4. phase' = "comparing" => draft' = events'["left"][First(shared')]
    BY <1>2
  <2> QED BY <1>2, <2>2, <2>3, <2>4 DEF ReadInv, Resolving
<1>3. CASE Start \/ FailRead \/ FailRecord \/ Cancel \/ EndPlanning \/ Apply \/ FailCopy \/ Record
  BY <1>1, <1>3 DEF Start, FailRead, FailRecord, Cancel, Raise, EndPlanning, Apply, FailCopy, Failed,
                    Record, Reading, Planning
<1>4. CASE ListLeft
  <2>1. single'["left"] = Listed("left")
    BY <1>4, <1>t DEF ListLeft, None
  <2>2. Listed("left") = Listed("left")'
    BY <1>4, <1>t, AllStays DEF ListLeft, servers
  <2> QED BY <1>4, <2>1, <2>2 DEF ListLeft, ReadInv, Reading, Planning, Resolving
<1>5. CASE ListRight
  <2> SUFFICES ASSUME quiet
               PROVE  /\ \A s \in Sides : single'[s] \subseteq Listed(s)
                      /\ \A u \in shared' : u \in Uuids /\ Seen(u)
    BY <1>2, <1>5 DEF ListRight, servers, Reading, Planning
  <2>1. single["left"] = Listed("left") /\ \A s \in Sides : Listed(s) \subseteq Uuids
    BY <1>5 DEF ListRight, ReadInv, Listed
  <2>2. \A s \in Sides : single'[s] \subseteq Listed(s)
    BY <1>5, <2>1 DEF ListRight, Sides
  <2>3. Enabled("left") \/ Enabled("right")
    BY ConstantsAssumption DEF TypeOK, Job, Enabled
  <2>4. \A u \in shared' : u \in Listed("left") /\ u \in Listed("right")
    BY <1>5, <2>1 DEF ListRight
  <2> QED BY <1>t, <2>1, <2>2, <2>3, <2>4 DEF Seen
<1>6. CASE PlanSingle
  <2> DEFINE s == IF single["left"] # {} THEN "left" ELSE "right"
             u == First(single[s])
  <2>1. s \in Sides /\ u \in Uuids /\ u \in single[s]
    BY <1>6, <1>t, FirstIn DEF PlanSingle, Sides, None
  <2>2. \A r \in Sides : single'[r] \subseteq single[r]
    BY <1>6, <1>t, <2>1 DEF PlanSingle
  <2>3. UNCHANGED <<shared, events, quiet>> /\ phase = "planning" /\ ReadSource(s, u, "abort")
    BY <1>6 DEF PlanSingle, servers
  <2> HIDE DEF s, u
  <2>4. /\ draft' \in Copy /\ phase' = "sourced" /\ draft'.from = s /\ draft'.uuid = u
        /\ draft'.action = "abort" /\ (draft'.blocked <=> Rejects(s, events[s][u].content))
    BY <2>1, <2>3, ReadIs
  <2>5. quiet => /\ \A r \in Sides : single[r] \subseteq Listed(r)
                 /\ \A v \in shared : Seen(v)
    BY <2>3 DEF ReadInv, Reading, Planning
  <2> QED BY <1>2, <1>t, <2>1, <2>2, <2>3, <2>4, <2>5 DEF Reading, Planning
<1>7. CASE PlanDestination \/ PlanUnreachable
  <2>1. /\ draft \in Copy /\ Allowed(draft) /\ UNCHANGED <<single, events, quiet>>
        /\ phase = "sourced" /\ phase' = "planning"
    BY <1>7, DraftEnds DEF PlanDestination, PlanUnreachable, PlanInv, servers
  <2>2. shared' = shared \/ (shared' = shared \cup {draft.uuid} /\ draft.action = "abort")
    BY <1>7, <2>1, DraftEnds
  <2>3. draft.from \in Sides /\ draft.uuid \in Uuids /\ Enabled(draft.from)
    BY <2>1 DEF Copy, Allowed
  <2>4. quiet => /\ \A r \in Sides : single[r] \subseteq Listed(r)
                 /\ \A v \in shared : Seen(v)
                 /\ draft.action = "abort" => Seen(draft.uuid)
    BY <2>1, <2>3 DEF ReadInv, Reading, Planning, Seen
  <2> QED BY <1>2, <1>t, <2>1, <2>2, <2>3, <2>4 DEF Reading, Planning
<1>8. CASE ReadLeft
  <2>1. UNCHANGED <<single, shared, events, quiet>> /\ phase = "planning" /\ phase' = "comparing"
        /\ draft' = events["left"][First(shared)]
    BY <1>8 DEF ReadLeft, servers
  <2>2. quiet => /\ \A r \in Sides : single[r] \subseteq Listed(r)
                 /\ \A v \in shared : Seen(v)
    BY <2>1 DEF ReadInv, Reading, Planning
  <2> QED BY <1>2, <1>t, <2>1, <2>2 DEF Reading, Planning
<1>9. CASE ReadRight
  <2> DEFINE u == First(shared)
             l == events["left"][u]
             r == events["right"][u]
             side == Resolution(draft.stamp, r.stamp)
  <2>1. /\ UNCHANGED <<single, events, quiet>> /\ phase = "comparing" /\ shared # {}
        /\ draft \in Event /\ r # Absent /\ shared' \subseteq shared
    BY <1>9 DEF ReadRight, servers, PlanInv
  <2>2. quiet => /\ \A s \in Sides : single[s] \subseteq Listed(s)
                 /\ \A v \in shared : Seen(v)
                 /\ draft = l
    BY <2>1 DEF ReadInv, Reading, Planning
  <2>3. CASE phase' = "planning"
    BY <1>2, <1>t, <2>1, <2>2, <2>3 DEF Reading, Planning
  <2>4. ASSUME NEW s \in side, phase' = Resolving(s), UNCHANGED shared, ~InSync(draft.content, r.content)
        PROVE  ReadInv'
    <3> SUFFICES ASSUME quiet PROVE ReadInv'
      BY <2>1 DEF ReadInv
    <3>1. u \in Uuids /\ u \in shared /\ Seen(u) /\ s \in Sides
      BY <1>t, <2>1, <2>2, <2>4, FirstIn DEF Resolution
    <3>2. Both(u)
      BY <2>1, <2>2, ConstantsAssumption DEF Both, Sides
    <3>3. Proposes(s, u)
      BY <2>2, <2>4, <3>1, <3>2 DEF Proposes
    <3>4. /\ \A q \in Sides : Listed(q) = Listed(q)'
          /\ \A v \in Uuids : (Seen(v) <=> Seen(v)') /\ (Both(v) <=> Both(v)')
          /\ \A v \in Uuids, q \in Sides : Proposes(q, v) <=> Proposes(q, v)'
      BY <1>j, <2>1, AllStays
    <3>5. First(shared)' = u
      BY <1>f, <2>4
    <3>7. Both(First(shared))' /\ Proposes(s, First(shared))'
      BY <3>1, <3>2, <3>3, <3>4, <3>5, <2>1, <1>j
      DEF Both, Proposes, Seen, Enabled, Listed, InSync, Resolution, Rejects, Proposed
    <3>6. \A p, q \in Sides : Resolving(p) = Resolving(q) => p = q
      BY DEF Resolving, Sides
    <3>8. \A q \in Sides : phase' = Resolving(q) => q = s
      BY <2>4, <3>1, <3>6
    <3>9. /\ \A q \in Sides : single'[q] \subseteq Listed(q)'
          /\ \A v \in shared' : Seen(v)'
      BY <1>t, <2>1, <2>2, <2>4, <3>4
    <3> QED BY <2>1, <2>4, <3>7, <3>8, <3>9 DEF ReadInv, Resolving, Reading
  <2> QED BY <1>9, <2>3, <2>4 DEF ReadRight
<1>10. ASSUME NEW s \in Sides, PlanConflict(s) PROVE ReadInv'
  <2> DEFINE u == First(shared)
  <2>1. /\ phase = Resolving(s) /\ phase \in Reading /\ shared # {} /\ u \in Uuids
        /\ UNCHANGED <<single, events, quiet>> /\ shared' = shared \ {u} /\ ReadSource(s, u, "update")
    BY <1>10, <1>t, FirstIn DEF PlanConflict, Resolving, PlanInv, Reading, Planning, servers
  <2>2. quiet => /\ \A r \in Sides : single[r] \subseteq Listed(r)
                 /\ \A v \in shared : Seen(v)
                 /\ Proposes(s, u)
    BY <2>1 DEF ReadInv
  <2> HIDE DEF u
  <2>3. /\ draft' \in Copy /\ phase' = "sourced" /\ draft'.from = s /\ draft'.uuid = u
        /\ draft'.action = "update" /\ (draft'.blocked <=> Rejects(s, events[s][u].content))
    BY <2>1, ReadIs
  <2> QED BY <1>2, <1>t, <2>1, <2>2, <2>3 DEF Reading, Planning
<1>11. CASE CheckCopy
  <2>1. CASE phase' = "applying"
    BY <1>1, <2>1 DEF Reading, Planning
  <2>2. CASE phase' # "applying"
    <3> DEFINE c == Head(queue)
    <3>1. /\ phase' = "checked" /\ draft' = c /\ UNCHANGED <<events, quiet>>
          /\ events[c.from][c.uuid] # Absent /\ events[c.from][c.uuid].content = c.source
      BY <1>11, <2>2 DEF CheckCopy, Failed, servers
    <3> HIDE DEF c
    <3> QED BY <3>1 DEF ReadInv, Reading, Planning, Resolving
  <2> QED BY <2>1, <2>2
<1>12. CASE LookAtDestination
  <2>1. CASE phase' = "applying"
    BY <1>1, <2>1 DEF Reading, Planning
  <2>2. CASE phase' # "applying"
    <3> DEFINE v == IF Held = Absent THEN "add" ELSE "edit"
    <3>1. /\ phase = "checked" /\ phase' = "sent" /\ draft' = [draft EXCEPT !.verb = v]
          /\ UNCHANGED <<events, quiet>> /\ draft \in Copy
      BY <1>12, <2>2 DEF LookAtDestination, Failed, servers, ApplyInv
    <3> HIDE DEF v
    <3>2. draft'.from = draft.from /\ draft'.uuid = draft.uuid /\ draft'.source = draft.source
      BY <3>1 DEF Copy
    <3> QED BY <3>1, <3>2 DEF ReadInv, Reading, Planning, Resolving
  <2> QED BY <2>1, <2>2
<1>13. ASSUME NEW answered \in BOOLEAN, Serve(answered) PROVE ReadInv'
  BY <1>1, <1>13 DEF Serve, Failed, Reading, Planning
<1>14. ASSUME NEW s \in Sides, NEW d \in Drafts, Edit(s, d[1], d[2]) PROVE ReadInv'
  BY <1>14 DEF Edit, ReadInv
<1>15. CASE UNCHANGED vars
  <2>1. UNCHANGED <<job, events, phase, quiet, single, shared, draft>>
    BY <1>15 DEF vars, servers
  <2>2. /\ \A s \in Sides : Listed(s) = Listed(s)'
        /\ \A u \in shared : Seen(u) <=> Seen(u)'
        /\ Both(First(shared)) <=> Both(First(shared))'
        /\ Listed(draft.from) = Listed(draft.from)'
    BY <2>1 DEF Listed, Seen, Both, First, Enabled
  <2>3. /\ \A s \in Sides : Proposes(s, First(shared)) <=> Proposes(s, First(shared))'
        /\ Proposes(draft.from, draft.uuid) <=> Proposes(draft.from, draft.uuid)'
    BY <2>1 DEF Both, Proposes, Seen, Enabled, Listed, InSync, Resolution, Rejects, Proposed, First
  <2>4. Rejects(draft.from, events[draft.from][draft.uuid].content)
            <=> Rejects(draft.from, events[draft.from][draft.uuid].content)'
    BY <2>1 DEF Rejects
  <2> SUFFICES ASSUME quiet PROVE ReadInv'
    BY <2>1 DEF ReadInv
  <2>5. /\ phase' = "listing right" => single'["left"] = Listed("left")'
        /\ phase' \in Reading => /\ \A s \in Sides : single'[s] \subseteq Listed(s)'
                               /\ \A u \in shared' : Seen(u)'
    BY <2>1, <2>2, <1>t DEF ReadInv
  <2>6. phase' = "sourced" =>
            /\ IF draft'.action = "abort" THEN draft'.uuid \in Listed(draft.from)'
               ELSE Proposes(draft.from, draft.uuid)'
            /\ draft'.blocked <=> Rejects(draft.from, events[draft.from][draft.uuid].content)'
    BY <2>1, <2>2, <2>3, <2>4 DEF ReadInv
  <2>7. \A s \in Sides : phase' = Resolving(s) => Both(First(shared))' /\ Proposes(s, First(shared))'
    BY <2>1, <2>2, <2>3 DEF ReadInv
  <2>8. /\ phase' = "comparing" => draft' = events'["left"][First(shared)']
        /\ phase' \in {"checked", "sent"} =>
              LET e == events'[draft'.from][draft'.uuid] IN e # Absent /\ e.content = draft'.source
    BY <2>1, <1>f DEF ReadInv
  <2>9. quiet' = quiet /\ \A s : Resolving(s)' = Resolving(s)
    BY <2>1 DEF Resolving
  <2> QED BY <2>5, <2>6, <2>7, <2>8, <2>9 DEF ReadInv
<1> QED BY <1>3, <1>4, <1>5, <1>6, <1>7, <1>8, <1>9, <1>10, <1>11, <1>12, <1>13, <1>14, <1>15
    DEF Next

\* What a step leaves of the copies and the queue.
LEMMA ItemsLeft ==
    ASSUME TypeOK
    PROVE  /\ UNCHANGED copies => Ordered' = Ordered
           /\ queue' = <<>> => Items(queue') = {}
           /\ queue # <<>> /\ queue' = Tail(queue) =>
                /\ Head(queue) \in Items(queue) /\ Items(queue) = {Head(queue)} \cup Items(queue')
           /\ Forget => Ordered' = {} /\ Items(queue') = {}
<1>1. queue \in Seq(Copy)
  BY DEF TypeOK
<1>2. UNCHANGED copies => Ordered' = Ordered
  BY DEF Ordered, Items
<1>3. Forget => Ordered' = {} /\ Items(queue') = {}
  <2> SUFFICES ASSUME Forget PROVE Ordered' = {} /\ Items(queue') = {}
    OBVIOUS
  <2>1. copies'["left"] = <<>> /\ copies'["right"] = <<>> /\ queue' = <<>>
    BY Forgotten DEF Sides
  <2>2. Ordered' = Items(copies'["left"]) \cup Items(copies'["right"])
    BY DEF Ordered, Items
  <2> QED BY <2>1, <2>2, NoItems
<1> QED BY <1>1, <1>2, <1>3, SeqItems, NoItems

LEMMA FitStep == TypeOK /\ PlanInv /\ ApplyInv /\ FitInv /\ [Next]_vars => FitInv'
<1> SUFFICES ASSUME TypeOK, PlanInv, ApplyInv, FitInv, [Next]_vars PROVE FitInv'
  OBVIOUS
<1>j. UNCHANGED job
  BY JobStays
<1>t. queue \in Seq(Copy) /\ shared \in SUBSET Uuids
  BY DEF TypeOK
<1>1. ASSUME \A c \in Ordered' \cup Items(queue') : Fits(c),
             phase' \in {"sourced", "checked", "sent"} => Fits(draft')
      PROVE  FitInv'
  <2>1. Fits(draft') <=> Fits(draft)'
    BY <1>j DEF Fits, Proposed, Rejects
  <2>2. \A c : Fits(c) <=> Fits(c)'
    BY <1>j, FitsStays
  <2>3. Items(queue)' = Items(queue')
    BY DEF Items
  <2> QED BY <1>1, <2>1, <2>2, <2>3 DEF FitInv
<1>2. ASSUME UNCHANGED copies, \/ queue' = queue \/ queue' = <<>>
                               \/ queue # <<>> /\ queue' = Tail(queue),
             phase' \in {"sourced", "checked", "sent"} => Fits(draft')
      PROVE  FitInv'
  BY <1>1, <1>2, ItemsLeft DEF FitInv
<1>3. ASSUME NEW s \in Sides, NEW u \in Uuids, NEW action \in {"abort", "update"},
             ReadSource(s, u, action), UNCHANGED <<copies, queue>>
      PROVE  FitInv'
  BY <1>2, <1>3, ReadIs DEF Fits
<1>4. CASE Start \/ FailRead \/ FailRecord \/ Cancel
  <2>1. Forget /\ phase' \notin {"sourced", "checked", "sent"}
    BY <1>4 DEF Start, FailRead, FailRecord, Cancel, Raise
  <2> QED BY <1>1, <2>1, ItemsLeft
<1>5. CASE ListLeft \/ ListRight \/ ReadLeft \/ EndPlanning \/ Record
  BY <1>2, <1>5 DEF ListLeft, ListRight, ReadLeft, EndPlanning, Record, result
<1>6. CASE PlanSingle
  <2> DEFINE s == IF single["left"] # {} THEN "left" ELSE "right"
             u == First(single[s])
  <2>1. s \in Sides /\ u \in Uuids
    BY <1>6, FirstIn DEF PlanSingle, Sides, None, TypeOK
  <2> QED BY <1>3, <1>6, <2>1 DEF PlanSingle, result
<1>7. CASE PlanDestination \/ PlanUnreachable
  <2>1. draft \in Copy /\ phase = "sourced" /\ phase' = "planning" /\ UNCHANGED queue /\ Fits(draft)
    BY <1>7 DEF PlanDestination, PlanUnreachable, PlanInv, FitInv, result
  <2>2. CASE UNCHANGED copies
    BY <1>2, <2>1, <2>2
  <2>3. ASSUME NEW c \in Copy, Planned(c), c.from = draft.from, c.source = draft.source,
               c.proposed = draft.proposed
        PROVE  FitInv'
    <3>1. Ordered' = Ordered \cup {c} /\ Fits(c)
      BY <2>1, <2>3, OrderedGrows DEF Fits
    <3> QED BY <1>1, <2>1, <3>1 DEF FitInv
  <2> QED BY <1>7, <2>1, <2>2, <2>3, DraftEnds
<1>8. CASE ReadRight
  BY <1>2, <1>8 DEF ReadRight, Resolving, result
<1>9. ASSUME NEW s \in Sides, PlanConflict(s) PROVE FitInv'
  <2>1. First(shared) \in Uuids
    BY <1>9, <1>t, FirstIn DEF PlanConflict, PlanInv, Resolving
  <2> QED BY <1>3, <1>9, <2>1 DEF PlanConflict, result
<1>10. CASE Apply
  <2>1. Ordered' = Ordered /\ Items(queue') = Ordered /\ phase' = "applying"
    BY <1>10, ItemsLeft, PlanItems DEF Apply
  <2> QED BY <1>1, <2>1 DEF FitInv
<1>11. CASE CheckCopy
  <2>1. queue # <<>> /\ UNCHANGED copies
    BY <1>11 DEF CheckCopy
  <2>2. CASE Failed(Head(queue))
    BY <1>2, <2>1, <2>2 DEF Failed
  <2>3. CASE ~Failed(Head(queue))
    <3>1. draft' = Head(queue) /\ UNCHANGED queue
      BY <1>11, <2>3 DEF CheckCopy
    <3>2. Fits(Head(queue))
      BY <1>t, <2>1, SeqItems DEF FitInv
    <3> QED BY <1>2, <2>1, <3>1, <3>2
  <2> QED BY <2>2, <2>3
<1>12. CASE LookAtDestination
  <2>1. phase = "checked" /\ queue # <<>> /\ UNCHANGED copies /\ draft \in Copy /\ Fits(draft)
    BY <1>12 DEF LookAtDestination, ApplyInv, FitInv
  <2>2. CASE Failed(draft)
    BY <1>2, <2>1, <2>2 DEF Failed
  <2>3. CASE ~Failed(draft)
    <3> DEFINE v == IF Held = Absent THEN "add" ELSE "edit"
    <3>1. draft' = [draft EXCEPT !.verb = v] /\ UNCHANGED queue
      BY <1>12, <2>3 DEF LookAtDestination
    <3> HIDE DEF v
    <3>2. draft'.from = draft.from /\ draft'.source = draft.source /\ draft'.proposed = draft.proposed
      BY <2>1, <3>1 DEF Copy
    <3>3. Fits(draft')
      BY <2>1, <3>2 DEF Fits
    <3> QED BY <1>2, <2>1, <3>1, <3>3
  <2> QED BY <2>2, <2>3
<1>13. ASSUME NEW answered \in BOOLEAN, Serve(answered) PROVE FitInv'
  BY <1>2, <1>13 DEF Serve, Failed, ApplyInv
<1>14. CASE FailCopy
  BY <1>2, <1>14 DEF FailCopy, Failed, ApplyInv
<1>15. CASE UNCHANGED <<phase, draft, copies, queue>>
  BY <1>2, <1>15 DEF FitInv
<1>16. ASSUME NEW s \in Sides, NEW d \in Drafts, Edit(s, d[1], d[2])
       PROVE  UNCHANGED <<phase, draft, copies, queue>>
  BY <1>16 DEF Edit, result
<1>17. CASE UNCHANGED vars
  BY <1>15, <1>17 DEF vars, result
<1> QED BY <1>4, <1>5, <1>6, <1>7, <1>8, <1>9, <1>10, <1>11, <1>12, <1>13, <1>14, <1>15, <1>16, <1>17
    DEF Next

\* The events of the plan.
LEMMA CopiedIs == Copied = {c.uuid : c \in Ordered}
<1>1. \A s : Of(s) = {c.uuid : c \in Items(copies[s])}
  BY DEF Of, Items
<1> QED BY <1>1 DEF Copied, Ordered

\* An event that was copied, and whose source is still what was copied, is at rest.
LEMMA ServedRests ==
    ASSUME TypeOK, UNCHANGED job, Restful, draft \in Copy, Allowed(draft), Fits(draft),
           NEW n, n \in Nat, NEW u \in Uuids, u = draft.uuid,
           events[draft.from][u] # Absent, events[draft.from][u].content = draft.source,
           events' = [events EXCEPT ![Other(draft.from)][draft.uuid] =
                        [content |-> draft.proposed, stamp |-> n]]
    PROVE  AtRest(u)'
<1> DEFINE e == events[draft.from][u]
           f == [content |-> draft.proposed, stamp |-> n]
<1>1. /\ draft.from \in Sides /\ Other(draft.from) \in Sides /\ Other(draft.from) # draft.from
      /\ \A s \in Sides : s = draft.from \/ s = Other(draft.from)
      /\ Enabled(draft.from) /\ draft.proposed = Proposed(draft.from, draft.source)
  BY DEF Copy, Other, Sides, Allowed, Fits
<1>2. f \in Event /\ f # Absent /\ f.content = draft.proposed
  <2>1. draft.proposed \in Contents
    BY DEF Copy
  <2>2. f \in Event
    BY <2>1 DEF Event
  <2> QED BY <2>2, ConstantsAssumption
<1>3. events'[draft.from][u] = e /\ events'[Other(draft.from)][u] = f
  <2>1. events \in [Sides -> [Uuids -> Event \cup {Absent}]]
    BY DEF TypeOK
  <2> HIDE DEF f
  <2> QED BY <1>1, <2>1 DEF f
<1> HIDE DEF f
<1>4. Both(u)'
  BY <1>1, <1>2, <1>3 DEF Both
<1>5. \A s \in Sides : Enabled(s) => s = draft.from \/ (\A t \in Sides : job.policy[t] = "none")
  BY <1>1 DEF Enabled, Restful, Sides
<1>6. InSync(events["left"][u].content, events["right"][u].content)'
  <2>1. \A s, x : job.policy[s] = "none" => Proposed(s, x) = x
    BY DEF Proposed, Rejects
  <2>2. CASE draft.from = "left"
    <3>1. events'["left"][u].content = draft.source /\ events'["right"][u].content = draft.proposed
      BY <1>2, <1>3, <2>2 DEF Other
    <3>2. Enabled("right") => draft.proposed = draft.source /\ Proposed("right", draft.proposed) = draft.source
      BY <1>1, <1>5, <2>1, <2>2 DEF Sides
    <3>3. InSync(draft.source, draft.proposed)
      BY <1>1, <2>2, <3>2 DEF InSync
    <3> QED BY <3>1, <3>3 DEF InSync, Enabled, Proposed, Rejects
  <2>3. CASE draft.from = "right"
    <3>1. events'["right"][u].content = draft.source /\ events'["left"][u].content = draft.proposed
      BY <1>2, <1>3, <2>3 DEF Other
    <3>2. Enabled("left") => draft.proposed = draft.source /\ Proposed("left", draft.proposed) = draft.source
      BY <1>1, <1>5, <2>1, <2>3 DEF Sides
    <3>3. InSync(draft.proposed, draft.source)
      BY <1>1, <2>3, <3>2 DEF InSync
    <3> QED BY <3>1, <3>3 DEF InSync, Enabled, Proposed, Rejects
  <2> QED BY <1>1, <2>2, <2>3 DEF Sides
<1> QED BY <1>4, <1>6 DEF AtRest, Proposes

\* No event is forgotten: it is at rest, or the run has yet to come to it.
LEMMA CoveredStep ==
    /\ TypeOK /\ PlanInv /\ ApplyInv /\ UniqueInv /\ CountInv
    /\ Restful /\ ReadInv /\ FitInv /\ CoveredInv /\ [Next]_vars
    => CoveredInv'
<1> SUFFICES ASSUME TypeOK, PlanInv, ApplyInv, UniqueInv, CountInv,
                    Restful, ReadInv, FitInv, CoveredInv, [Next]_vars
             PROVE  CoveredInv'
  OBVIOUS
<1>j. UNCHANGED job
  BY JobStays
<1>t. /\ single \in [Sides -> SUBSET Uuids] /\ shared \in SUBSET Uuids /\ queue \in Seq(Copy)
      /\ "left" \in Sides /\ "right" \in Sides
  BY DEF TypeOK, Sides
<1>c. UNCHANGED copies => Copied' = Copied
  BY DEF Copied, Of
<1>p. Reading \cap Applying = {} /\ "planned" \notin Reading \cup Applying
  BY DEF Reading, Planning, Applying
\* Nothing needs covering.
<1>1. ASSUME phase' \notin Reading \cup Applying \cup {"planned"} PROVE CoveredInv'
  BY <1>1 DEF CoveredInv
\* A step of the planning.
<1>2. ASSUME phase' \in Reading, UNCHANGED <<events, quiet>>,
             quiet => \A u \in Uuids : \/ AtRest(u)
                                       \/ u \in Single' \cup shared' \cup Copied'
                                       \/ phase' = "sourced" /\ u = draft'.uuid
      PROVE  CoveredInv'
  <2>1. \A u \in Uuids : AtRest(u) <=> AtRest(u)'
    BY <1>j, <1>2, AllStays
  <2> QED BY <1>p, <1>2, <2>1 DEF CoveredInv
\* One of the application, after which an event is named or still waits.
<1>3. ASSUME phase' \in Applying, UNCHANGED <<events, quiet>>,
             quiet => \A u \in Uuids : AtRest(u) \/ u \in failures' \cup Waiting'
      PROVE  CoveredInv'
  <2>1. \A u \in Uuids : AtRest(u) <=> AtRest(u)'
    BY <1>j, <1>3, AllStays
  <2> QED BY <1>p, <1>3, <2>1 DEF CoveredInv
<1>w. Waiting' = {c.uuid : c \in Items(queue')}
  BY DEF Waiting, Items
<1>4. ASSUME phase \in Applying, phase' \in Applying, UNCHANGED <<events, quiet>>,
             \/ UNCHANGED <<queue, failures>>
             \/ /\ queue # <<>> /\ queue' = Tail(queue)
                /\ failures' = failures \cup {Head(queue).uuid}
      PROVE  CoveredInv'
  <2>1. failures \cup Waiting \subseteq failures' \cup Waiting'
    BY <1>w, <1>4, ItemsLeft DEF Waiting
  <2> QED BY <1>3, <1>4, <2>1 DEF CoveredInv
<1>5. CASE Start \/ ListLeft \/ FailRead \/ FailRecord \/ Cancel \/ Record
  BY <1>1, <1>5 DEF Start, ListLeft, FailRead, FailRecord, Cancel, Raise, Record, Reading, Planning, Applying
<1>6. CASE ListRight
  <2> SUFFICES ASSUME quiet, NEW u \in Uuids, u \notin Single' \cup shared' PROVE AtRest(u)
    BY <1>2, <1>6 DEF ListRight, servers, Reading, Planning
  <2>1. single["left"] = Listed("left")
    BY <1>6 DEF ListRight, ReadInv
  <2>2. /\ single'["left"] = IF Enabled("left") THEN Listed("left") \ Listed("right") ELSE {}
        /\ single'["right"] = IF Enabled("right") THEN Listed("right") \ Listed("left") ELSE {}
        /\ shared' = Listed("left") \cap Listed("right")
    BY <1>6, <1>t, <2>1 DEF ListRight
  <2>3. \A s \in Sides : ~(Enabled(s) /\ u \in Listed(s))
    BY <2>2 DEF Single, Sides
  <2> QED BY <2>3 DEF AtRest, Proposes, Seen
<1>7. CASE PlanSingle
  <2> DEFINE s == IF single["left"] # {} THEN "left" ELSE "right"
             v == First(single[s])
  <2>1. s \in Sides /\ v \in Uuids /\ v \in single[s]
    BY <1>7, <1>t, FirstIn DEF PlanSingle, Sides, None
  <2>2. \A r \in Sides : single'[r] = IF r = s THEN single[r] \ {v} ELSE single[r]
    BY <1>7, <1>t, <2>1 DEF PlanSingle
  <2>3. UNCHANGED <<shared, copies, events, quiet>> /\ phase = "planning" /\ ReadSource(s, v, "abort")
    BY <1>7 DEF PlanSingle, servers
  <2> HIDE DEF s, v
  <2>4. phase' = "sourced" /\ draft'.uuid = v
    BY <2>1, <2>3, ReadIs
  <2>5. Single \subseteq Single' \cup {v}
    BY <1>t, <2>2 DEF Single
  <2> QED BY <1>2, <1>c, <2>3, <2>4, <2>5 DEF CoveredInv, Reading, Planning
<1>8. CASE PlanDestination \/ PlanUnreachable
  <2>1. /\ draft \in Copy /\ UNCHANGED <<single, events, quiet>>
        /\ phase = "sourced" /\ phase' = "planning" /\ draft.uuid \notin Copied /\ Apart
    BY <1>8, DraftEnds DEF PlanDestination, PlanUnreachable, PlanInv, servers, UniqueInv
  <2>2. Single' = Single
    BY <2>1 DEF Single
  <2>3. shared \cup Copied \cup {draft.uuid} \subseteq shared' \cup Copied'
    <3>1. CASE shared' = shared \cup {draft.uuid} /\ UNCHANGED copies
      BY <1>c, <3>1
    <3>2. ASSUME NEW c \in Copy, Planned(c), c.uuid = draft.uuid, UNCHANGED shared
          PROVE  shared \cup Copied \cup {draft.uuid} \subseteq shared' \cup Copied'
      BY <2>1, <3>2, PlannedApart
    <3> QED BY <1>8, <2>1, <3>1, <3>2, DraftEnds
  <2> QED BY <1>2, <2>1, <2>2, <2>3 DEF CoveredInv, Reading, Planning
<1>9. CASE ReadLeft
  <2>1. UNCHANGED <<single, shared, copies, events, quiet>> /\ phase = "planning" /\ phase' = "comparing"
    BY <1>9 DEF ReadLeft, servers
  <2>2. Single' = Single
    BY <2>1 DEF Single
  <2> QED BY <1>2, <1>c, <2>1, <2>2 DEF CoveredInv, Reading, Planning
<1>10. CASE ReadRight
  <2> DEFINE v == First(shared)
             l == events["left"][v]
             r == events["right"][v]
             side == Resolution(draft.stamp, r.stamp)
  <2>1. /\ UNCHANGED <<single, copies, events, quiet>> /\ phase = "comparing" /\ draft \in Event
        /\ r # Absent /\ shared # {} /\ v \in Uuids
    BY <1>10, <1>t, FirstIn DEF ReadRight, servers, PlanInv
  <2>2. Single' = Single
    BY <2>1 DEF Single
  <2>3. \/ /\ InSync(draft.content, r.content) \/ side = {}
           /\ phase' = "planning" /\ shared' = shared \ {v}
        \/ phase' \in {"resolving left", "resolving right"} /\ shared' = shared
    BY <1>10 DEF ReadRight, Resolving
  <2>4. quiet => draft = l
    BY <2>1 DEF ReadInv
  <2>5. quiet /\ (InSync(draft.content, r.content) \/ side = {}) => AtRest(v)
    <3> SUFFICES ASSUME quiet, InSync(draft.content, r.content) \/ side = {},
                        NEW s \in Sides, Proposes(s, v)
                 PROVE  FALSE
      BY DEF AtRest
    <3>1. Both(v)
      BY <2>1, <2>4, ConstantsAssumption DEF Both, Sides
    <3> QED BY <2>4, <3>1 DEF Proposes
  <2> HIDE DEF v, side
  <2> QED BY <1>2, <1>c, <2>1, <2>2, <2>3, <2>5 DEF CoveredInv, Reading, Planning
<1>11. ASSUME NEW s \in Sides, PlanConflict(s) PROVE CoveredInv'
  <2> DEFINE v == First(shared)
  <2>1. /\ phase \in Reading \ {"sourced"} /\ v \in Uuids
        /\ UNCHANGED <<single, copies, events, quiet>> /\ shared' = shared \ {v}
        /\ ReadSource(s, v, "update")
    BY <1>11, <1>t, FirstIn DEF PlanConflict, Resolving, PlanInv, Reading, Planning, servers
  <2> HIDE DEF v
  <2>2. phase' = "sourced" /\ draft'.uuid = v
    BY <2>1, ReadIs
  <2>3. Single' = Single
    BY <2>1 DEF Single
  <2> QED BY <1>2, <1>c, <2>1, <2>2, <2>3 DEF CoveredInv, Reading, Planning
<1>12. CASE EndPlanning
  <2>1. /\ UNCHANGED <<copies, events, quiet>> /\ phase = "planning" /\ phase' = "planned"
        /\ single = None /\ shared = {}
    BY <1>12 DEF EndPlanning, servers
  <2>2. Single = {}
    BY <1>t, <2>1 DEF Single, None
  <2>3. \A u \in Uuids : AtRest(u) <=> AtRest(u)'
    BY <1>j, <2>1, AllStays
  <2>4. quiet => \A u \in Uuids : AtRest(u) \/ u \in Copied
    BY <2>1, <2>2 DEF CoveredInv, Reading, Planning
  <2> QED BY <1>c, <1>p, <2>1, <2>3, <2>4 DEF CoveredInv
<1>13. CASE Apply
  <2>1. /\ UNCHANGED <<copies, events, quiet>> /\ phase = "planned" /\ phase' = "applying" /\ queue' = Plan
    BY <1>13 DEF Apply, servers
  <2>2. Waiting' = Copied
    BY <1>w, <2>1, PlanItems, CopiedIs
  <2>3. quiet => \A u \in Uuids : AtRest(u) \/ u \in Copied
    BY <2>1 DEF CoveredInv
  <2> QED BY <1>3, <2>1, <2>2, <2>3 DEF Applying
<1>14. CASE CheckCopy
  <2>1. phase \in Applying /\ phase' \in Applying /\ queue # <<>> /\ UNCHANGED <<events, quiet>>
    BY <1>14 DEF CheckCopy, Failed, Applying, servers
  <2>2. UNCHANGED <<queue, failures>> \/ Failed(Head(queue))
    BY <1>14 DEF CheckCopy
  <2> QED BY <1>4, <2>1, <2>2 DEF Failed
\* What is looked at is the head of the queue.
<1>h. phase \in {"checked", "sent"} =>
        draft \in Copy /\ queue # <<>> /\ phase \in Applying /\ draft.uuid = Head(queue).uuid
  BY AtHead DEF ApplyInv, Applying
<1>15. CASE LookAtDestination
  <2>1. phase = "checked" /\ phase' \in Applying /\ UNCHANGED <<events, quiet>>
    BY <1>15 DEF LookAtDestination, Failed, Applying, servers
  <2>2. UNCHANGED <<queue, failures>> \/ Failed(draft)
    BY <1>15 DEF LookAtDestination
  <2> QED BY <1>4, <1>h, <2>1, <2>2 DEF Failed
<1>16. CASE FailCopy
  <2>1. /\ phase \in Applying /\ phase' \in Applying /\ queue # <<>> /\ UNCHANGED <<events, quiet>>
        /\ Failed(Head(queue))
    BY <1>16, <1>h DEF FailCopy, Failed, Applying, servers
  <2> QED BY <1>4, <2>1 DEF Failed
<1>17. ASSUME NEW answered \in BOOLEAN, Serve(answered) PROVE CoveredInv'
  <2>1. /\ phase = "sent" /\ phase \in Applying /\ phase' = "applying" /\ phase' \in Applying
        /\ UNCHANGED quiet /\ draft \in Copy /\ queue # <<>> /\ draft.uuid = Head(queue).uuid
        /\ queue' = Tail(queue) /\ draft.uuid \in Uuids
    BY <1>17, <1>h DEF Serve, Failed, Applying, Copy
  <2>2. Waiting \subseteq Waiting' \cup {draft.uuid}
    BY <1>w, <2>1, ItemsLeft DEF Waiting
  <2>3. failures \subseteq failures' /\ (draft.uuid \in failures' \/ UNCHANGED failures)
    BY <1>17 DEF Serve, Failed
  <2> SUFFICES ASSUME quiet, NEW u \in Uuids
               PROVE  AtRest(u)' \/ u \in failures' \cup Waiting'
    BY <1>p, <2>1 DEF CoveredInv
  <2>4. CASE u # draft.uuid
    <3>1. \A s \in Sides : events'[s][u] = events[s][u]
      <4>1. events \in [Sides -> [Uuids -> Event \cup {Absent}]]
        BY DEF TypeOK
      <4>2. \/ UNCHANGED events
            \/ events' = [events EXCEPT ![Other(draft.from)][draft.uuid] =
                            [content |-> draft.proposed, stamp |-> clock + 1]]
        BY <1>17 DEF Serve
      <4> QED BY ONLY <2>4, <4>1, <4>2
    <3>2. AtRest(u) <=> AtRest(u)'
      BY <1>j, <3>1, RestStays
    <3> QED BY <2>1, <2>2, <2>3, <2>4, <3>2 DEF CoveredInv
  <2>5. CASE u = draft.uuid
    <3>1. CASE Failed(draft)
      BY <2>5, <3>1 DEF Failed
    <3>2. CASE ~Failed(draft)
      <4>1. events' = [events EXCEPT ![Other(draft.from)][draft.uuid] =
                          [content |-> draft.proposed, stamp |-> clock + 1]]
        BY <1>17, <3>2 DEF Serve
      <4>2. /\ events[draft.from][u] # Absent /\ events[draft.from][u].content = draft.source
            /\ Fits(draft) /\ Allowed(draft)
        BY <2>1, <2>5 DEF ReadInv, FitInv, ApplyInv
      <4>3. clock + 1 \in Nat
        BY DEF TypeOK
      <4> QED BY <1>j, <2>1, <2>5, <4>1, <4>2, <4>3, ServedRests
    <3> QED BY <3>1, <3>2
  <2> QED BY <2>4, <2>5
<1>18. ASSUME NEW s \in Sides, NEW d \in Drafts, Edit(s, d[1], d[2]) PROVE CoveredInv'
  BY <1>18 DEF Edit, CoveredInv
<1>19. CASE UNCHANGED vars
  <2>1. UNCHANGED <<job, events, phase, quiet, single, shared, draft, copies, queue, failures>>
    BY <1>19 DEF vars, servers, result
  <2>2. Single' = Single /\ Copied' = Copied /\ Waiting' = Waiting
    BY <1>c, <2>1 DEF Single, Waiting, Items
  <2>3. \A u \in Uuids : AtRest(u) <=> AtRest(u)'
    BY <2>1, AllStays
  <2> QED BY <2>1, <2>2, <2>3 DEF CoveredInv
<1> QED BY <1>5, <1>6, <1>7, <1>8, <1>9, <1>10, <1>11, <1>12, <1>13, <1>14, <1>15, <1>16, <1>17,
           <1>18, <1>19 DEF Next

\* After a run that failed nowhere, nothing is left to copy.
LEMMA SettledStep ==
    /\ TypeOK /\ PlanInv /\ ApplyInv /\ CountInv /\ ReadInv /\ CoveredInv /\ SettledInv /\ [Next]_vars
    => SettledInv'
<1> SUFFICES ASSUME TypeOK, PlanInv, ApplyInv, CountInv, ReadInv, CoveredInv, SettledInv, [Next]_vars
             PROVE  SettledInv'
  OBVIOUS
<1>j. UNCHANGED job
  BY JobStays
<1>i. Items(queue)' = Items(queue')
  BY DEF Items
\* A step that writes nothing, and orders only what is blocked.
<1>1. ASSUME UNCHANGED <<events, quiet, settled>>, phase' \notin {"done", "checked", "sent"},
             settled => \A c \in Ordered' \cup Items(queue') : c.blocked
      PROVE  SettledInv'
  <2>1. \A u \in Uuids : AtRest(u) <=> AtRest(u)'
    BY <1>j, <1>1, AllStays
  <2> QED BY <1>i, <1>1, <2>1 DEF SettledInv
<1>2. ASSUME UNCHANGED <<events, quiet, settled, copies>>, phase # "done",
             phase' \notin {"done", "checked", "sent"},
             queue' = queue \/ (queue # <<>> /\ queue' = Tail(queue))
      PROVE  SettledInv'
  BY <1>1, <1>2, ItemsLeft DEF SettledInv
<1>3. CASE Start
  <2> SUFFICES ASSUME settled' PROVE SettledInv'
    BY DEF SettledInv
  <2>1. settled /\ quiet' /\ UNCHANGED events /\ phase' = "listing left" /\ Forget
    BY <1>3 DEF Start, servers
  <2>2. \A u \in Uuids : AtRest(u) <=> AtRest(u)'
    BY <1>j, <2>1, AllStays
  <2> QED BY <1>i, <2>1, <2>2, ItemsLeft DEF SettledInv
<1>4. CASE FailRead \/ FailRecord \/ Cancel
  <2>1. Forget /\ phase' = "raised" /\ UNCHANGED <<events, quiet, settled>>
    BY <1>4 DEF FailRead, FailRecord, Cancel, Raise, servers
  <2> QED BY <1>1, <2>1, ItemsLeft
<1>5. CASE ListLeft \/ ListRight \/ ReadLeft \/ EndPlanning
  BY <1>2, <1>5 DEF ListLeft, ListRight, ReadLeft, EndPlanning, servers, result
<1>6. CASE PlanSingle
  BY <1>2, <1>6 DEF PlanSingle, ReadSource, servers, result
<1>7. CASE PlanDestination \/ PlanUnreachable
  <2>1. /\ draft \in Copy /\ Allowed(draft) /\ UNCHANGED <<events, quiet, settled, queue>>
        /\ phase = "sourced" /\ phase' = "planning"
    BY <1>7, DraftEnds DEF PlanDestination, PlanUnreachable, PlanInv, servers, result
  <2>2. CASE UNCHANGED copies
    BY <1>2, <2>1, <2>2
  <2>3. ASSUME NEW c \in Copy, Planned(c),
               \/ c.blocked
               \/ c.blocked = draft.blocked /\ (draft.action = "abort" => Held = Absent)
        PROVE  SettledInv'
    <3>1. Ordered' = Ordered \cup {c}
      BY <2>3, OrderedGrows
    <3>2. settled => c.blocked
      <4> SUFFICES ASSUME settled, draft.action = "abort" => Held = Absent PROVE draft.blocked
        BY <2>3
      <4> DEFINE s == draft.from
                 u == draft.uuid
      <4>1. s \in Sides /\ u \in Uuids /\ Enabled(s) /\ Other(s) \in Sides
        BY <2>1 DEF Copy, Allowed, Other, Sides
      <4>2. quiet /\ AtRest(u)
        BY <4>1 DEF SettledInv
      <4>3. /\ IF draft.action = "abort" THEN u \in Listed(s) ELSE Proposes(s, u)
            /\ draft.blocked <=> Rejects(s, events[s][u].content)
        BY <2>1, <4>2 DEF ReadInv
      <4>4. Proposes(s, u)
        BY <4>1, <4>3 DEF Proposes, Both, Held
      <4> QED BY <4>1, <4>2, <4>3, <4>4 DEF AtRest
    <3> QED BY <1>1, <2>1, <3>1, <3>2 DEF SettledInv
  <2> QED BY <1>7, <2>1, <2>2, <2>3, DraftEnds
<1>8. CASE ReadRight
  BY <1>2, <1>8 DEF ReadRight, Resolving, servers, result
<1>9. ASSUME NEW s \in Sides, PlanConflict(s) PROVE SettledInv'
  BY <1>2, <1>9 DEF PlanConflict, ReadSource, Resolving, servers, result
<1>10. CASE Apply
  <2>1. Ordered' = Ordered /\ Items(queue') = Ordered /\ phase = "planned" /\ phase' = "applying"
        /\ UNCHANGED <<events, quiet, settled>>
    BY <1>10, ItemsLeft, PlanItems DEF Apply, servers
  <2> QED BY <1>1, <2>1 DEF SettledInv
<1>11. CASE CheckCopy
  <2>1. queue # <<>> /\ phase = "applying" /\ UNCHANGED <<events, quiet, settled, copies>>
    BY <1>11 DEF CheckCopy, servers
  <2>2. CASE Failed(Head(queue))
    BY <1>2, <2>1, <2>2 DEF Failed
  <2>3. CASE ~Failed(Head(queue))
    <3>1. ~Head(queue).blocked
      BY <1>11, <2>3 DEF CheckCopy
    <3>2. Head(queue) \in Items(queue)
      BY <2>1, SeqItems DEF TypeOK
    <3>3. ~settled
      BY <2>1, <3>1, <3>2 DEF SettledInv
    <3>4. ~settled'
      BY <2>1, <3>3
    <3> QED BY <3>4 DEF SettledInv
  <2> QED BY <2>2, <2>3
<1>12. CASE LookAtDestination
  BY <1>12 DEF LookAtDestination, SettledInv, servers
<1>13. ASSUME NEW answered \in BOOLEAN, Serve(answered) PROVE SettledInv'
  BY <1>13 DEF Serve, SettledInv
<1>14. CASE FailCopy
  BY <1>2, <1>14 DEF FailCopy, Failed, ApplyInv, servers
<1>15. CASE Record
  <2> SUFFICES ASSUME settled' PROVE SettledInv'
    BY DEF SettledInv
  <2>1. /\ quiet /\ quiet' /\ failures = {} /\ queue = <<>> /\ phase = "applying" /\ phase' = "done"
        /\ UNCHANGED events
    BY <1>15 DEF Record, servers
  <2>2. \A u \in Uuids : AtRest(u)
    BY <2>1, NoItems DEF CoveredInv, Applying, Waiting
  <2>3. \A u \in Uuids : AtRest(u) <=> AtRest(u)'
    BY <1>j, <2>1, AllStays
  <2> QED BY <2>1, <2>2, <2>3 DEF SettledInv
<1>16. ASSUME NEW s \in Sides, NEW d \in Drafts, Edit(s, d[1], d[2]) PROVE SettledInv'
  BY <1>16 DEF Edit, SettledInv
<1>17. CASE UNCHANGED vars
  <2>1. UNCHANGED <<events, phase, quiet, settled, copies, queue>>
    BY <1>17 DEF vars, servers, result
  <2>2. \A u \in Uuids : AtRest(u) <=> AtRest(u)'
    BY <1>j, <2>1, AllStays
  <2>3. Ordered' = Ordered
    BY <2>1, ItemsLeft
  <2> QED BY <1>i, <2>1, <2>2, <2>3 DEF SettledInv
<1> QED BY <1>3, <1>4, <1>5, <1>6, <1>7, <1>8, <1>9, <1>10, <1>11, <1>12, <1>13, <1>14, <1>15, <1>16, <1>17
    DEF Next

-----------------------------------------------------------------------------
(* The theorems.                                                           *)

LEMMA IndInit == Init => IndInv
<1> SUFFICES ASSUME Init PROVE IndInv
  OBVIOUS
<1>1. /\ TypeOK /\ phase = "idle" /\ queue = <<>> /\ shared = {}
      /\ \A s \in Sides : copies[s] = <<>> /\ single[s] = {}
  BY TypeInit DEF Init, None
<1>2. \A s \in Sides : Of(s) = {} /\ Len(copies[s]) = 0 /\ AllAllowed(copies[s])
  BY <1>1, Empty DEF Of
<1>3. UniqueInv
  BY <1>1, <1>2 DEF UniqueInv, Apart, Copied, Single, Sides
<1>4. PlanInv
  BY <1>1, <1>2 DEF PlanInv, Resolving
<1>5. ApplyInv /\ CountInv
  BY <1>1, Empty DEF ApplyInv, CountInv, Planning, Applying
<1> QED BY <1>1, <1>3, <1>4, <1>5 DEF IndInv

LEMMA IndStep == IndInv /\ [Next]_vars => IndInv'
  BY TypeStep, PlanInvStep, ApplyInvStep, UniqueStep, CountStep DEF IndInv

\* The inductive invariant holds of every behaviour of a job.
THEOREM Invariance == Spec => []IndInv
  BY IndInit, IndStep, PTL DEF Spec

\* Type correctness of a job.
THEOREM TypeCorrect == Spec => []TypeOK
<1>1. IndInv => TypeOK
  BY DEF IndInv
<1> QED BY <1>1, Invariance, PTL

\* The result of a job and its record name every copy of its plan once, whatever
\* fails between (services/sync.py:203).
THEOREM CopiesAccounted == Spec => []EveryCopyAccounted
<1>1. IndInv => EveryCopyAccounted
  <2> SUFFICES ASSUME IndInv, phase = "done"
               PROVE  /\ {Plan[i].uuid : i \in 1..Len(Plan)} = Named \cup failures
                      /\ \A i \in 1..Len(applied) : applied[i] \notin failures
                      /\ log[1] + log[2] = Len(Plan)
    BY DEF EveryCopyAccounted, Named
  <2>1. /\ queue = <<>> /\ log = <<Len(applied), Cardinality(failures)>>
        /\ Named \cup failures = {Uuid(i) : i \in 1..Done} /\ Named \cap failures = {}
        /\ Len(applied) + Cardinality(failures) = Done
    BY DEF IndInv, CountInv
  <2>2. Done = Len(Plan)
    <3>1. Len(Plan) \in Nat /\ Len(queue) = 0
      BY <2>1, PlanIs, EmptySeq DEF IndInv
    <3> QED BY <3>1 DEF Done
  <2> QED BY <2>1, <2>2 DEF Uuid, Named
<1> QED BY <1>1, Invariance, PTL

\* What a job writes, its direction and its strategy allow (services/sync.py:51).
THEOREM JobKept == Spec => KeepsToTheJob
<1>1. IndInv /\ [Next]_vars =>
        [\A s \in Sides, u \in Uuids : Writes(s, u) =>
            /\ Enabled(Other(s))
            /\ job.caller = "sync run" => ~Blocked
            /\ ~Rejects(Other(s), draft.proposed)
            /\ events[s][u] # Absent => job.strategy \notin {"skip", Prefer(s)}]_vars
  BY WritesAllowed DEF IndInv
<1> QED BY <1>1, Invariance, PTL DEF Spec, KeepsToTheJob

\* A run keeps what it read, what it proposes and which events it still has to come to.
THEOREM RestInvariance == Spec => [](IndInv /\ RestInv)
<1>1. Init => IndInv /\ RestInv
  <2> SUFFICES ASSUME Init PROVE IndInv /\ RestInv
    OBVIOUS
  <2>1. IndInv
    BY IndInit
  <2>2. phase = "idle" /\ queue = <<>> /\ ~settled /\ copies["left"] = <<>> /\ copies["right"] = <<>>
    BY DEF Init, Sides
  <2>3. ReadInv /\ CoveredInv /\ SettledInv
    BY <2>2 DEF ReadInv, CoveredInv, SettledInv, Reading, Planning, Applying, Resolving
  <2>4. FitInv
    BY <2>2, NoItems DEF FitInv, Ordered
  <2> QED BY <2>1, <2>3, <2>4 DEF RestInv
<1>2. IndInv /\ RestInv /\ [Next]_vars => IndInv' /\ RestInv'
  <2> SUFFICES ASSUME IndInv, RestInv, [Next]_vars PROVE IndInv' /\ RestInv'
    OBVIOUS
  <2>1. IndInv'
    BY IndStep
  <2>2. Restful' => Restful
    BY JobStays DEF Restful
  <2>3. Restful => ReadInv' /\ FitInv' /\ CoveredInv' /\ SettledInv'
    BY ReadStep, FitStep, CoveredStep, SettledStep DEF IndInv, RestInv
  <2> QED BY <2>1, <2>2, <2>3 DEF RestInv
<1> QED BY <1>1, <1>2, PTL DEF Spec

\* Applying a plan without a failure brings the next one to rest, for every job whose
\* directions do not undo one another (services/sync.py:112).
THEOREM Rests == Spec => []ComesToRest
<1>1. IndInv /\ RestInv => ComesToRest
  <2> SUFFICES ASSUME IndInv, RestInv, phase = "planned", settled, Restful, NEW i \in 1..Len(Plan)
               PROVE  Plan[i].blocked
    BY DEF ComesToRest, Restful
  <2>1. Plan[i] \in Items(Plan) /\ Items(Plan) = Ordered
    BY PlanItems DEF Items, IndInv
  <2> QED BY <2>1 DEF RestInv, SettledInv
<1> QED BY <1>1, RestInvariance, PTL
=============================================================================
