-------------------------------- MODULE Sync --------------------------------
(***************************************************************************)
(* A synchronization job: plan_sync(), which lists both servers and reads  *)
(* every event it may have to copy, and apply_sync(), which applies the    *)
(* copies one by one and names those that failed.                          *)
(*                                                                         *)
(* Every request is a step of its own, and analysts edit either server in  *)
(* between.  A write is served or not, and its answer may be lost; that it *)
(* is not sent again, and what its sender's cancellation does to it, are   *)
(* Transport's and EventCopy's matter.  An event is the set of what its    *)
(* fingerprint tells apart, its tags included, and its timestamp, which    *)
(* the server that stores it sets.                                         *)
(***************************************************************************)
EXTENDS Naturals, Sequences, FiniteSets

CONSTANTS Uuids,      \* the events, as numbers: sorted() is their order
          Facts,      \* what an event can hold
          Tag,        \* the job's filter tag, one of the facts
          Removed,    \* the facts that the policy removes
          Forbidden,  \* the facts that make the policy reject an event
          Absent,     \* no such event
          Jobs,       \* the jobs considered
          Starts,     \* the stores that the servers begin with
          Drafts,     \* what analysts make of which events
          MaxEdits,   \* bound: how many edits they make
          MaxRuns     \* bound: how often the job is run

Sides == {"left", "right"}
Other(s) == IF s = "left" THEN "right" ELSE "left"
Contents == SUBSET Facts
Event == [content : Contents, stamp : Nat]

Prefer(s) == IF s = "left" THEN "prefer-left" ELSE "prefer-right"
Resolving(s) == IF s = "left" THEN "resolving left" ELSE "resolving right"
Strategies == {"skip", "newer-wins", "prefer-left", "prefer-right"}
Job == [direction : {"push", "pull", "both"}, strategy : Strategies,
        filtered : BOOLEAN, policy : [Sides -> {"none", "import"}],
        caller : {"sync run", "library"}]

ASSUME ConstantsAssumption ==
    /\ Uuids \subseteq Nat /\ IsFiniteSet(Uuids)
    /\ Drafts \subseteq Uuids \X (Contents \cup {Absent})
    /\ Tag \in Facts /\ Removed \subseteq Facts /\ Forbidden \subseteq Facts
    /\ Absent \notin Event
    /\ Jobs \subseteq Job /\ Starts \subseteq [Sides -> [Uuids -> Event \cup {Absent}]]
    /\ MaxEdits \in Nat /\ MaxRuns \in Nat

VARIABLES
    job,       \* the job's specification
    events,    \* what each server stores
    clock,     \* the time of the last write
    edits,     \* how many edits the analysts made
    runs,      \* how often the job was started
    phase,     \* where the run is
    single,    \* the events still to plan that one side alone listed
    shared,    \* the events still to compare
    draft,     \* the copy that is being planned or applied
    copies,    \* the plan: its copies, in order, by the side they come from
    queue,     \* the copies still to apply
    applied,   \* SyncResult.applied
    failures,  \* SyncResult.failures
    log,       \* the numbers in the operation record
    quiet,     \* history: nobody edited anything since the run began
    settled    \* history: the last run applied its whole plan, and so it was

servers == <<events, clock, edits>>
result  == <<queue, applied, failures, log>>
vars == <<job, servers, runs, phase, single, shared, draft, copies, result, quiet, settled>>

\* A CopyPlan, with the stamps of the two events its planning read.
Copy == [from : Sides, uuid : Uuids, action : {"abort", "update"},
         source : Contents, proposed : Contents, base : Contents \cup {Absent},
         stamps : Nat \X Nat, blocked : BOOLEAN, verb : {"add", "edit"}]
None == [s \in Sides |-> {}]

Planning == {"listing left", "listing right", "planning", "sourced", "comparing",
             "resolving left", "resolving right"}
Applying == {"applying", "checked", "sent"}

TypeOK ==
    /\ job \in Jobs
    /\ events \in [Sides -> [Uuids -> Event \cup {Absent}]]
    /\ clock \in Nat /\ edits \in 0..MaxEdits /\ runs \in 0..MaxRuns
    /\ phase \in Planning \cup Applying \cup {"idle", "planned", "done", "raised"}
    /\ single \in [Sides -> SUBSET Uuids] /\ shared \in SUBSET Uuids
    /\ draft \in Copy \cup Event \cup {Absent}
    /\ copies \in [Sides -> Seq(Copy)]
    /\ queue \in Seq(Copy) /\ applied \in Seq(Uuids) /\ failures \in SUBSET Uuids
    /\ log \in Seq(Nat) /\ quiet \in BOOLEAN /\ settled \in BOOLEAN

Init ==
    /\ job \in Jobs /\ events \in Starts
    /\ clock = 1 /\ edits = 0 /\ runs = 0 /\ phase = "idle"
    /\ single = None /\ shared = {} /\ draft = Absent
    /\ copies = [s \in Sides |-> <<>>]
    /\ queue = <<>> /\ applied = <<>> /\ failures = {} /\ log = <<>>
    /\ quiet = TRUE /\ settled = FALSE

-----------------------------------------------------------------------------
(* The job's rules.                                                        *)

\* Whether events may flow from this side.
Enabled(s) == job.direction \in {"both", IF s = "left" THEN "push" ELSE "pull"}

\* The policy engine; a rejected event is proposed as it is.
Rejects(s, content) == job.policy[s] # "none" /\ content \cap Forbidden # {}
Proposed(s, content) ==
    IF job.policy[s] = "none" \/ Rejects(s, content) THEN content ELSE content \ Removed

\* Every enabled direction would copy the destination onto itself.
ComparesRaw(left, right) == left = right                        \* mutant
InSync(left, right) ==
    /\ Enabled("left") => Proposed("left", left) = right
    /\ Enabled("right") => Proposed("right", right) = left

\* The side a conflict is resolved from, if the job may copy from there.
AnyDirection(l, r) ==                                           \* mutant
    CASE job.strategy = "prefer-left"  -> {"left"}
      [] job.strategy = "prefer-right" -> {"right"}
      [] job.strategy = "newer-wins"   -> {IF l >= r THEN "left" ELSE "right"}
      [] OTHER                         -> {}
Resolution(l, r) ==
    {s \in Sides :
        /\ Enabled(s)
        /\ \/ job.strategy = Prefer(s)
           \/ job.strategy = "newer-wins" /\ s = (IF l >= r THEN "left" ELSE "right")}

-----------------------------------------------------------------------------
(* plan_sync()                                                             *)

First(S) == CHOOSE u \in S : \A v \in S : u <= v

\* /events/index with the filter tag.
Listed(s) == {u \in Uuids : /\ events[s][u] # Absent
                            /\ job.filtered => Tag \in events[s][u].content}

\* What one run of the job keeps, and loses when it ends with an exception.
Forget ==
    /\ single' = None /\ shared' = {} /\ draft' = Absent
    /\ copies' = [s \in Sides |-> <<>>]
    /\ queue' = <<>> /\ applied' = <<>> /\ failures' = {}

Start ==
    /\ phase \in {"idle", "planned", "done", "raised"} /\ runs < MaxRuns
    /\ runs' = runs + 1 /\ phase' = "listing left" /\ quiet' = TRUE
    /\ Forget
    /\ settled' = (phase = "done" /\ settled)
    /\ UNCHANGED <<job, servers, log>>

Raise == phase' = "raised" /\ Forget /\ UNCHANGED <<job, servers, runs, log, quiet, settled>>

ListLeft ==
    /\ phase = "listing left" /\ phase' = "listing right"
    /\ single' = [None EXCEPT !["left"] = Listed("left")]
    /\ UNCHANGED <<job, servers, runs, shared, draft, copies, result, quiet, settled>>

ListRight ==
    LET left == single["left"]
        right == Listed("right")
    IN
    /\ phase = "listing right" /\ phase' = "planning"
    /\ single' = [s \in Sides |-> IF ~Enabled(s) THEN {}
                                  ELSE IF s = "left" THEN left \ right ELSE right \ left]
    /\ shared' = left \cap right
    /\ UNCHANGED <<job, servers, runs, draft, copies, result, quiet, settled>>

\* build_copy_plan() reads the source.
ReadSource(s, u, action) ==
    LET e == events[s][u] IN
    /\ e # Absent
    /\ phase' = "sourced"
    /\ draft' = [from |-> s, uuid |-> u, action |-> action, source |-> e.content,
                 proposed |-> Proposed(s, e.content), base |-> Absent,
                 stamps |-> <<e.stamp, 0>>, blocked |-> Rejects(s, e.content),
                 verb |-> "add"]

\* The one-sided events of the left server first, each in the default mode abort.
PlanSingle ==
    LET s == IF single["left"] # {} THEN "left" ELSE "right"
        u == First(single[s])
    IN
    /\ phase = "planning" /\ single # None
    /\ ReadSource(s, u, "abort")
    /\ single' = [single EXCEPT ![s] = @ \ {u}]
    /\ UNCHANGED <<job, servers, runs, shared, copies, result, quiet, settled>>

Planned(copy) ==
    copies' = [copies EXCEPT ![copy.from] = Append(@, copy)]

\* It reads the destination.  One that has the event after all makes the event a
\* shared one, to be compared like those that both sides listed.
Held == events[Other(draft.from)][draft.uuid]
KeepOrCompare ==
    IF draft.action = "abort" /\ Held # Absent
    THEN shared' = shared \cup {draft.uuid} /\ UNCHANGED copies
    ELSE /\ UNCHANGED shared
         /\ Planned([draft EXCEPT
                !.base = IF draft.action = "update" /\ Held # Absent THEN Held.content ELSE Absent,
                !.stamps = <<@[1], IF Held # Absent THEN Held.stamp ELSE 0>>])

PlanDestination ==
    /\ phase = "sourced" /\ phase' = "planning" /\ draft' = Absent
    /\ KeepOrCompare
    /\ UNCHANGED <<job, servers, runs, single, result, quiet, settled>>

\* /version failed: the copy is planned without a look at the event, and blocked.
PlanUnreachable ==
    /\ phase = "sourced" /\ phase' = "planning" /\ draft' = Absent
    /\ Planned([draft EXCEPT !.blocked = TRUE])
    /\ UNCHANGED <<job, servers, runs, single, shared, result, quiet, settled>>

\* A shared event: the left copy is read, then the right one.
ReadLeft ==
    LET e == events["left"][First(shared)] IN
    /\ phase = "planning" /\ single = None /\ shared # {} /\ e # Absent
    /\ phase' = "comparing" /\ draft' = e
    /\ UNCHANGED <<job, servers, runs, single, shared, copies, result, quiet, settled>>

ReadRight ==
    LET e == events["right"][First(shared)]
        side == Resolution(draft.stamp, e.stamp)
    IN
    /\ phase = "comparing" /\ e # Absent /\ draft' = Absent
    /\ IF InSync(draft.content, e.content) \/ side = {}
       THEN phase' = "planning" /\ shared' = shared \ {First(shared)}
       ELSE phase' \in {Resolving(s) : s \in side} /\ UNCHANGED shared
    /\ UNCHANGED <<job, servers, runs, single, copies, result, quiet, settled>>

\* A conflict that is resolved is planned as an update, from a second reading.
PlanConflict(s) ==
    /\ phase = Resolving(s)
    /\ ReadSource(s, First(shared), "update")
    /\ shared' = shared \ {First(shared)}
    /\ UNCHANGED <<job, servers, runs, single, copies, result, quiet, settled>>

\* A request fails, or an event vanished since it was listed: the whole planning
\* is over.
FailRead == phase \in Planning /\ Raise

EndPlanning ==
    /\ phase = "planning" /\ single = None /\ shared = {}
    /\ phase' = "planned"
    /\ UNCHANGED <<job, servers, runs, single, shared, draft, copies, result, quiet, settled>>

-----------------------------------------------------------------------------
(* apply_sync()                                                            *)

Plan == copies["left"] \o copies["right"]
Blocked == \E i \in 1..Len(Plan) : Plan[i].blocked

\* The command refuses a plan with a blocked copy; the library applies the rest.
Apply ==
    /\ phase = "planned" /\ phase' = "applying"
    /\ job.caller = "sync run" => ~Blocked
    /\ queue' = Plan
    /\ UNCHANGED <<job, servers, runs, single, shared, draft, copies,
                   applied, failures, log, quiet, settled>>

\* The loop goes on, whatever became of the copy: it is named in the result.
AbandonsJob(c) ==                                               \* mutant
    /\ failures' = failures \cup {c.uuid} /\ queue' = <<>>
    /\ phase' = "applying" /\ draft' = Absent /\ UNCHANGED applied
Failed(c) ==
    /\ failures' = failures \cup {c.uuid} /\ queue' = Tail(queue)
    /\ phase' = "applying" /\ draft' = Absent /\ UNCHANGED applied

\* apply_copy_plan() reads the source again, if the copy is not blocked.
CheckCopy ==
    LET c == Head(queue)
        e == events[c.from][c.uuid]
    IN
    /\ phase = "applying" /\ queue # <<>>
    /\ IF c.blocked \/ e = Absent \/ (e # Absent /\ e.content # c.source)
       THEN Failed(c)
       ELSE phase' = "checked" /\ draft' = c /\ UNCHANGED <<queue, applied, failures>>
    /\ UNCHANGED <<job, servers, runs, single, shared, copies, log, quiet, settled>>

\* It reads the destination: a stale or an occupied one is refused.
LookAtDestination ==
    /\ phase = "checked"
    /\ IF Held # Absent /\ (draft.action = "abort" \/ Held.content # draft.base)
       THEN Failed(draft)
       ELSE /\ phase' = "sent"
            /\ draft' = [draft EXCEPT !.verb = IF Held = Absent THEN "add" ELSE "edit"]
            /\ UNCHANGED <<queue, applied, failures>>
    /\ UNCHANGED <<job, servers, runs, single, shared, copies, log, quiet, settled>>

\* The server serves the write, and its answer arrives or is lost: an add of an
\* event that exists is a 409, an edit of one that does not a 404.
Serve(answered) ==
    LET accepted == (Held = Absent) <=> (draft.verb = "add") IN
    /\ phase = "sent"
    /\ IF accepted
       THEN /\ events' = [events EXCEPT ![Other(draft.from)][draft.uuid] =
                            [content |-> draft.proposed, stamp |-> clock + 1]]
            /\ clock' = clock + 1
       ELSE UNCHANGED <<events, clock>>
    /\ IF accepted /\ answered
       THEN /\ applied' = Append(applied, draft.uuid) /\ queue' = Tail(queue)
            /\ phase' = "applying" /\ draft' = Absent /\ UNCHANGED failures
       ELSE Failed(draft)
    /\ UNCHANGED <<job, edits, runs, single, shared, copies, log, quiet, settled>>

\* A request failed, or an event could not be read: any exception is one copy's.
FailCopy ==
    /\ phase \in {"checked", "sent"} \/ (phase = "applying" /\ queue # <<>>)
    /\ Failed(Head(queue))
    /\ UNCHANGED <<job, servers, runs, single, shared, copies, log, quiet, settled>>

\* save_operation(), and the result is handed out.
Record ==
    /\ phase = "applying" /\ queue = <<>> /\ phase' = "done"
    /\ log' = <<Len(applied), Cardinality(failures)>>
    /\ settled' = (quiet /\ failures = {})
    /\ UNCHANGED <<job, servers, runs, single, shared, draft, copies,
                   queue, applied, failures, quiet>>

FailRecord == phase = "applying" /\ queue = <<>> /\ Raise

\* CancelledError is no Exception: it ends the job wherever it is.
Cancel == phase \in Applying /\ Raise

\* An analyst of either server adds, changes or deletes an event.
Edit(s, u, content) ==
    /\ edits < MaxEdits /\ edits' = edits + 1
    /\ events[s][u] # Absent \/ content # Absent
    /\ events' = [events EXCEPT ![s][u] =
            IF content = Absent THEN Absent ELSE [content |-> content, stamp |-> clock + 1]]
    /\ clock' = clock + 1 /\ quiet' = FALSE /\ settled' = FALSE
    /\ UNCHANGED <<job, runs, phase, single, shared, draft, copies, result>>

-----------------------------------------------------------------------------
Next ==
    \/ Start \/ ListLeft \/ ListRight \/ PlanSingle \/ PlanDestination \/ PlanUnreachable
    \/ ReadLeft \/ ReadRight \/ FailRead \/ EndPlanning
    \/ \E s \in Sides : PlanConflict(s)
    \/ Apply \/ CheckCopy \/ LookAtDestination \/ FailCopy \/ Record \/ FailRecord \/ Cancel
    \/ \E answered \in BOOLEAN : Serve(answered)
    \/ \E s \in Sides, d \in Drafts : Edit(s, d[1], d[2])

Spec == Init /\ [][Next]_vars

-----------------------------------------------------------------------------
(* Properties.                                                             *)

\* A result names every copy of its plan once, and so does the operation record:
\* none is lost because two of them concern one event, however the listings and
\* the events changed while they were read.
EveryCopyAccounted ==
    phase = "done" =>
        /\ {Plan[i].uuid : i \in 1..Len(Plan)} = {applied[i] : i \in 1..Len(applied)} \cup failures
        /\ \A i \in 1..Len(applied) : applied[i] \notin failures
        /\ log[1] + log[2] = Len(Plan)

\* What the job writes, its direction allows, and what it replaces, its strategy
\* gives up: never an event of the preferred side, none at all under skip, however
\* the events appear and change under the plan.  Nothing a policy rejects is
\* written, and the command writes nothing of a plan with a blocked copy.
Writes(s, u) == phase = "sent" /\ events[s][u] # events'[s][u] /\ edits' = edits
KeepsToTheJob ==
    [][\A s \in Sides, u \in Uuids : Writes(s, u) =>
        /\ Enabled(Other(s))
        /\ job.caller = "sync run" => ~Blocked
        /\ ~Rejects(Other(s), draft.proposed)
        /\ events[s][u] # Absent => job.strategy \notin {"skip", Prefer(s)}]_vars

\* Applying a plan brings the next one to rest, if nobody edits anything: what a
\* policy removes is not proposed again, nor what the filter tag does not list.
\* For a job in both directions this takes policies that change nothing.
ComesToRest ==
    phase = "planned" /\ settled /\ quiet
    /\ (job.direction # "both" \/ \A s \in Sides : job.policy[s] = "none")
        => \A i \in 1..Len(Plan) : Plan[i].blocked

-----------------------------------------------------------------------------
(* What the documentation says and the code does not do.                   *)

\* docs/sync.md: newer-wins is "Copy the side with the newer MISP timestamp".  The
\* events that a copy was planned from are the ones that were compared.
NewerWins ==
    job.strategy = "newer-wins" =>
        \A i \in 1..Len(Plan) : Plan[i].action = "update" /\ ~Plan[i].blocked =>
            Plan[i].stamps[2] <= Plan[i].stamps[1]
=============================================================================
