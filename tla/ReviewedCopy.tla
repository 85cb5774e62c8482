---------------------------- MODULE ReviewedCopy ----------------------------
(***************************************************************************)
(* What a copy promises its destination (docs/copy.md, "Safety model"),    *)
(* whatever becomes of requests, responses and operators: outside its own  *)
(* analysts' edits, the destination changes only to what a reviewed plan   *)
(* says.  An event that is there is changed by a plan that chose update or *)
(* merge after it saw the event, and by no other; nothing is created over  *)
(* an event that is there; and a plan under a policy carries nothing the   *)
(* policy removes or rejects.                                              *)
(***************************************************************************)
CONSTANTS Facts,      \* what an event can hold
          Removed,    \* what the policy removes
          Forbidden,  \* what makes it reject an event
          Original,   \* the UUID of the event at its source
          Fresh,      \* the UUIDs of copies made under a new one
          Absent      \* no such event

VARIABLES store,      \* the destination's events
          plans       \* the plans that passed the review

abstractVars == <<store, plans>>

Uuids    == {Original} \cup Fresh
Contents == SUBSET Facts
Events   == {Absent} \cup Contents

Plan == [action : {"abort", "skip", "update", "create-new-uuid", "merge"},
         policy : {"none", "import"}, uuid : Uuids, base : Events, proposed : Contents]

Init ==
    /\ store \in [Uuids -> Events]
    /\ plans = {}

\* Reviewed plans stay reviewed, and a new one is clean.
Review ==
    /\ plans \subseteq plans' /\ plans' \subseteq Plan
    /\ \A p \in plans' \ plans :
            p.policy # "none" => p.proposed \cap (Removed \cup Forbidden) = {}
    /\ UNCHANGED store

\* The plan's copy under its own UUID, or under a new one if it chose that.
Create(p, u) ==
    /\ u = p.uuid \/ (p.action = "create-new-uuid" /\ u # Original)
    /\ store[u] = Absent
    /\ store' = [store EXCEPT ![u] = p.proposed]
    /\ UNCHANGED plans

\* What the plan showed its reviewer, whoever writes it and when.
Rewrite(p) ==
    /\ p.action \in {"update", "merge"} /\ p.base # Absent
    /\ store[p.uuid] # Absent
    /\ store' = [store EXCEPT ![p.uuid] =
            IF p.action = "update" THEN p.proposed ELSE p.base \cup p.proposed]
    /\ UNCHANGED plans

Analyst ==
    /\ \E e \in Events : store' = [store EXCEPT ![Original] = e]
    /\ UNCHANGED plans

Next ==
    \/ Review
    \/ \E p \in plans : Rewrite(p) \/ (\E u \in Uuids : Create(p, u))
    \/ Analyst

Spec == Init /\ [][Next]_abstractVars
=============================================================================
