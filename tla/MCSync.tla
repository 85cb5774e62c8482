------------------------------- MODULE MCSync --------------------------------
(* Two events.  The first is on either side, on both or on none, with or    *)
(* without the filter tag and the fact that the policy removes, and analysts *)
(* edit it; the second is on the left alone, or rejected by the policy, so   *)
(* that copies have others before and behind them.                           *)
EXTENDS Sync

CONSTANTS tag, note, secret

MCFacts == {tag, note, secret}
E(content, stamp) == [content |-> content, stamp |-> stamp]
Firsts == {Absent} \cup {E(c, 1) : c \in SUBSET {tag, note}} 
Lefts  == Firsts \cup {E({tag, note}, 0)}
Second == {E({tag, note}, 0), E({tag, secret}, 0)}
MCStarts ==
    {[s \in Sides |-> IF s = "left" THEN <<l, x>> ELSE <<r, Absent>>] :
        l \in Lefts, r \in Firsts, x \in Second}
J(d, t, p, c) == [direction |-> d, strategy |-> t, filtered |-> TRUE,
                  policy |-> [s \in Sides |-> p], caller |-> c]
MCJobs ==
    {J("push", t, "import", "sync run") : t \in {"newer-wins", "prefer-left", "prefer-right"}}
    \cup {J("pull", t, "import", "library") : t \in {"newer-wins", "prefer-left"}}
    \cup {J("both", t, "none", "library") : t \in Strategies}
    \cup {J("both", "newer-wins", "import", "sync run")}
MCUuids == 1..2
MCDrafts == {1} \X ((SUBSET {tag, note}) \cup {Absent})
=============================================================================
